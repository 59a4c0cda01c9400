----------------------- MODULE CommandDeliveryProofs -----------------------
(***************************************************************************)
(* Proofs about CommandDelivery, for every set of commands, any size of    *)
(* the replay cache and any number of crashes and lost requests: the state *)
(* stays well typed, a physical command is begun at most once and never    *)
(* after it was withdrawn, the cloud records only proven changes, and the  *)
(* whole implements CommandContract.                                       *)
(***************************************************************************)
EXTENDS CommandDelivery, FiniteSetTheorems, TLAPS

-----------------------------------------------------------------------------
(* The inductive invariant. *)

(* Labels of a poll that has fetched its commands; of these, the labels at
   which a command is being processed and its report is not queued yet. *)
Flushing == {"flush", "flushRemove", "flushKey"}
Working == Labels \ (Flushing \cup {"idle", "fetch"})
Unreported == {"rejectAck", "ack", "decide", "execute", "effect", "recover", "queue"}
Busy == Working \ {"next"}

(* Rows of commands the Bridge may have begun. *)
Taken == {"ACKNOWLEDGED", "RUNNING", "COMPLETED", "FAILED"}

(* What a report says of a physical command is what its action journal says;
   a rejection carries no proof. *)
Honest(c, r) ==
    /\ r.verdict = "CHANGED" => act[c] = "done"
    /\ r.verdict = "NONE" /\ r.status # "REJECTED" => act[c] = "none"

(* Durable state: what row, journal phase, action journal and outcome of a
   physical command imply about each other, between polls as well. *)
RowCoherent(c) ==
    /\ row[c] # "REJECTED"
    /\ row[c] \in {"COMPLETED", "FAILED"} => outcome[c] \in {"CHANGED", "NONE"}
    /\ outcome[c] = "CHANGED" => act[c] = "done" /\ row[c] \in Terminal
    /\ act[c] # "none" => row[c] \in Taken
    /\ phase[c] \in {"SENT", "HISTORY"} => row[c] \in Terminal

StartCoherent(c) ==
    /\ starts[c] \in 0..1
    /\ phase[c] \in {"NONE", "PREPARED", "LEGACY"} => starts[c] = 0 /\ act[c] = "none"

DurableInv ==
    \A c \in Physical :
        RowCoherent(c) /\ StartCoherent(c) /\ (outbox[c] # None => Honest(c, outbox[c]))

(* What a poll has still to look at. *)
QueueInv ==
    /\ pc \in Flushing => \A c \in toFlush : outbox[c] # None
    /\ pc \in {"flushRemove", "flushKey"} => cur \in Commands /\ cur \notin toFlush
    /\ pc \in Working =>
        /\ \A c \in todo : outbox[c] # None => c \in skip
        /\ \A c \in todo \cap Physical : IF c \in hist THEN phase[c] \in Unfinished ELSE phase[c] = "NONE"

(* What the poll knows of the command it is processing. *)
CurrentInv ==
    /\ pc \in Busy => cur \in Commands /\ cur \notin todo
    /\ pc \in Unreported => outbox[cur] = None
    /\ pc \in {"rejectAck", "recover", "queue", "submit", "dequeue"} => rep \in ReportSet
    /\ pc = "rejectAck" => rep.status = "REJECTED" /\ rep.verdict # "CHANGED"
    /\ pc \in {"queue", "submit"} /\ cur \in Physical => Honest(cur, rep)
    /\ pc \in {"ack", "decide"} /\ cur \in Physical =>
        \/ cur \in hist /\ phase[cur] \in Unfinished
        \/ phase[cur] = "PREPARED"
        \/ phase[cur] = "LEGACY" /\ cur \in known
    /\ pc = "decide" /\ admitted /\ cur \in Physical => row[cur] \in Taken
    /\ pc = "execute" /\ cur \in Physical =>
        phase[cur] = "STARTED" /\ starts[cur] = 0 /\ act[cur] = "none" /\ row[cur] \in Taken
    /\ pc = "effect" => cur \in Physical /\ act[cur] = "journaled"
    /\ pc = "recover" => cur \in Physical /\ (never => act[cur] = "none")
    /\ pc = "dequeue" /\ cur \in Physical /\ rep.status # "REJECTED" /\ rep.verdict # "RECOVERY"
        => row[cur] \in Terminal
    /\ pc \in {"deliver", "archive", "key"} => cur \in Physical /\ row[cur] \in Terminal

Inv == TypeOK /\ DurableInv /\ QueueInv /\ CurrentInv

(* The cache has room for every key: no key is forgotten. *)
Room == IsFiniteSet(Commands) /\ Cardinality(Commands) <= ReplayLimit

Distinct(s) == \A i, j \in 1..Len(s) : s[i] = s[j] => i = j
Places(s) == {s[i] : i \in 1..Len(s)}

(* What the replay keys know of control commands. *)
KeysInv ==
    /\ Distinct(keys)
    /\ \A c \in Control : starts[c] \in 0..1 /\ (starts[c] = 1 => c \in KeySet)
    /\ pc \in Working => KeySet \cap Control \subseteq known
    /\ pc \in {"ack", "decide", "execute"} /\ cur \in Control => starts[cur] = 0 /\ cur \in KeySet

-----------------------------------------------------------------------------
(* Typing. *)

(* Taking a key out of the cache leaves a cache. *)
LEMMA WithoutTyped ==
    ASSUME NEW s \in Seq(Commands), NEW c
    PROVE  Without(s, c) \in Seq(Commands) /\ Len(Without(s, c)) <= Len(s)
<1>1. CASE \A i \in 1..Len(s) : s[i] # c
  BY <1>1 DEF Without
<1>2. CASE ~ \A i \in 1..Len(s) : s[i] # c
  <2> DEFINE at == CHOOSE i \in 1..Len(s) : s[i] = c
             t == [j \in 1..(Len(s) - 1) |-> s[IF j < at THEN j ELSE j + 1]]
  <2>1. at \in 1..Len(s)
    BY <1>2
  <2>2. Len(s) - 1 \in Nat /\ \A j \in 1..(Len(s) - 1) : t[j] \in Commands
    BY <2>1
  <2> HIDE DEF at
  <2>3. t \in Seq(Commands) /\ Len(t) = Len(s) - 1
    BY <2>2
  <2> QED
    BY <1>2, <2>3 DEF Without, at
<1> QED
  BY <1>1, <1>2

(* A remembered key leaves the cache well typed and within its limit. *)
LEMMA RememberTyped ==
    ASSUME TypeOK, NEW c \in Commands, Remember(c)
    PROVE  keys' \in Seq(Commands) /\ Len(keys') <= ReplayLimit
<1> DEFINE w == Without(keys, c)
           s == Append(w, c)
<1>1. w \in Seq(Commands) /\ Len(w) <= ReplayLimit
  BY WithoutTyped, ConstantsAssumption DEF TypeOK
<1>2. s \in Seq(Commands) /\ Len(s) <= ReplayLimit + 1 /\ Len(s) \in Nat \ {0}
  BY <1>1, ConstantsAssumption
<1>3. keys' = IF Len(s) > ReplayLimit THEN Tail(s) ELSE s
  BY DEF Remember
<1> HIDE DEF s
<1> QED
  BY <1>2, <1>3, ConstantsAssumption

(* The initial state satisfies the invariant. *)
LEMMA InvInit == Init => Inv
<1> SUFFICES ASSUME Init PROVE Inv
  OBVIOUS
<1>1. TypeOK
  <2>1. /\ keys \in Seq(Commands) /\ Len(keys) <= ReplayLimit
        /\ crashes \in 0..MaxCrashes /\ lost \in 0..MaxLost
    BY ConstantsAssumption DEF Init
  <2>2. admitted \in BOOLEAN /\ never \in BOOLEAN
    BY DEF Init
  <2> QED
    BY <2>1, <2>2 DEF Init, TypeOK, Statuses, Phases, Labels, Commands
<1>2. DurableInv
  BY DEF Init, DurableInv, RowCoherent, StartCoherent, Commands
<1>3. QueueInv /\ CurrentInv
  BY DEF Init, QueueInv, CurrentInv, Working, Flushing, Unreported, Busy
<1> QED
  BY <1>1, <1>2, <1>3 DEF Inv

(* Every step keeps the state well typed. *)
LEMMA TypeStep == ASSUME Inv, Next PROVE TypeOK'
<1> USE ConstantsAssumption DEF Inv, TypeOK, Commands, cloud, native, poll, Statuses, Terminal,
        Verdicts, ReportSet, Phases, Labels, Unfinished, Flushing, Working, Unreported, Busy,
        QueueInv, CurrentInv
<1>1. CASE BeginPoll
  BY <1>1 DEF BeginPoll
<1>2. CASE FlushReport
  BY <1>2 DEF FlushReport, Deliverable, Spend, Deliveries, Complete, CompleteRow, CompleteOutcome,
     Reported
<1>3. CASE FlushRemove
  BY <1>3 DEF FlushRemove
<1>4. CASE FlushRemember
  BY <1>4, RememberTyped DEF FlushRemember
<1>5. CASE FlushDone
  BY <1>5 DEF FlushDone
<1>6. CASE Fetch
  BY <1>6 DEF Fetch, Deliverable, Spend, Deliveries, ExpireRow, Fetchable, KeySet
<1>7. CASE SkipReported
  BY <1>7 DEF SkipReported
<1>8. CASE RejectCommand
  BY <1>8 DEF RejectCommand, Rejected
<1>9. CASE RejectAck
  BY <1>9 DEF RejectAck, Deliverable, Spend, Deliveries, AckRow
<1>10. CASE Prepare
  <2>1. PICK c \in todo \ skip : cur' = c /\ todo' = todo \ {c}
                  /\ \/ /\ c \in Physical
                        /\ phase' = IF phase[c] # "NONE" THEN phase
                                    ELSE [phase EXCEPT ![c] = IF c \in known THEN "LEGACY" ELSE "PREPARED"]
                        /\ UNCHANGED <<keys, known>>
                     \/ /\ c \in Control /\ Remember(c)
                        /\ known' = known \cup {c} /\ UNCHANGED phase
    BY <1>10 DEF Prepare
  <2>2. keys' \in Seq(Commands) /\ Len(keys') <= ReplayLimit
    BY <2>1, RememberTyped
  <2>3. phase' \in [Physical -> Phases]
    <3>1. CASE phase' = phase
      BY <3>1
    <3>2. CASE c \in Physical /\ phase' = [phase EXCEPT ![c] = IF c \in known THEN "LEGACY" ELSE "PREPARED"]
      BY <3>2
    <3> QED
      BY <2>1, <3>1, <3>2
  <2>4. known' \subseteq Commands /\ todo' \subseteq Commands /\ cur' \in Commands
    BY <2>1
  <2>5. UNCHANGED <<row, outcome, expired, authority, outbox, act, starts, toFlush, skip, hist,
                    admitted, never, rep, crashes, lost>> /\ pc' = "ack"
    BY <1>10 DEF Prepare
  <2> QED
    BY <2>2, <2>3, <2>4, <2>5
<1>11. CASE Acknowledge
  BY <1>11 DEF Acknowledge, Deliverable, Spend, Deliveries, AckRow, AckAccepted
<1>12. CASE Decide
  <2>1. never' \in BOOLEAN
    BY <1>12 DEF Decide, NeverStarted
  <2>2. phase' \in [Physical -> Phases] /\ rep' \in ReportSet \cup {None} /\ pc' \in Labels
    BY <1>12 DEF Decide
  <2>3. UNCHANGED <<row, outcome, expired, authority, outbox, keys, act, starts, toFlush, skip, hist,
                    known, todo, cur, admitted, crashes, lost>>
    BY <1>12 DEF Decide
  <2> QED
    BY <2>1, <2>2, <2>3
<1>13. CASE Execute
  <2>1. never' \in BOOLEAN
    BY <1>13 DEF Execute, Answer
  <2>2. act' \in [Physical -> {"none", "journaled", "done"}]
    BY <1>13 DEF Execute, Answer
  <2>3. rep' \in ReportSet \cup {None}
    BY <1>13 DEF Execute, Answer
  <2>4. starts' \in [Commands -> Nat]
    BY <1>13 DEF Execute
  <2>5. UNCHANGED <<row, outcome, expired, authority, phase, outbox, keys, toFlush, skip, hist,
                    known, todo, cur, admitted, crashes, lost>>
    BY <1>13 DEF Execute
  <2>6. pc' \in Labels
    BY <1>13 DEF Execute, Answer
  <2> QED
    BY <2>1, <2>2, <2>3, <2>4, <2>5, <2>6
<1>14. CASE Effect
  BY <1>14 DEF Effect, Answer
<1>15. CASE Recover
  <2>1. rep \in ReportSet
    BY <1>15 DEF Recover
  <2>2. act' \in [Physical -> {"none", "journaled", "done"}] /\ pc' \in Labels
    BY <1>15 DEF Recover, Answer
  <2>3. rep' \in ReportSet
    BY <1>15, <2>1 DEF Recover, Answer
  <2>4. UNCHANGED <<row, outcome, expired, authority, phase, outbox, keys, starts, toFlush, skip, hist,
                    known, todo, cur, admitted, never, crashes, lost>>
    BY <1>15 DEF Recover, Answer
  <2> QED
    BY <2>2, <2>3, <2>4
<1>16. CASE QueueReport
  BY <1>16 DEF QueueReport
<1>17. CASE SubmitReport
  BY <1>17 DEF SubmitReport, Deliverable, Spend, Deliveries, Complete, CompleteRow,
     CompleteOutcome, Reported
<1>18. CASE RemoveReport
  BY <1>18 DEF RemoveReport
<1>19. CASE MarkDelivered
  BY <1>19 DEF MarkDelivered
<1>20. CASE MoveToHistory
  BY <1>20 DEF MoveToHistory
<1>21. CASE RememberDelivered
  BY <1>21, RememberTyped DEF RememberDelivered
<1>22. CASE EndPoll
  BY <1>22 DEF EndPoll
<1>23. CASE Crash
  BY <1>23 DEF Crash
<1>24. CASE PassExpiry
  BY <1>24 DEF PassExpiry
<1>25. CASE DisconnectRoot
  BY <1>25 DEF DisconnectRoot, WithoutUnstarted
<1>26. CASE ReconnectRoot
  BY <1>26 DEF ReconnectRoot, WithoutReadWork
<1>27. CASE RevokeDevice
  BY <1>27 DEF RevokeDevice, WithoutUnstarted
<1> QED
  BY <1>1, <1>2, <1>3, <1>4, <1>5, <1>6, <1>7, <1>8, <1>9, <1>10, <1>11, <1>12, <1>13, <1>14,
     <1>15, <1>16, <1>17, <1>18, <1>19, <1>20, <1>21, <1>22, <1>23, <1>24, <1>25, <1>26,
     <1>27 DEF Next, Poll

(* Every step keeps rows, journals, outcomes and queued reports coherent. *)
LEMMA DurableStep == ASSUME Inv, Next PROVE DurableInv'
<1> USE ConstantsAssumption DEF Inv, TypeOK, Commands, cloud, native, poll, Statuses, Terminal,
        Verdicts, ReportSet, Phases, Labels, Unfinished, Flushing, Working, Unreported, Busy,
        Taken, DurableInv, RowCoherent, StartCoherent, Honest, QueueInv, CurrentInv
<1>1. CASE BeginPoll
  BY <1>1 DEF BeginPoll
<1>2. CASE FlushReport
  BY <1>2 DEF FlushReport, Deliverable, Spend, Deliveries, Complete, CompleteRow, CompleteOutcome,
     Reported
<1>3. CASE FlushRemove
  BY <1>3 DEF FlushRemove
<1>4. CASE FlushRemember
  BY <1>4 DEF FlushRemember
<1>5. CASE FlushDone
  BY <1>5 DEF FlushDone
<1>6. CASE Fetch
  BY <1>6 DEF Fetch, Deliverable, Spend, Deliveries, ExpireRow, Fetchable, KeySet
<1>7. CASE SkipReported
  BY <1>7 DEF SkipReported
<1>8. CASE RejectCommand
  BY <1>8 DEF RejectCommand, Rejected
<1>9. CASE RejectAck
  BY <1>9 DEF RejectAck, Deliverable, Spend, Deliveries, AckRow
<1>10. CASE Prepare
  BY <1>10 DEF Prepare, Rejected
<1>11. CASE Acknowledge
  BY <1>11 DEF Acknowledge, Deliverable, Spend, Deliveries, AckRow, AckAccepted
<1>12. CASE Decide
  BY <1>12 DEF Decide, HistoricalOnly, NeverStarted
<1>13. CASE Execute
  BY <1>13 DEF Execute, Answer
<1>14. CASE Effect
  BY <1>14 DEF Effect, Answer
<1>15. CASE Recover
  BY <1>15 DEF Recover, Answer
<1>16. CASE QueueReport
  BY <1>16 DEF QueueReport
<1>17. CASE SubmitReport
  BY <1>17 DEF SubmitReport, Deliverable, Spend, Deliveries, Complete, CompleteRow,
     CompleteOutcome, Reported
<1>18. CASE RemoveReport
  BY <1>18 DEF RemoveReport
<1>19. CASE MarkDelivered
  BY <1>19 DEF MarkDelivered
<1>20. CASE MoveToHistory
  BY <1>20 DEF MoveToHistory
<1>21. CASE RememberDelivered
  BY <1>21 DEF RememberDelivered
<1>22. CASE EndPoll
  BY <1>22 DEF EndPoll
<1>23. CASE Crash
  BY <1>23 DEF Crash
<1>24. CASE PassExpiry
  BY <1>24 DEF PassExpiry
<1>25. CASE DisconnectRoot
  BY <1>25 DEF DisconnectRoot, WithoutUnstarted
<1>26. CASE ReconnectRoot
  BY <1>26 DEF ReconnectRoot, WithoutReadWork
<1>27. CASE RevokeDevice
  BY <1>27 DEF RevokeDevice, WithoutUnstarted
<1> QED
  BY <1>1, <1>2, <1>3, <1>4, <1>5, <1>6, <1>7, <1>8, <1>9, <1>10, <1>11, <1>12, <1>13, <1>14,
     <1>15, <1>16, <1>17, <1>18, <1>19, <1>20, <1>21, <1>22, <1>23, <1>24, <1>25, <1>26,
     <1>27 DEF Next, Poll

(* Every step keeps what a poll has still to look at. *)
LEMMA QueueStep == ASSUME Inv, Next PROVE QueueInv'
<1> USE ConstantsAssumption DEF Inv, TypeOK, Commands, cloud, native, poll, Statuses, Terminal,
        Verdicts, ReportSet, Phases, Labels, Unfinished, Flushing, Working, Unreported, Busy,
        Taken, DurableInv, RowCoherent, StartCoherent, Honest, QueueInv, CurrentInv
<1>1. CASE BeginPoll
  BY <1>1 DEF BeginPoll
<1>2. CASE FlushReport
  BY <1>2 DEF FlushReport, Deliverable, Spend, Deliveries, Complete, CompleteRow, CompleteOutcome,
     Reported
<1>3. CASE FlushRemove
  BY <1>3 DEF FlushRemove
<1>4. CASE FlushRemember
  BY <1>4 DEF FlushRemember
<1>5. CASE FlushDone
  BY <1>5 DEF FlushDone
<1>6. CASE Fetch
  BY <1>6 DEF Fetch, Deliverable, Spend, Deliveries, ExpireRow, Fetchable, KeySet
<1>7. CASE SkipReported
  BY <1>7 DEF SkipReported
<1>8. CASE RejectCommand
  BY <1>8 DEF RejectCommand, Rejected
<1>9. CASE RejectAck
  BY <1>9 DEF RejectAck, Deliverable, Spend, Deliveries, AckRow
<1>10. CASE Prepare
  BY <1>10 DEF Prepare, Rejected
<1>11. CASE Acknowledge
  BY <1>11 DEF Acknowledge, Deliverable, Spend, Deliveries, AckRow, AckAccepted
<1>12. CASE Decide
  BY <1>12 DEF Decide, HistoricalOnly, NeverStarted
<1>13. CASE Execute
  BY <1>13 DEF Execute, Answer
<1>14. CASE Effect
  BY <1>14 DEF Effect, Answer
<1>15. CASE Recover
  BY <1>15 DEF Recover, Answer
<1>16. CASE QueueReport
  BY <1>16 DEF QueueReport
<1>17. CASE SubmitReport
  BY <1>17 DEF SubmitReport, Deliverable, Spend, Deliveries, Complete, CompleteRow,
     CompleteOutcome, Reported
<1>18. CASE RemoveReport
  BY <1>18 DEF RemoveReport
<1>19. CASE MarkDelivered
  BY <1>19 DEF MarkDelivered
<1>20. CASE MoveToHistory
  BY <1>20 DEF MoveToHistory
<1>21. CASE RememberDelivered
  BY <1>21 DEF RememberDelivered
<1>22. CASE EndPoll
  BY <1>22 DEF EndPoll
<1>23. CASE Crash
  BY <1>23 DEF Crash
<1>24. CASE PassExpiry
  BY <1>24 DEF PassExpiry
<1>25. CASE DisconnectRoot
  BY <1>25 DEF DisconnectRoot, WithoutUnstarted
<1>26. CASE ReconnectRoot
  BY <1>26 DEF ReconnectRoot, WithoutReadWork
<1>27. CASE RevokeDevice
  BY <1>27 DEF RevokeDevice, WithoutUnstarted
<1> QED
  BY <1>1, <1>2, <1>3, <1>4, <1>5, <1>6, <1>7, <1>8, <1>9, <1>10, <1>11, <1>12, <1>13, <1>14,
     <1>15, <1>16, <1>17, <1>18, <1>19, <1>20, <1>21, <1>22, <1>23, <1>24, <1>25, <1>26,
     <1>27 DEF Next, Poll

(* Every step keeps what the poll knows of its command. *)
LEMMA CurrentStep == ASSUME Inv, Next PROVE CurrentInv'
<1> USE ConstantsAssumption DEF Inv, TypeOK, Commands, cloud, native, poll, Statuses, Terminal,
        Verdicts, ReportSet, Phases, Labels, Unfinished, Flushing, Working, Unreported, Busy,
        Taken, DurableInv, RowCoherent, StartCoherent, Honest, QueueInv, CurrentInv
<1>1. CASE BeginPoll
  BY <1>1 DEF BeginPoll
<1>2. CASE FlushReport
  BY <1>2 DEF FlushReport, Deliverable, Spend, Deliveries, Complete, CompleteRow, CompleteOutcome,
     Reported
<1>3. CASE FlushRemove
  BY <1>3 DEF FlushRemove
<1>4. CASE FlushRemember
  BY <1>4 DEF FlushRemember
<1>5. CASE FlushDone
  BY <1>5 DEF FlushDone
<1>6. CASE Fetch
  BY <1>6 DEF Fetch, Deliverable, Spend, Deliveries, ExpireRow, Fetchable, KeySet
<1>7. CASE SkipReported
  BY <1>7 DEF SkipReported
<1>8. CASE RejectCommand
  BY <1>8 DEF RejectCommand, Rejected
<1>9. CASE RejectAck
  BY <1>9 DEF RejectAck, Deliverable, Spend, Deliveries, AckRow
<1>10. CASE Prepare
  BY <1>10 DEF Prepare, Rejected
<1>11. CASE Acknowledge
  <2>1. PICK d \in Deliveries :
           /\ row' = IF d = "lost" THEN row ELSE [row EXCEPT ![cur] = AckRow(cur)]
           /\ admitted' = (d = "answered" /\ AckAccepted(cur))
           /\ pc' = IF admitted' \/ cur \in hist THEN "decide" ELSE "idle"
    BY <1>11 DEF Acknowledge
  <2>2. UNCHANGED <<outcome, expired, authority, phase, outbox, keys, act, starts, toFlush, skip, hist,
                    known, todo, cur, never, rep>> /\ pc = "ack"
    BY <1>11 DEF Acknowledge
  <2>3. d = "answered" /\ AckAccepted(cur) /\ cur \in Physical => row'[cur] \in Taken
    BY <2>1, <2>2 DEF Deliveries, AckRow, AckAccepted
  <2>4. admitted' /\ cur \in Physical => row'[cur] \in Taken
    BY <2>1, <2>3
  <2>5. pc' \in {"decide", "idle"}
    BY <2>1
  <2> QED
    BY <2>2, <2>4, <2>5
<1>12. CASE Decide
  <2> USE DEF HistoricalOnly, NeverStarted
  <2>1. pc = "decide" /\ UNCHANGED <<row, outcome, outbox, act, starts, hist, known, todo, cur, admitted>>
    BY <1>12 DEF Decide
  <2>2. CASE HistoricalOnly(cur) /\ pc' = "recover" /\ never' = NeverStarted(cur)
               /\ rep' = [status |-> "COMPLETED", verdict |-> "RECOVERY"] /\ UNCHANGED phase
    <3>1. never' => phase[cur] = "PREPARED"
      BY <2>2
    <3> QED
      BY <2>1, <2>2, <3>1
  <2>3. CASE cur \in Physical /\ ~HistoricalOnly(cur) /\ phase[cur] = "HISTORY"
    BY <2>1, <2>3
  <2>4. CASE /\ ~HistoricalOnly(cur) /\ pc' = "execute"
             /\ phase' = IF cur \in Physical THEN [phase EXCEPT ![cur] = "STARTED"] ELSE phase
    <3>1. cur \in Physical => phase[cur] = "PREPARED" /\ row[cur] \in Taken
      BY <2>1, <2>4
    <3> QED
      BY <2>1, <2>4, <3>1
  <2> QED
    BY <1>12, <2>2, <2>3, <2>4 DEF Decide
<1>13. CASE Execute
  BY <1>13 DEF Execute, Answer
<1>14. CASE Effect
  BY <1>14 DEF Effect, Answer
<1>15. CASE Recover
  BY <1>15 DEF Recover, Answer
<1>16. CASE QueueReport
  BY <1>16 DEF QueueReport
<1>17. CASE SubmitReport
  BY <1>17 DEF SubmitReport, Deliverable, Spend, Deliveries, Complete, CompleteRow,
     CompleteOutcome, Reported
<1>18. CASE RemoveReport
  BY <1>18 DEF RemoveReport
<1>19. CASE MarkDelivered
  BY <1>19 DEF MarkDelivered
<1>20. CASE MoveToHistory
  BY <1>20 DEF MoveToHistory
<1>21. CASE RememberDelivered
  BY <1>21 DEF RememberDelivered
<1>22. CASE EndPoll
  BY <1>22 DEF EndPoll
<1>23. CASE Crash
  BY <1>23 DEF Crash
<1>24. CASE PassExpiry
  BY <1>24 DEF PassExpiry
<1>25. CASE DisconnectRoot
  BY <1>25 DEF DisconnectRoot, WithoutUnstarted
<1>26. CASE ReconnectRoot
  BY <1>26 DEF ReconnectRoot, WithoutReadWork
<1>27. CASE RevokeDevice
  BY <1>27 DEF RevokeDevice, WithoutUnstarted
<1> QED
  BY <1>1, <1>2, <1>3, <1>4, <1>5, <1>6, <1>7, <1>8, <1>9, <1>10, <1>11, <1>12, <1>13, <1>14,
     <1>15, <1>16, <1>17, <1>18, <1>19, <1>20, <1>21, <1>22, <1>23, <1>24, <1>25, <1>26,
     <1>27 DEF Next, Poll

(* The invariant holds throughout: poll, crash, expiry and loss of authority
   may interleave in any way. *)
THEOREM Invariance == Spec => []Inv
<1>1. Inv /\ [Next]_vars => Inv'
  <2> SUFFICES ASSUME Inv, [Next]_vars PROVE Inv'
    OBVIOUS
  <2>1. CASE Next
    BY <2>1, TypeStep, DurableStep, QueueStep, CurrentStep DEF Inv
  <2>2. CASE UNCHANGED vars
    BY <2>2 DEF vars, Inv, TypeOK, DurableInv, RowCoherent, StartCoherent, Honest, QueueInv,
       CurrentInv
  <2> QED
    BY <2>1, <2>2
<1> QED
  BY InvInit, <1>1, PTL DEF Spec

-----------------------------------------------------------------------------
(* What follows from it. *)

(* Rows, journals, outbox, cache and poll stay well typed. *)
THEOREM TypeCorrect == Spec => []TypeOK
<1>1. Inv => TypeOK
  BY DEF Inv
<1> QED
  BY Invariance, <1>1, PTL

(* The cloud records a change only for an action the Bridge's journal proves
   complete, and the Bridge archives a command only after the cloud settled it
   (applyRemoteExecutionReport, markPhysicalCommandDelivered). *)
THEOREM ReportedIsProven == Spec => []OutcomeProven
<1>1. Inv => OutcomeProven
  BY DEF Inv, DurableInv, RowCoherent, OutcomeProven, ChangeProven, ArchivedAfterSettled
<1> QED
  BY Invariance, <1>1, PTL

(* However small the replay cache, the journal phase alone keeps a physical
   command from being begun twice, or after the cloud withdrew it. *)
THEOREM PhysicalOnce == Spec => []((\A c \in Physical : starts[c] <= 1) /\ WithdrawnUntouched)
<1>1. Inv => (\A c \in Physical : starts[c] <= 1) /\ WithdrawnUntouched
  BY DEF Inv, DurableInv, RowCoherent, StartCoherent, WithdrawnUntouched, Taken
<1> QED
  BY Invariance, <1>1, PTL

-----------------------------------------------------------------------------
(* The replay cache. *)

(* Taking a key out of a cache without repetitions leaves the others. *)
LEMMA WithoutKeeps ==
    ASSUME NEW s \in Seq(Commands), Distinct(s), NEW c
    PROVE  Distinct(Without(s, c)) /\ Places(Without(s, c)) = Places(s) \ {c}
<1>1. CASE \A i \in 1..Len(s) : s[i] # c
  BY <1>1 DEF Without, Places
<1>2. CASE ~ \A i \in 1..Len(s) : s[i] # c
  <2> DEFINE at == CHOOSE i \in 1..Len(s) : s[i] = c
             t == [j \in 1..(Len(s) - 1) |-> s[IF j < at THEN j ELSE j + 1]]
  <2>1. at \in 1..Len(s) /\ s[at] = c
    BY <1>2
  <2>2. Without(s, c) = t
    BY <1>2 DEF Without
  <2> HIDE DEF at
  <2>3. Len(s) \in Nat /\ t \in Seq(Commands) /\ Len(t) = Len(s) - 1
    <3>1. Len(s) - 1 \in Nat /\ \A j \in 1..(Len(s) - 1) : t[j] \in Commands
      BY <2>1
    <3> QED
      BY <3>1
  <2>4. \A j \in 1..Len(t) : t[j] = s[IF j < at THEN j ELSE j + 1]
    BY <2>3
  <2> HIDE DEF t
  <2>5. Distinct(t)
    BY <2>1, <2>3, <2>4 DEF Distinct
  <2>6. ASSUME NEW i \in 1..Len(s), i # at PROVE s[i] \in Places(t)
    <3> DEFINE j == IF i < at THEN i ELSE i - 1
    <3>1. j \in 1..Len(t) /\ t[j] = s[i]
      BY <2>1, <2>3, <2>4, <2>6
    <3> QED
      BY <3>1 DEF Places
  <2>7. ASSUME NEW j \in 1..Len(t) PROVE t[j] \in Places(s) \ {c}
    <3> DEFINE k == IF j < at THEN j ELSE j + 1
    <3>1. k \in 1..Len(s) /\ k # at
      BY <2>1, <2>3, <2>7
    <3>2. t[j] = s[k]
      BY <2>4
    <3> HIDE DEF k
    <3> QED
      BY <2>1, <3>1, <3>2 DEF Distinct, Places
  <2> QED
    BY <2>1, <2>2, <2>5, <2>6, <2>7 DEF Places
<1> QED
  BY <1>1, <1>2

(* With room for every key, remembering one forgets none. *)
LEMMA RememberAll ==
    ASSUME TypeOK, Room, Distinct(keys), NEW c \in Commands, Remember(c)
    PROVE  Distinct(keys') /\ Places(keys') = Places(keys) \cup {c}
<1> DEFINE w == Without(keys, c)
           s == Append(w, c)
<1>1. /\ w \in Seq(Commands) /\ Distinct(w) /\ Places(w) = Places(keys) \ {c}
  BY WithoutTyped, WithoutKeeps DEF TypeOK
<1>2. keys' = IF Len(s) > ReplayLimit THEN Tail(s) ELSE s
  BY DEF Remember
<1> HIDE DEF w
<1>3. /\ s \in Seq(Commands) /\ Len(s) = Len(w) + 1 /\ Len(w) \in Nat
      /\ s[Len(w) + 1] = c /\ \A i \in 1..Len(w) : s[i] = w[i]
  BY <1>1
<1> HIDE DEF s
<1>4. Distinct(s)
  BY <1>1, <1>3 DEF Distinct, Places
<1>5. Places(s) = Places(keys) \cup {c}
  <2>1. Places(s) = Places(w) \cup {c}
    BY <1>3 DEF Places
  <2> QED
    BY <2>1, <1>1 DEF Places
<1>6. Len(s) <= ReplayLimit
  <2>1. s \in Injection(1..Len(s), Commands)
    BY <1>3, <1>4 DEF Injection, IsInjective, Distinct
  <2>2. Cardinality(1..Len(s)) <= Cardinality(Commands)
    BY <2>1, FS_Injection DEF Room
  <2>3. Cardinality(1..Len(s)) = Len(s)
    BY <1>3, FS_Interval
  <2>4. Cardinality(Commands) \in Nat
    BY FS_CardinalityType DEF Room
  <2> QED
    BY <2>2, <2>3, <2>4, <1>3, ConstantsAssumption DEF Room
<1> QED
  BY <1>2, <1>3, <1>4, <1>5, <1>6, ConstantsAssumption

(* Every step keeps what the cache knows, when it has room. *)
LEMMA KeysStep == ASSUME Inv, Room, KeysInv, Next PROVE KeysInv'
<1> USE ConstantsAssumption
    DEF Inv, TypeOK, KeysInv, KeySet, Commands, cloud, native, poll, Labels, Flushing, Working, Busy
<1> USE DEF Unreported, QueueInv, CurrentInv, Distinct
<1>1. CASE BeginPoll
  BY <1>1 DEF BeginPoll
<1>2. CASE FlushReport
  BY <1>2 DEF FlushReport, Deliverable, Spend, Deliveries, Complete, CompleteRow, CompleteOutcome,
     Reported
<1>3. CASE FlushRemove
  BY <1>3 DEF FlushRemove
<1>4. CASE FlushRemember
  <2>1. cur \in Commands /\ Remember(cur)
    BY <1>4 DEF FlushRemember
  <2>2. Distinct(keys') /\ Places(keys') = Places(keys) \cup {cur}
    BY <2>1, RememberAll
  <2> QED
    BY <1>4, <2>2 DEF FlushRemember, Places
<1>5. CASE FlushDone
  BY <1>5 DEF FlushDone
<1>6. CASE Fetch
  BY <1>6 DEF Fetch, Deliverable, Spend, Deliveries, ExpireRow, Fetchable
<1>7. CASE SkipReported
  BY <1>7 DEF SkipReported
<1>8. CASE RejectCommand
  BY <1>8 DEF RejectCommand, Rejected
<1>9. CASE RejectAck
  BY <1>9 DEF RejectAck, Deliverable, Spend, Deliveries, AckRow
<1>10. CASE Prepare
  <2>1. PICK c \in todo \ skip : cur' = c /\ ~Rejected(c)
                  /\ \/ c \in Physical /\ UNCHANGED <<keys, known>>
                     \/ c \in Control /\ Remember(c) /\ known' = known \cup {c}
    BY <1>10 DEF Prepare
  <2>2. CASE c \in Physical /\ UNCHANGED <<keys, known>>
    BY <1>10, <2>1, <2>2 DEF Prepare
  <2>3. CASE c \in Control /\ Remember(c) /\ known' = known \cup {c}
    <3>1. Distinct(keys') /\ Places(keys') = Places(keys) \cup {c}
      BY <2>3, RememberAll
    <3>2. starts[c] = 0
      BY <1>10, <2>1, <2>3 DEF Prepare, Rejected
    <3> QED
      BY <1>10, <2>1, <2>3, <3>1, <3>2 DEF Prepare, Places
  <2> QED
    BY <2>1, <2>2, <2>3
<1>11. CASE Acknowledge
  BY <1>11 DEF Acknowledge, Deliverable, Spend, Deliveries, AckRow, AckAccepted
<1>12. CASE Decide
  BY <1>12 DEF Decide, HistoricalOnly, NeverStarted
<1>13. CASE Execute
  BY <1>13 DEF Execute, Answer
<1>14. CASE Effect
  BY <1>14 DEF Effect, Answer
<1>15. CASE Recover
  BY <1>15 DEF Recover, Answer
<1>16. CASE QueueReport
  BY <1>16 DEF QueueReport
<1>17. CASE SubmitReport
  BY <1>17 DEF SubmitReport, Deliverable, Spend, Deliveries, Complete, CompleteRow,
     CompleteOutcome, Reported
<1>18. CASE RemoveReport
  BY <1>18 DEF RemoveReport
<1>19. CASE MarkDelivered
  BY <1>19 DEF MarkDelivered
<1>20. CASE MoveToHistory
  BY <1>20 DEF MoveToHistory
<1>21. CASE RememberDelivered
  <2>1. cur \in Commands /\ Remember(cur)
    BY <1>21 DEF RememberDelivered
  <2>2. Distinct(keys') /\ Places(keys') = Places(keys) \cup {cur}
    BY <2>1, RememberAll
  <2>3. pc = "key" /\ pc' = "next" /\ UNCHANGED <<row, outcome, expired, authority, phase, outbox, act, starts,
                                                    toFlush, skip, hist, known, todo, cur, admitted, never, rep>>
    BY <1>21 DEF RememberDelivered
  <2> QED
    BY <2>2, <2>3, ZenonT(40) DEF Places
<1>22. CASE EndPoll
  BY <1>22 DEF EndPoll
<1>23. CASE Crash
  BY <1>23 DEF Crash
<1>24. CASE PassExpiry
  BY <1>24 DEF PassExpiry
<1>25. CASE DisconnectRoot
  BY <1>25 DEF DisconnectRoot, WithoutUnstarted
<1>26. CASE ReconnectRoot
  BY <1>26 DEF ReconnectRoot, WithoutReadWork
<1>27. CASE RevokeDevice
  BY <1>27 DEF RevokeDevice, WithoutUnstarted
<1> QED
  BY <1>1, <1>2, <1>3, <1>4, <1>5, <1>6, <1>7, <1>8, <1>9, <1>10, <1>11, <1>12, <1>13, <1>14,
     <1>15, <1>16, <1>17, <1>18, <1>19, <1>20, <1>21, <1>22, <1>23, <1>24, <1>25, <1>26,
     <1>27 DEF Next, Poll

(* With room in the cache no command at all is begun twice, through any loss of
   requests and crashes, and a command the cloud expired or cancelled never
   touches the disk (processPendingBridgeCommands). *)
THEOREM CommandOnce == ASSUME Room PROVE Spec => []EffectOnce
<1>1. Init => KeysInv
  BY ConstantsAssumption DEF Init, KeysInv, KeySet, Distinct, Commands, Flushing, Working
<1>2. Inv /\ KeysInv /\ [Next]_vars => KeysInv'
  <2> SUFFICES ASSUME Inv, KeysInv, [Next]_vars PROVE KeysInv'
    OBVIOUS
  <2>1. CASE Next
    BY <2>1, KeysStep
  <2>2. CASE UNCHANGED vars
    BY <2>2 DEF vars, KeysInv, KeySet
  <2> QED
    BY <2>1, <2>2
<1>3. Inv /\ KeysInv => EffectOnce
  BY DEF Inv, DurableInv, RowCoherent, StartCoherent, KeysInv, Commands, Taken,
         EffectOnce, AtMostOnce, WithdrawnUntouched
<1> QED
  BY Invariance, <1>1, <1>2, <1>3, PTL DEF Spec

-----------------------------------------------------------------------------
(* CommandDelivery implements CommandContract. *)

(* What the cloud shows of physical commands when their rows change without a
   report: PENDING rows that expire or are cancelled are withdrawn. *)
LEMMA RowsWithdrawn ==
    ASSUME Inv, UNCHANGED <<act, outcome>>,
           \A c \in Physical : row'[c] = row[c] \/ (row[c] = "PENDING" /\ row'[c] \in {"ACKNOWLEDGED", "EXPIRED", "CANCELLED"})
    PROVE  Contract!Next
<1> DEFINE S == {c \in Physical : row[c] = "PENDING" /\ row'[c] \in {"EXPIRED", "CANCELLED"}}
<1>1. \A c \in S : Settled[c] = "open" /\ act[c] = "none"
  BY DEF Settled, Terminal, Inv, DurableInv, RowCoherent, Taken
<1>2. Settled' = [c \in Physical |-> IF c \in S THEN "withdrawn" ELSE Settled[c]]
  BY DEF Settled, Terminal
<1>3. Contract!Withdraw(S)
  BY <1>1, <1>2 DEF Contract!Withdraw
<1> QED
  BY <1>3 DEF Contract!Next

(* A report settles an open command with what its journal proves, or changes
   nothing a reader sees. *)
LEMMA ReportSettles ==
    ASSUME Inv, UNCHANGED act, NEW c \in Commands, NEW r \in ReportSet, NEW d \in Deliveries,
           Complete(c, r, d), c \in Physical => Honest(c, r)
    PROVE  [Contract!Next]_(Contract!vars)
<1> USE DEF Inv, TypeOK, Complete, CompleteRow, CompleteOutcome, ReportSet, Verdicts, Terminal
<1>1. CASE c \in Physical /\ d # "lost" /\ row[c] \in {"ACKNOWLEDGED", "RUNNING"}
             /\ r.verdict # "RECOVERY" /\ r.status # "REJECTED"
  <2>1. Settled[c] = "open" /\ Settled' = [Settled EXCEPT ![c] = r.verdict]
    <3>1. Settled[c] = "open"
      BY <1>1 DEF Settled
    <3>2. row' = [row EXCEPT ![c] = r.status] /\ outcome' = [outcome EXCEPT ![c] = r.verdict]
      BY <1>1 DEF Commands
    <3>3. ASSUME NEW p \in Physical
          PROVE  Settled'[p] = IF p = c THEN r.verdict ELSE Settled[p]
      BY <1>1, <3>2 DEF Settled, Commands
    <3> QED
      BY <1>1, <3>1, <3>3 DEF Settled
  <2>2. Contract!Settle(c)
    BY <1>1, <2>1 DEF Contract!Settle, Honest
  <2> QED
    BY <1>1, <2>2 DEF Contract!Next
<1>2. CASE ~(c \in Physical /\ d # "lost" /\ row[c] \in {"ACKNOWLEDGED", "RUNNING"}
             /\ r.verdict # "RECOVERY" /\ r.status # "REJECTED")
  <2>1. Settled' = Settled
    BY <1>2, ConstantsAssumption DEF Settled, Commands
  <2> QED
    BY <2>1 DEF Contract!vars
<1> QED
  BY <1>1, <1>2

(* A step that leaves rows, outcomes and action journals alone is a stutter. *)
LEMMA Stutters ==
    ASSUME UNCHANGED <<row, outcome, act>>
    PROVE  [Contract!Next]_(Contract!vars)
<1>1. Settled' = Settled
  BY DEF Settled
<1> QED
  BY <1>1 DEF Contract!vars

(* The outcome of an action begun earlier is a Finish of the contract. *)
LEMMA Finishes ==
    ASSUME Inv, NEW c \in Physical, act[c] = "journaled", act' = [act EXCEPT ![c] = "done"],
           UNCHANGED <<row, outcome>>
    PROVE  Contract!Next
<1>1. Settled[c] \in {"open", "NONE"} /\ Settled' = Settled
  BY DEF Settled, Inv, DurableInv, RowCoherent, Taken, Terminal
<1>2. Contract!Finish(c)
  BY <1>1 DEF Contract!Finish
<1> QED
  BY <1>2 DEF Contract!Next

(* Every step of the delivery is a step of the contract or a stutter. *)
LEMMA StepRefines == ASSUME Inv, Next PROVE [Contract!Next]_(Contract!vars)
<1> USE DEF cloud, native, poll
<1>1. CASE BeginPoll \/ FlushRemove \/ FlushRemember \/ FlushDone \/ SkipReported \/ RejectCommand
           \/ Prepare \/ Decide \/ QueueReport \/ RemoveReport \/ MarkDelivered \/ MoveToHistory
           \/ RememberDelivered \/ EndPoll \/ Crash \/ PassExpiry
  <2>1. UNCHANGED <<row, outcome, act>>
    BY <1>1 DEF BeginPoll, FlushRemove, FlushRemember, FlushDone, SkipReported, RejectCommand,
       Prepare,
                Decide, QueueReport, RemoveReport, MarkDelivered, MoveToHistory, RememberDelivered,
                EndPoll, Crash, PassExpiry
  <2> QED
    BY <2>1, Stutters
<1>2. CASE FlushReport
  <2>1. PICK c \in toFlush, d \in Deliveries : Complete(c, outbox[c], d)
    BY <1>2 DEF FlushReport
  <2>2. c \in Commands /\ outbox[c] \in ReportSet /\ (c \in Physical => Honest(c, outbox[c]))
    BY <1>2, <2>1 DEF FlushReport, Inv, TypeOK, QueueInv, DurableInv, Flushing
  <2>3. UNCHANGED act
    BY <1>2 DEF FlushReport
  <2> QED
    BY <2>1, <2>2, <2>3, ReportSettles
<1>3. CASE SubmitReport
  <2>1. PICK d \in Deliveries : Complete(cur, rep, d)
    BY <1>3 DEF SubmitReport
  <2>2. cur \in Commands /\ rep \in ReportSet /\ (cur \in Physical => Honest(cur, rep))
    BY <1>3 DEF SubmitReport, Inv, CurrentInv, Busy, Working, Labels, Flushing
  <2>3. UNCHANGED act
    BY <1>3 DEF SubmitReport
  <2> QED
    BY <2>1, <2>2, <2>3, ReportSettles
<1>4. CASE Fetch \/ RejectAck \/ Acknowledge \/ DisconnectRoot \/ ReconnectRoot \/ RevokeDevice
  <2>1. UNCHANGED <<act, outcome>>
    BY <1>4 DEF Fetch, RejectAck, Acknowledge, DisconnectRoot, ReconnectRoot, RevokeDevice
  <2>2. \A c \in Physical :
           \/ row'[c] = row[c]
           \/ row[c] = "PENDING" /\ row'[c] \in {"ACKNOWLEDGED", "EXPIRED", "CANCELLED"}
    <3> USE ConstantsAssumption DEF Inv, TypeOK, Commands
    <3>1. CASE Fetch
      BY <3>1 DEF Fetch, ExpireRow
    <3>2. CASE RejectAck \/ Acknowledge
      BY <3>2 DEF RejectAck, Acknowledge, AckRow
    <3>3. CASE DisconnectRoot \/ ReconnectRoot \/ RevokeDevice
      BY <3>3 DEF DisconnectRoot, ReconnectRoot, RevokeDevice, WithoutUnstarted, WithoutReadWork
    <3> QED
      BY <1>4, <3>1, <3>2, <3>3
  <2> QED
    BY <2>1, <2>2, RowsWithdrawn
<1>5. CASE Execute
  <2>1. UNCHANGED <<row, outcome>>
    BY <1>5 DEF Execute
  <2>2. CASE UNCHANGED act
    BY <2>1, <2>2, Stutters
  <2>3. CASE cur \in Physical /\ act' = [act EXCEPT ![cur] = "journaled"]
    <3>1. act[cur] = "none" /\ row[cur] \in Taken
      BY <1>5, <2>3 DEF Execute, Inv, CurrentInv
    <3>2. Settled[cur] \in {"open", "NONE"} /\ Settled' = Settled
      BY <2>1, <2>3, <3>1 DEF Settled, Inv, DurableInv, RowCoherent, Taken, Terminal
    <3>3. Contract!Admit(cur)
      BY <2>3, <3>1, <3>2 DEF Contract!Admit
    <3> QED
      BY <2>3, <3>3 DEF Contract!Next
  <2> QED
    BY <1>5, <2>2, <2>3 DEF Execute, Answer
<1>6. CASE Effect \/ Recover
  <2>1. UNCHANGED <<row, outcome>> /\ cur \in Physical
    BY <1>6 DEF Effect, Recover, Inv, CurrentInv
  <2>2. CASE UNCHANGED act
    BY <2>1, <2>2, Stutters
  <2>3. CASE act[cur] = "journaled" /\ act' = [act EXCEPT ![cur] = "done"]
    BY <2>1, <2>3, Finishes
  <2> QED
    BY <1>6, <2>2, <2>3 DEF Effect, Recover, Inv, CurrentInv
<1> QED
  BY <1>1, <1>2, <1>3, <1>4, <1>5, <1>6 DEF Next, Poll

(* The poll, the journals, the outbox and the cloud's routes together implement
   the contract of a physical command, whatever is lost and wherever the
   process dies. *)
THEOREM DeliveryImplementsContract == Spec => ImplementsContract
<1>1. Init => Contract!Init
  BY DEF Init, Contract!Init, Settled, Terminal, Commands
<1>2. Inv /\ [Next]_vars => [Contract!Next]_(Contract!vars)
  <2> SUFFICES ASSUME Inv, [Next]_vars PROVE [Contract!Next]_(Contract!vars)
    OBVIOUS
  <2>1. CASE Next
    BY <2>1, StepRefines
  <2>2. CASE UNCHANGED vars
    BY <2>2, Stutters DEF vars
  <2> QED
    BY <2>1, <2>2
<1> QED
  BY Invariance, <1>1, <1>2, PTL DEF Spec, ImplementsContract, Contract!Spec
=============================================================================
