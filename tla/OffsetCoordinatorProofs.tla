----------------------- MODULE OffsetCoordinatorProofs -----------------------
(***************************************************************************)
(* Proofs about OffsetCoordinator, for any threads, offsets and limits.    *)
(* What a caller may conclude from a nil (Accounted) rests on what an      *)
(* overlapped commit leaves behind: nothing that was given up may be late  *)
(* for another offset than that of the commit which is alone.              *)
(***************************************************************************)
EXTENDS OffsetCoordinator, TLAPS

Waiting == {"discover", "connect"}
Trying == {"ask", "connect", "send", "sent", "answered"}
Connected == {"ask", "send", "sent", "answered"}

(* A call has at most one connection for each attempt that has failed, and *)
(* one more while it uses it, and only within its limit.                   *)
Connections ==
    \A t \in Threads :
        /\ pc[t] = "idle" => held[t] = 0 /\ try[t] = 0
        /\ pc[t] \in Waiting => held[t] <= try[t]
        /\ pc[t] \in Connected => held[t] \in 1..(try[t] + 1)
        /\ pc[t] \in Trying => try[t] < retryErrLimit

(* The offset of a commit is there as long as the call is.                 *)
Arguments ==
    \A t \in Threads :
        /\ op[t] = "none" <=> pc[t] = "idle"
        /\ op[t] = "commit" <=> arg[t] \in Offsets

(* A commit that is alone: none other, nothing late but for its offset,    *)
(* and once it is answered its offset is stored.                           *)
Alone ==
    \A t \in alone :
        /\ op[t] = "commit"
        /\ \A u \in Threads \ {t} : op[u] # "commit"
        /\ \A o \in Offsets \ {arg[t]} : late[o] = 0
        /\ pc[t] = "answered" => committed = arg[t]

(* All that is stored, or still may be, is possible.                       *)
Possible ==
    /\ Accounted
    /\ \A t \in Threads : op[t] = "commit" => arg[t] \in possible
    /\ \A o \in Offsets : late[o] > 0 => o \in possible

(* With a limit of 0 no call gets past the test of its loop, and nothing   *)
(* is under way or stored that was not stored at the beginning.            *)
NothingSent ==
    retryErrLimit = 0 =>
        /\ committed \in {NoOffset, 0}
        /\ \A o \in Offsets : late[o] = 0
        /\ \A t \in Threads : pc[t] \in {"idle", "discover"}

IInv == TypeOK /\ Connections /\ Arguments /\ Alone /\ Possible /\ NothingSent

-----------------------------------------------------------------------------
(* The initial state.                                                      *)
LEMMA Initially == Init => IInv
<1> USE OffsetCoordinatorAssumption DEF NoOffset
<1> SUFFICES ASSUME Init PROVE IInv
  OBVIOUS
<1>1. TypeOK
  BY DEF Init, TypeOK
<1>2. Connections
  BY DEF Init, Connections, Waiting, Connected, Trying
<1>3. Arguments
  BY DEF Init, Arguments
<1>4. Alone
  BY DEF Init, Alone
<1>5. Possible
  BY DEF Init, Possible, Accounted
<1>6. NothingSent
  BY DEF Init, TypeOK, NothingSent
<1> QED
  BY <1>1, <1>2, <1>3, <1>4, <1>5, <1>6 DEF IInv

(* A commit of the call was sent, is given up and left to the coordinator. *)
Left(t) ==
    /\ retryErrLimit > 0
    /\ op[t] = "commit"
    /\ late[arg[t]] < MaxLate
    /\ late' = [late EXCEPT ![arg[t]] = @ + 1]

(* What is late stays within its bound.                                    *)
LEMMA LeftType ==
    ASSUME TypeOK, Arguments, NEW t \in Threads, late' = late \/ Left(t)
    PROVE  late' \in [Offsets -> 0..MaxLate]
BY OffsetCoordinatorAssumption DEF Left, TypeOK, Arguments

(* A call returns; with nil only once it has been answered, or without any *)
(* attempt.                                                                *)
LEMMA ReturnStep ==
    ASSUME IInv, NEW t \in Threads, NEW err, Return(t, err),
           UNCHANGED <<committed, retryErrLimit>>, late' = late \/ Left(t),
           t \in alone /\ err = "nil" => pc[t] = "answered" \/ retryErrLimit = 0
    PROVE  IInv'
<1> USE OffsetCoordinatorAssumption DEF NoOffset, IInv
<1>1. TypeOK'
  <2>1. possible' \subseteq Offsets \cup {NoOffset, 0} /\ alone' \subseteq Threads
    BY DEF Return, TypeOK
  <2> QED
    BY <2>1, LeftType DEF Return, TypeOK
<1>2. Connections'
  BY DEF Return, TypeOK, Connections, Waiting, Connected, Trying
<1>3. Arguments'
  BY DEF Return, TypeOK, Arguments
<1>4. Alone'
  BY DEF Return, TypeOK, Alone, Left
<1>5. Possible'
  BY DEF Return, TypeOK, Arguments, Alone, Possible, Accounted, Left
<1>6. NothingSent'
  BY DEF Return, TypeOK, Left, NothingSent
<1> QED
  BY <1>1, <1>2, <1>3, <1>4, <1>5, <1>6

(* A failed attempt is followed by another or ends the call.               *)
LEMMA AttemptStep ==
    ASSUME IInv, NEW t \in Threads, NEW n, AttemptFails(t, n),
           n \in 0..(try[t] + 1), pc[t] # "idle", try[t] < retryErrLimit,
           UNCHANGED <<committed, retryErrLimit>>, late' = late \/ Left(t)
    PROVE  IInv'
<1> USE OffsetCoordinatorAssumption DEF NoOffset, IInv, OneMore, MoreTries, ResErr
<1>1. CASE ~MoreTries(OneMore(try[t]))
  BY <1>1, ReturnStep DEF AttemptFails
<1>2. CASE MoreTries(OneMore(try[t]))
  <2>1. TypeOK'
    <3>1. try' \in [Threads -> 0..(IF retryErrLimit = 0 THEN 0 ELSE retryErrLimit - 1)]
      BY <1>2 DEF AttemptFails, TypeOK
    <3>2. held' \in [Threads -> 0..retryErrLimit]
      BY <1>2 DEF AttemptFails, TypeOK
    <3> QED
      BY <1>2, <3>1, <3>2, LeftType DEF AttemptFails, history, TypeOK
  <2>2. Connections'
    BY <1>2 DEF AttemptFails, history, TypeOK, Connections, Waiting, Connected, Trying
  <2>3. Arguments'
    BY <1>2 DEF AttemptFails, history, TypeOK, Arguments
  <2>4. Alone'
    BY <1>2 DEF AttemptFails, history, TypeOK, Alone, Left
  <2>5. Possible'
    BY <1>2 DEF AttemptFails, history, TypeOK, Arguments, Possible, Accounted, Left
  <2>6. NothingSent'
    BY <1>2 DEF AttemptFails, history, TypeOK, Left, NothingSent
  <2> QED
    BY <2>1, <2>2, <2>3, <2>4, <2>5, <2>6
<1> QED
  BY <1>1, <1>2

(* Every step keeps the invariant.                                         *)
LEMMA Step == IInv /\ [Next]_vars => IInv'
<1> SUFFICES ASSUME IInv, [Next]_vars PROVE IInv'
  OBVIOUS
<1> USE OffsetCoordinatorAssumption DEF NoOffset, IInv
<1>1. ASSUME NEW t \in Threads, NEW o \in Offsets \cup {NoOffset}, Commit(t, o) PROVE IInv'
  <2>1. TypeOK'
    BY <1>1 DEF Commit, Committing, TypeOK
  <2>2. Connections'
    BY <1>1 DEF Commit, Committing, TypeOK, Connections, Waiting, Connected, Trying
  <2>3. Arguments'
    BY <1>1 DEF Commit, Committing, TypeOK, Arguments
  <2>4. Alone'
    BY <1>1 DEF Commit, Committing, TypeOK, Arguments, Alone
  <2>5. Possible'
    BY <1>1 DEF Commit, Committing, TypeOK, Arguments, Alone, Possible, Accounted
  <2>6. NothingSent'
    BY <1>1 DEF Commit, Committing, TypeOK, NothingSent
  <2> QED
    BY <2>1, <2>2, <2>3, <2>4, <2>5, <2>6
<1>2. ASSUME NEW t \in Threads, Offset(t) PROVE IInv'
  <2>1. TypeOK'
    BY <1>2 DEF Offset, history, TypeOK
  <2>2. Connections'
    BY <1>2 DEF Offset, history, TypeOK, Connections, Waiting, Connected, Trying
  <2>3. Arguments'
    BY <1>2 DEF Offset, history, TypeOK, Arguments
  <2>4. Alone'
    BY <1>2 DEF Offset, history, TypeOK, Arguments, Alone
  <2>5. Possible'
    BY <1>2 DEF Offset, history, TypeOK, Arguments, Alone, Possible, Accounted
  <2>6. NothingSent'
    BY <1>2 DEF Offset, history, TypeOK, NothingSent
  <2> QED
    BY <2>1, <2>2, <2>3, <2>4, <2>5, <2>6
<1>3. ASSUME NEW t \in Threads, GetAnyConnection(t) PROVE IInv'
  <2>1. TypeOK'
    BY <1>3 DEF GetAnyConnection, MoreTries, history, TypeOK, Connections, Waiting, Connected, Trying
  <2>2. Connections'
    BY <1>3 DEF GetAnyConnection, MoreTries, history, TypeOK, Connections, Waiting, Connected, Trying
  <2>3. Arguments'
    BY <1>3 DEF GetAnyConnection, history, TypeOK, Arguments
  <2>4. Alone'
    BY <1>3 DEF GetAnyConnection, history, TypeOK, Arguments, Alone
  <2>5. Possible'
    BY <1>3 DEF GetAnyConnection, history, TypeOK, Arguments, Alone, Possible, Accounted
  <2>6. NothingSent'
    BY <1>3 DEF GetAnyConnection, MoreTries, history, TypeOK, NothingSent
  <2> QED
    BY <2>1, <2>2, <2>3, <2>4, <2>5, <2>6
<1>4. ASSUME NEW t \in Threads, GroupCoordinator(t) PROVE IInv'
  <2>1. TypeOK'
    BY <1>4 DEF GroupCoordinator, history, TypeOK, Connections, Waiting, Connected, Trying
  <2>2. Connections'
    BY <1>4 DEF GroupCoordinator, history, TypeOK, Connections, Waiting, Connected, Trying
  <2>3. Arguments'
    BY <1>4 DEF GroupCoordinator, history, TypeOK, Arguments
  <2>4. Alone'
    BY <1>4 DEF GroupCoordinator, history, TypeOK, Arguments, Alone
  <2>5. Possible'
    BY <1>4 DEF GroupCoordinator, history, TypeOK, Arguments, Alone, Possible, Accounted
  <2>6. NothingSent'
    BY <1>4 DEF GroupCoordinator, history, TypeOK, NothingSent
  <2> QED
    BY <2>1, <2>2, <2>3, <2>4, <2>5, <2>6
<1>5. ASSUME NEW t \in Threads, GetConnection(t) PROVE IInv'
  <2>1. TypeOK'
    BY <1>5 DEF GetConnection, history, TypeOK, Connections, Waiting, Connected, Trying
  <2>2. Connections'
    BY <1>5 DEF GetConnection, history, TypeOK, Connections, Waiting, Connected, Trying
  <2>3. Arguments'
    BY <1>5 DEF GetConnection, history, TypeOK, Arguments
  <2>4. Alone'
    BY <1>5 DEF GetConnection, history, TypeOK, Arguments, Alone
  <2>5. Possible'
    BY <1>5 DEF GetConnection, history, TypeOK, Arguments, Alone, Possible, Accounted
  <2>6. NothingSent'
    BY <1>5 DEF GetConnection, history, TypeOK, NothingSent
  <2> QED
    BY <2>1, <2>2, <2>3, <2>4, <2>5, <2>6
<1>6. ASSUME NEW t \in Threads, Send(t) PROVE IInv'
  <2>1. TypeOK'
    BY <1>6 DEF Send, history, TypeOK
  <2>2. Connections'
    BY <1>6 DEF Send, history, TypeOK, Connections, Waiting, Connected, Trying
  <2>3. Arguments'
    BY <1>6 DEF Send, history, TypeOK, Arguments
  <2>4. Alone'
    BY <1>6 DEF Send, history, TypeOK, Arguments, Alone
  <2>5. Possible'
    BY <1>6 DEF Send, history, TypeOK, Arguments, Alone, Possible, Accounted
  <2>6. NothingSent'
    BY <1>6 DEF Send, history, TypeOK, NothingSent
  <2> QED
    BY <2>1, <2>2, <2>3, <2>4, <2>5, <2>6
<1>7. ASSUME NEW t \in Threads, handleOffsetCommitRequest(t) PROVE IInv'
  <2>1. TypeOK'
    BY <1>7 DEF handleOffsetCommitRequest, history, TypeOK
  <2>2. Connections'
    BY <1>7 DEF handleOffsetCommitRequest, history, TypeOK, Connections, Waiting, Connected, Trying
  <2>3. Arguments'
    BY <1>7 DEF handleOffsetCommitRequest, history, TypeOK, Arguments
  <2>4. Alone'
    BY <1>7 DEF handleOffsetCommitRequest, history, TypeOK, Arguments, Alone
  <2>5. Possible'
    BY <1>7 DEF handleOffsetCommitRequest, history, TypeOK, Arguments, Alone, Possible, Accounted
  <2>6. NothingSent'
    BY <1>7 DEF handleOffsetCommitRequest, history, TypeOK, NothingSent
  <2> QED
    BY <2>1, <2>2, <2>3, <2>4, <2>5, <2>6
<1>8. ASSUME NEW t \in Threads, handleOffsetFetchRequest(t) PROVE IInv'
  <2>1. TypeOK'
    BY <1>8 DEF handleOffsetFetchRequest, history, TypeOK
  <2>2. Connections'
    BY <1>8 DEF handleOffsetFetchRequest, history, TypeOK, Connections, Waiting, Connected, Trying
  <2>3. Arguments'
    BY <1>8 DEF handleOffsetFetchRequest, history, TypeOK, Arguments
  <2>4. Alone'
    BY <1>8 DEF handleOffsetFetchRequest, history, TypeOK, Arguments, Alone
  <2>5. Possible'
    BY <1>8 DEF handleOffsetFetchRequest, history, TypeOK, Arguments, Alone, Possible, Accounted
  <2>6. NothingSent'
    BY <1>8 DEF handleOffsetFetchRequest, history, TypeOK, NothingSent
  <2> QED
    BY <2>1, <2>2, <2>3, <2>4, <2>5, <2>6
<1>9. ASSUME NEW t \in Threads, NoCoordinator(t) PROVE IInv'
  <2>1. CASE /\ pc[t] \in Waiting /\ try[t] < retryErrLimit
             /\ AttemptFails(t, held[t])
    BY <1>9, <2>1, AttemptStep DEF NoCoordinator, Connections, Waiting, Trying, MoreTries, TypeOK
  <2>2. CASE pc[t] = "ask" /\ AttemptFails(t, held[t] - 1)
    BY <1>9, <2>2, AttemptStep DEF NoCoordinator, Connections, Connected, Trying, TypeOK
  <2> QED
    BY <1>9, <2>1, <2>2 DEF NoCoordinator, MoreTries, Connections, Waiting, Trying
<1>10. ASSUME NEW t \in Threads, Answered(t) PROVE IInv'
  BY <1>10, ReturnStep DEF Answered
<1>11. ASSUME NEW t \in Threads, Refused(t) PROVE IInv'
  BY <1>11, ReturnStep DEF Refused
<1>12. ASSUME NEW t \in Threads, Unreadable(t) PROVE IInv'
  BY <1>12, AttemptStep DEF Unreadable, Connections, Connected, Trying, TypeOK
<1>13. ASSUME NEW t \in Threads, ConnectionDied(t) PROVE IInv'
  BY <1>13, AttemptStep DEF ConnectionDied, Connections, Connected, Trying, TypeOK
<1>14. ASSUME NEW t \in Threads, GivenUp(t) PROVE IInv'
  <2>1. Left(t) /\ AttemptFails(t, held[t] - 1) /\ UNCHANGED <<committed, retryErrLimit>>
    BY <1>14 DEF GivenUp, Left, Connections, Trying, TypeOK
  <2>2. held[t] - 1 \in 0..(try[t] + 1) /\ pc[t] # "idle" /\ try[t] < retryErrLimit
    BY <1>14 DEF GivenUp, Connections, Connected, Trying, TypeOK
  <2> HIDE DEF IInv
  <2> QED
    BY <2>1, <2>2, AttemptStep
<1>15. ASSUME NEW o \in Offsets, HandleLate(o) PROVE IInv'
  <2>1. TypeOK'
    BY <1>15 DEF HandleLate, history, callVars, TypeOK
  <2>2. Connections'
    BY <1>15 DEF HandleLate, history, callVars, TypeOK, Connections, Waiting, Connected, Trying
  <2>3. Arguments'
    BY <1>15 DEF HandleLate, history, callVars, TypeOK, Arguments
  <2>4. Alone'
    BY <1>15 DEF HandleLate, history, callVars, TypeOK, Arguments, Alone
  <2>5. Possible'
    BY <1>15 DEF HandleLate, history, callVars, TypeOK, Arguments, Alone, Possible, Accounted
  <2>6. NothingSent'
    BY <1>15 DEF HandleLate, history, callVars, TypeOK, NothingSent
  <2> QED
    BY <2>1, <2>2, <2>3, <2>4, <2>5, <2>6
<1>16. CASE UNCHANGED vars
  <2>1. TypeOK'
    BY <1>16 DEF vars, history, callVars, TypeOK
  <2>2. Connections'
    BY <1>16 DEF vars, history, callVars, TypeOK, Connections, Waiting, Connected, Trying
  <2>3. Arguments'
    BY <1>16 DEF vars, history, callVars, TypeOK, Arguments
  <2>4. Alone'
    BY <1>16 DEF vars, history, callVars, TypeOK, Arguments, Alone
  <2>5. Possible'
    BY <1>16 DEF vars, history, callVars, TypeOK, Arguments, Alone, Possible, Accounted
  <2>6. NothingSent'
    BY <1>16 DEF vars, history, callVars, TypeOK, NothingSent
  <2> QED
    BY <2>1, <2>2, <2>3, <2>4, <2>5, <2>6
<1>17. ASSUME NEW t \in Threads, NoAttempt(t) PROVE IInv'
  BY <1>17, ReturnStep DEF NoAttempt, MoreTries, TypeOK
<1> QED
  BY <1>1, <1>2, <1>3, <1>4, <1>5, <1>6, <1>7, <1>8, <1>9, <1>10, <1>11, <1>12, <1>13, <1>14, <1>15, <1>16, <1>17 DEF Next, CallNext

(* The invariant holds throughout.                                         *)
LEMMA Invariance == Spec => []IInv
BY Initially, Step, PTL DEF Spec

-----------------------------------------------------------------------------
(* Type correctness; in particular a call never has more connections than  *)
(* attempts.                                                               *)
THEOREM OffsetTypeOK == Spec => []TypeOK
BY Invariance, PTL DEF IInv

(* Whatever calls were made, failed, timed out or came late, what the      *)
(* coordinator has stored is something that a caller must reckon with; the *)
(* offset of a commit that returned nil and was alone is the only one, for *)
(* every RetryErrLimit but 0.                                              *)
THEOREM OffsetAccounted == Spec => []Accounted
BY Invariance, PTL DEF IInv, Possible

(* With RetryErrLimit 0 nothing is sent or stored, although Commit returns *)
(* nil: why Accounted needs its premise.                                   *)
THEOREM OffsetNothingSent == Spec => []NothingSent
BY Invariance, PTL DEF IInv

(* A call that keeps its connections until it returns does not use up the  *)
(* pool by itself.                                                         *)
THEOREM OffsetNeverStarvesItself == Spec => []NeverStarvesItself
<1>1. IInv => NeverStarvesItself
  BY OffsetCoordinatorAssumption DEF IInv, TypeOK, Connections, Waiting, NeverStarvesItself
<1> QED
  BY <1>1, Invariance, PTL
=============================================================================
