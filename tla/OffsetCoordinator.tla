-------------------------- MODULE OffsetCoordinator --------------------------
(***************************************************************************)
(* Committed offsets (broker.go): Commit and Offset of an                  *)
(* offsetCoordinator, with coordinatorConnection and getGroupCoordinator   *)
(* under their retry loops.  One group, one partition, one broker address, *)
(* and threads that share the offsetCoordinator.                           *)
(*                                                                         *)
(* The coordinator is the server of the kafkatest package, or Kafka's: it  *)
(* stores the offset of each request it handles.  A client that gives a    *)
(* request up does not take it back: the coordinator may handle it later,  *)
(* after the retry, or after a commit that was made since.                 *)
(***************************************************************************)
EXTENDS Integers, FiniteSets, FiniteSetsExt

CONSTANTS
    Threads,          \* goroutines that call Commit or Offset
    Offsets,          \* offsets they commit
    RetryErrLimits,   \* what RetryErrLimit may be set to
    ConnectionLimit,  \* connections to the broker
    MaxLate           \* bound: requests given up and still under way

ASSUME OffsetCoordinatorAssumption ==
    /\ IsFiniteSet(Threads)
    /\ Offsets \subseteq Nat
    /\ RetryErrLimits \subseteq Nat
    /\ ConnectionLimit \in Nat
    /\ MaxLate \in Nat

NoOffset == -1

VARIABLES
    retryErrLimit,  \* attempts of a call, from OffsetCoordinatorConf
    committed,  \* the offset the coordinator has stored
    late,       \* [Offsets -> commits given up that it may still handle]
    pc,         \* [Threads -> where in its call the thread is]
    op,         \* [Threads -> "none", "commit" or "offset"]
    arg,        \* [Threads -> the offset to commit]
    try,        \* [Threads -> attempts that have failed]
    held,       \* [Threads -> open connections the call has]
    answer,     \* [Threads -> the offset in the response under way]
    \* history
    alone,      \* threads whose commit no other commit overlaps, late or not
    possible    \* what may be stored, for all that callers know

callVars == <<pc, op, arg, try, held, answer>>
history == <<alone, possible>>
vars == <<retryErrLimit, committed, late, callVars, history>>

(* A group that never committed: 0 from the test server, -1 from Kafka.    *)
Init ==
    /\ retryErrLimit \in RetryErrLimits
    /\ committed \in {NoOffset, 0}
    /\ late = [o \in Offsets |-> 0]
    /\ pc = [t \in Threads |-> "idle"]
    /\ op = [t \in Threads |-> "none"]
    /\ arg = [t \in Threads |-> NoOffset]
    /\ try = [t \in Threads |-> 0]
    /\ held = [t \in Threads |-> 0]
    /\ answer = [t \in Threads |-> NoOffset]
    /\ alone = {}
    /\ possible = {committed}

-----------------------------------------------------------------------------
Committing == {t \in Threads : op[t] = "commit"}

(* A call.  Commit refuses a negative offset before it does anything.      *)
Commit(t, o) ==
    /\ pc[t] = "idle"
    /\ o >= 0
    /\ pc' = [pc EXCEPT ![t] = "discover"]
    /\ op' = [op EXCEPT ![t] = "commit"]
    /\ arg' = [arg EXCEPT ![t] = o]
    /\ alone' = IF Committing = {} /\ \A p \in Offsets \ {o} : late[p] = 0
                THEN {t} ELSE {}
    /\ possible' = possible \cup {o}
    /\ UNCHANGED <<retryErrLimit, committed, late, try, held, answer>>

Offset(t) ==
    /\ pc[t] = "idle"
    /\ pc' = [pc EXCEPT ![t] = "discover"]
    /\ op' = [op EXCEPT ![t] = "offset"]
    /\ UNCHANGED <<retryErrLimit, committed, late, arg, try, held, answer, history>>

(* The call returns; deferred functions give all its connections back.     *)
(* After a nil from a commit that no other one overlapped its caller knows *)
(* what is stored.                                                         *)
Return(t, err) ==
    /\ pc' = [pc EXCEPT ![t] = "idle"]
    /\ op' = [op EXCEPT ![t] = "none"]
    /\ arg' = [arg EXCEPT ![t] = NoOffset]
    /\ try' = [try EXCEPT ![t] = 0]
    /\ held' = [held EXCEPT ![t] = 0]
    /\ answer' = [answer EXCEPT ![t] = NoOffset]
    /\ alone' = alone \ {t}
    /\ possible' = IF t \in alone /\ err = "nil" THEN {arg[t]} ELSE possible

(* Another attempt after n of them.  Mutants: one too many; attempts are   *)
(* not counted.                                                            *)
TriesAndOne(n) == n <= retryErrLimit
MoreTries(n) == n < retryErrLimit
NotCounted(n) == n
OneMore(n) == n + 1

(* What the call returns when the attempts are used up.  Mutant: the error *)
(* of the last one is lost.                                                *)
NoError(err) == "nil"
ResErr(err) == err

(* An attempt fails, and leaves the call with n open connections.          *)
AttemptFails(t, n) ==
    IF MoreTries(OneMore(try[t]))
    THEN /\ try' = [try EXCEPT ![t] = OneMore(@)]
         /\ pc' = [pc EXCEPT ![t] = "discover"]
         /\ held' = [held EXCEPT ![t] = n]
         /\ answer' = [answer EXCEPT ![t] = NoOffset]
         /\ UNCHANGED <<op, arg, history>>
    ELSE Return(t, ResErr("err"))

-----------------------------------------------------------------------------
(* No attempt at all, if the limit is 0: nothing was sent, and there is no *)
(* error to return.                                                        *)
NoAttempt(t) ==
    /\ pc[t] = "discover"
    /\ ~MoreTries(try[t])
    /\ UNCHANGED <<retryErrLimit, committed, late>>
    /\ Return(t, "nil")

(* Connections in use; at the limit the pool has none for anyone.          *)
InUse == MapThenSumSet(LAMBDA t : held[t], Threads)
HasConnection == InUse < ConnectionLimit

(* getGroupCoordinator: any connection will do ...                         *)
GetAnyConnection(t) ==
    /\ pc[t] = "discover"
    /\ MoreTries(try[t])
    /\ HasConnection
    /\ held' = [held EXCEPT ![t] = @ + 1]
    /\ pc' = [pc EXCEPT ![t] = "ask"]
    /\ UNCHANGED <<retryErrLimit, committed, late, op, arg, try, answer, history>>

(* ... it is given back once the coordinator has been asked for ...        *)
GroupCoordinator(t) ==
    /\ pc[t] = "ask"
    /\ held' = [held EXCEPT ![t] = @ - 1]
    /\ pc' = [pc EXCEPT ![t] = "connect"]
    /\ UNCHANGED <<retryErrLimit, committed, late, op, arg, try, answer, history>>

(* ... and coordinatorConnection gets one to the coordinator.              *)
GetConnection(t) ==
    /\ pc[t] = "connect"
    /\ HasConnection
    /\ held' = [held EXCEPT ![t] = @ + 1]
    /\ pc' = [pc EXCEPT ![t] = "send"]
    /\ UNCHANGED <<retryErrLimit, committed, late, op, arg, try, answer, history>>

(* ErrNoCoordinator: no connection, no answer, or one that is an error.    *)
NoCoordinator(t) ==
    /\ UNCHANGED <<retryErrLimit, committed, late>>
    /\ \/ pc[t] = "discover" /\ MoreTries(try[t]) /\ AttemptFails(t, held[t])
       \/ pc[t] = "connect" /\ AttemptFails(t, held[t])
       \/ pc[t] = "ask" /\ AttemptFails(t, held[t] - 1)

-----------------------------------------------------------------------------
(* The request is written ...                                              *)
Send(t) ==
    /\ pc[t] = "send"
    /\ pc' = [pc EXCEPT ![t] = "sent"]
    /\ UNCHANGED <<retryErrLimit, committed, late, op, arg, try, held, answer, history>>

(* ... handled by the coordinator ...                                      *)
handleOffsetCommitRequest(t) ==
    /\ pc[t] = "sent"
    /\ op[t] = "commit"
    /\ committed' = arg[t]
    /\ pc' = [pc EXCEPT ![t] = "answered"]
    /\ UNCHANGED <<retryErrLimit, late, op, arg, try, held, answer, history>>

handleOffsetFetchRequest(t) ==
    /\ pc[t] = "sent"
    /\ op[t] = "offset"
    /\ answer' = [answer EXCEPT ![t] = committed]
    /\ pc' = [pc EXCEPT ![t] = "answered"]
    /\ UNCHANGED <<retryErrLimit, committed, late, op, arg, try, held, history>>

(* ... and the response returned: nil, and for Offset the offset in it.    *)
Answered(t) ==
    /\ pc[t] = "answered"
    /\ UNCHANGED <<retryErrLimit, committed, late>>
    /\ Return(t, "nil")

(* The coordinator refuses (it is one no more), or the response is not     *)
(* about the partition: the call ends with an error, without a retry.      *)
Refused(t) ==
    /\ pc[t] \in {"sent", "answered"}
    /\ UNCHANGED <<retryErrLimit, committed, late>>
    /\ Return(t, "err")

(* The response cannot be decoded: the connection stays open, and is kept  *)
(* until the call returns.                                                 *)
Unreadable(t) ==
    /\ pc[t] = "answered"
    /\ UNCHANGED <<retryErrLimit, committed, late>>
    /\ AttemptFails(t, held[t])

(* The connection dies before the request is written or handled, or before *)
(* the response is read; sendRequest closes it.                            *)
ConnectionDied(t) ==
    /\ pc[t] \in {"send", "sent", "answered"}
    /\ UNCHANGED <<retryErrLimit, committed, late>>
    /\ AttemptFails(t, held[t] - 1)

(* sendRequest times out on a commit that has not been handled yet.        *)
GivenUp(t) ==
    /\ pc[t] = "sent"
    /\ op[t] = "commit"
    /\ late[arg[t]] < MaxLate
    /\ late' = [late EXCEPT ![arg[t]] = @ + 1]
    /\ AttemptFails(t, held[t] - 1)
    /\ UNCHANGED <<retryErrLimit, committed>>

(* The coordinator handles it after all, or never.                         *)
HandleLate(o) ==
    /\ late[o] > 0
    /\ committed' \in {o, committed}
    /\ late' = [late EXCEPT ![o] = @ - 1]
    /\ UNCHANGED <<retryErrLimit, callVars, history>>

-----------------------------------------------------------------------------
CallNext(t) ==
    \/ NoAttempt(t) \/ GetAnyConnection(t) \/ GroupCoordinator(t)
    \/ GetConnection(t) \/ NoCoordinator(t) \/ Send(t)
    \/ handleOffsetCommitRequest(t) \/ handleOffsetFetchRequest(t)
    \/ Answered(t) \/ Refused(t) \/ Unreadable(t)
    \/ ConnectionDied(t) \/ GivenUp(t)

Next ==
    \/ \E t \in Threads, o \in Offsets \cup {NoOffset} : Commit(t, o)
    \/ \E t \in Threads : Offset(t) \/ CallNext(t)
    \/ \E o \in Offsets : HandleLate(o)

Spec == Init /\ [][Next]_vars

(* Fairness.  Goroutines run, and every wait in a call has a time-out.     *)
Fairness == \A t \in Threads : WF_vars(CallNext(t))

FairSpec == Spec /\ Fairness

-----------------------------------------------------------------------------
(* The type invariant.                                                     *)
TypeOK ==
    /\ retryErrLimit \in RetryErrLimits
    /\ committed \in Offsets \cup {NoOffset, 0}
    /\ late \in [Offsets -> 0..MaxLate]
    /\ pc \in [Threads -> {"idle", "discover", "ask", "connect", "send",
                           "sent", "answered"}]
    /\ op \in [Threads -> {"none", "commit", "offset"}]
    /\ arg \in [Threads -> Offsets \cup {NoOffset}]
    /\ try \in [Threads -> 0..(IF retryErrLimit = 0 THEN 0 ELSE retryErrLimit - 1)]
    /\ held \in [Threads -> 0..retryErrLimit]
    /\ answer \in [Threads -> Offsets \cup {NoOffset, 0}]
    /\ alone \subseteq Threads
    /\ possible \subseteq Offsets \cup {NoOffset, 0}

(* What callers may conclude is true.  A commit that returned an error may *)
(* have been carried out, or may be still; but once one that no other      *)
(* overlaps has returned nil, its offset is what is stored, whatever its   *)
(* own attempts went through, and stays so until the next commit.  This    *)
(* takes a limit of one attempt at least: with 0 Commit returns nil and    *)
(* nothing is stored.                                                      *)
Accounted == retryErrLimit > 0 => committed \in possible

(* A call keeps the connections of its attempts until it returns.  As long *)
(* as ConnectionLimit is not below RetryErrLimit (by default both are 10)  *)
(* it never waits for a connection only because it has them all.           *)
NeverStarvesItself ==
    retryErrLimit \in 1..ConnectionLimit =>
        \A t \in Threads :
            pc[t] \in {"discover", "connect"} => held[t] < ConnectionLimit

(* Every call returns, whatever the brokers do.                            *)
CallsReturn == \A t \in Threads : pc[t] # "idle" ~> pc[t] = "idle"
=============================================================================
