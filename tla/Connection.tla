----------------------------- MODULE Connection -----------------------------
(***************************************************************************)
(* One connection to a broker (connection.go).  Its owner sends one        *)
(* request at a time; each is written and its response read by a goroutine *)
(* (sendRequestHelper) that the owner waits for with a timeout, so it may  *)
(* still be at work when the owner has left.  A produce request with       *)
(* RequiredAcksNone is written by the owner itself and has no response.    *)
(* Meanwhile the pool may close the connection (backend.Close).            *)
(*                                                                         *)
(* Requests are numbered in the order they are made, and a response is     *)
(* named by its request.  Correlation IDs are random, so two requests may  *)
(* have the same one.  The broker is external: it reads requests and       *)
(* answers them in order, and may go away.  Kafka's brokers do not answer  *)
(* a RequiredAcksNone request; the server of the kafkatest package does.   *)
(***************************************************************************)
EXTENDS Integers, Sequences

CONSTANTS
    MaxReq,      \* bound: requests made
    IDs          \* the correlation IDs the requests may get, each a function
                 \* from requests to numbers

Reqs == 1..MaxReq

ASSUME ConnectionAssumption ==
    /\ MaxReq \in Nat
    /\ IDs \subseteq [Reqs -> Int]

VARIABLES
    closed,    \* the closed flag, and with it the state of the transport
    answersAll,  \* the broker answers RequiredAcksNone requests too
    gone,      \* the broker has closed its side
    out, in,   \* requests and responses on their way
    owner,     \* where the owner is
    cur,       \* requests made so far; the last one is the owner's
    id,        \* [Reqs -> correlation ID]
    blind,     \* the requests with RequiredAcksNone
    helper,    \* [Reqs -> where the goroutine of the request is]
    readResp,  \* [Reqs -> content of readRespChan]
    got,       \* [Reqs -> the response the goroutine read, or 0]
    ret        \* what the last request returned

wireVars == <<answersAll, gone, out, in>>
ownerVars == <<owner, cur, id, blind, ret>>
helperVars == <<helper, readResp, got>>
vars == <<closed, wireVars, ownerVars, helperVars>>

Init ==
    /\ closed = FALSE
    /\ answersAll \in BOOLEAN
    /\ gone = FALSE
    /\ out = <<>>
    /\ in = <<>>
    /\ owner = "idle"
    /\ cur = 0
    /\ id \in IDs
    /\ blind = {}
    /\ helper = [n \in Reqs |-> "none"]
    /\ readResp = [n \in Reqs |-> "none"]
    /\ got = [n \in Reqs |-> 0]
    /\ ret = "none"

-----------------------------------------------------------------------------
(* A request with a response: sendRequest starts the goroutine and waits.  *)
Request ==
    /\ owner = "idle"
    /\ cur < MaxReq
    /\ cur' = cur + 1
    /\ owner' = "wait"
    /\ helper' = [helper EXCEPT ![cur + 1] = "write"]
    /\ UNCHANGED <<closed, wireVars, id, blind, ret, readResp, got>>

(* Produce with RequiredAcksNone writes blindly and returns.               *)
ProduceNoAcks ==
    /\ owner = "idle"
    /\ cur < MaxReq
    /\ cur' = cur + 1
    /\ blind' = blind \cup {cur + 1}
    /\ owner' = "write"
    /\ UNCHANGED <<closed, wireVars, id, ret, helperVars>>

Written ==
    /\ owner = "write"
    /\ ~closed
    /\ out' = Append(out, cur)
    /\ owner' = "idle"
    /\ ret' = "ok"
    /\ UNCHANGED <<closed, answersAll, gone, in, cur, id, blind, helperVars>>

WriteError ==
    /\ owner = "write"
    /\ closed \/ gone
    /\ owner' = "idle"
    /\ ret' = "err"
    /\ UNCHANGED <<closed, wireVars, cur, id, blind, helperVars>>

-----------------------------------------------------------------------------
(* The goroutine of request n ends with a result; nobody receives it if    *)
(* the owner's timer was first.                                            *)
Done(n, result) ==
    /\ helper' = [helper EXCEPT ![n] = "none"]
    /\ readResp' = [readResp EXCEPT ![n] =
                      IF owner = "wait" /\ cur = n THEN result ELSE "none"]

HelperWrite(n) ==
    /\ helper[n] = "write"
    /\ ~closed
    /\ out' = Append(out, n)
    /\ helper' = [helper EXCEPT ![n] = "read"]
    /\ UNCHANGED <<closed, answersAll, gone, in, ownerVars, readResp, got>>

HelperWriteError(n) ==
    /\ helper[n] = "write"
    /\ closed \/ gone
    /\ Done(n, "err")
    /\ UNCHANGED <<closed, wireVars, ownerVars, got>>

(* The response is for this request.  Mutant: any response will do.        *)
AnyID(n, r) == TRUE
Expected(n, r) == id[r] = id[n]

HelperRead(n) ==
    LET r == Head(in) IN
    /\ helper[n] = "read"
    /\ ~closed
    /\ in # <<>>
    /\ Expected(n, r)
    /\ in' = Tail(in)
    /\ got' = [got EXCEPT ![n] = r]
    /\ Done(n, "ok")
    /\ UNCHANGED <<closed, answersAll, gone, out, ownerVars>>

(* "got unexpected correlation ID": the connection is closed.              *)
HelperReadUnexpected(n) ==
    /\ helper[n] = "read"
    /\ ~closed
    /\ in # <<>>
    /\ ~Expected(n, Head(in))
    /\ in' = Tail(in)
    /\ closed' = TRUE
    /\ Done(n, "err")
    /\ UNCHANGED <<answersAll, gone, out, ownerVars, got>>

HelperReadError(n) ==
    /\ helper[n] = "read"
    /\ closed \/ (gone /\ in = <<>>)
    /\ Done(n, "err")
    /\ UNCHANGED <<closed, wireVars, ownerVars, got>>

-----------------------------------------------------------------------------
(* The transport is closed.  Mutant: it is left open.                      *)
LeaveOpen == closed' = closed
Close == closed' = TRUE

Receive ==
    /\ owner = "wait"
    /\ readResp[cur] = "ok"
    /\ owner' = "idle"
    /\ ret' = "ok"
    /\ readResp' = [readResp EXCEPT ![cur] = "none"]
    /\ UNCHANGED <<closed, wireVars, cur, id, blind, helper, got>>

ReceiveError ==
    /\ owner = "wait"
    /\ readResp[cur] = "err"
    /\ Close
    /\ owner' = "idle"
    /\ ret' = "err"
    /\ readResp' = [readResp EXCEPT ![cur] = "none"]
    /\ UNCHANGED <<wireVars, cur, id, blind, helper, got>>

(* Mutant: sendRequest waits again when the timer fires.                   *)
WaitAgain == owner = "wait" /\ UNCHANGED vars

(* The error it returns.  Mutant: none.                                    *)
NilError == "nil"
ErrRequestTimeout == "timeout"

(* "sendRequest hit timeout".  A result that has just come in is lost.     *)
Timeout ==
    /\ owner = "wait"
    /\ Close
    /\ owner' = "idle"
    /\ ret' = ErrRequestTimeout
    /\ readResp' = [readResp EXCEPT ![cur] = "none"]
    /\ UNCHANGED <<wireVars, cur, id, blind, helper, got>>

(* The pool, or the owner itself, closes the connection.                   *)
CloseConnection ==
    /\ ~closed
    /\ closed' = TRUE
    /\ UNCHANGED <<wireVars, ownerVars, helperVars>>

-----------------------------------------------------------------------------
(* The broker.                                                             *)
Answer ==
    LET n == Head(out) IN
    /\ ~gone
    /\ out # <<>>
    /\ out' = Tail(out)
    /\ in' = IF n \in blind /\ ~answersAll THEN in ELSE Append(in, n)
    /\ UNCHANGED <<closed, answersAll, gone, ownerVars, helperVars>>

GoAway ==
    /\ ~gone
    /\ gone' = TRUE
    /\ UNCHANGED <<closed, answersAll, out, in, ownerVars, helperVars>>

-----------------------------------------------------------------------------
HelperNext(n) ==
    \/ HelperWrite(n) \/ HelperWriteError(n)
    \/ HelperRead(n) \/ HelperReadUnexpected(n) \/ HelperReadError(n)

Next ==
    \/ Request \/ ProduceNoAcks \/ Written \/ WriteError
    \/ \E n \in Reqs : HelperNext(n)
    \/ Receive \/ ReceiveError \/ Timeout \/ CloseConnection
    \/ Answer \/ GoAway

Spec == Init /\ [][Next]_vars

(* Fairness.  The timer of sendRequest fires, and a read or write on a     *)
(* closed transport returns.  Nothing says that a broker answers, nor that *)
(* a write to one that is there gets through.                              *)
Fairness ==
    /\ WF_vars(Receive \/ ReceiveError \/ Timeout)
    /\ \A n \in Reqs : WF_vars(HelperWriteError(n) \/ HelperReadError(n))

FairSpec == Spec /\ Fairness

-----------------------------------------------------------------------------
(* The type invariant.                                                     *)
TypeOK ==
    /\ closed \in BOOLEAN
    /\ answersAll \in BOOLEAN
    /\ gone \in BOOLEAN
    /\ out \in Seq(Reqs)
    /\ in \in Seq(Reqs)
    /\ owner \in {"idle", "wait", "write"}
    /\ cur \in 0..MaxReq
    /\ id \in IDs
    /\ blind \subseteq Reqs
    /\ helper \in [Reqs -> {"none", "write", "read"}]
    /\ readResp \in [Reqs -> {"none", "ok", "err"}]
    /\ got \in [Reqs -> 0..MaxReq]
    /\ ret \in {"none", "ok", "err", "timeout"}

(* What a goroutine reads as the answer to a request is the answer to that *)
(* request, although a request that timed out may be answered later.  With *)
(* a broker of Kafka's this needs no luck with correlation IDs; with one   *)
(* that answers RequiredAcksNone it rests on the IDs being distinct.       *)
DistinctIDs == \A m, n \in Reqs : id[m] = id[n] => m = n
RightAnswer ==
    ~answersAll \/ DistinctIDs => \A n \in Reqs : got[n] \in {0, n}

(* A connection that is open and between requests, as every one in the     *)
(* pool is, has no response under way and no goroutine at work: the next   *)
(* owner starts afresh.                                                    *)
InSync ==
    ~closed /\ owner = "idle" /\ ~answersAll =>
        /\ in = <<>>
        /\ \A i \in DOMAIN out : out[i] \in blind
        /\ \A n \in Reqs : helper[n] = "none"

(* A request that waits for a response returns, whatever the broker does,  *)
(* and no goroutine is left behind for ever: closing the transport ends    *)
(* it.                                                                     *)
RequestReturns ==
    /\ owner = "wait" ~> owner = "idle"
    /\ \A n \in Reqs : helper[n] # "none" ~> helper[n] = "none"
=============================================================================
