-------------------------- MODULE ConnectionProofs --------------------------
(***************************************************************************)
(* Proofs about Connection, for any number of requests and any correlation *)
(* IDs.  A request that is given up leaves a goroutine behind that would   *)
(* read the answer to the next one; that it never does rests on the        *)
(* connection being closed at every way out of sendRequest on which the    *)
(* goroutine may still be at work.                                         *)
(***************************************************************************)
EXTENDS Connection, TLAPS

(* Requests are numbered, and only those made so far have left a trace.    *)
Numbered ==
    /\ owner # "idle" => cur # 0
    /\ owner = "write" => cur \in blind
    /\ owner = "wait" => cur \notin blind
    /\ \A n \in Reqs : n > cur => n \notin blind /\ helper[n] = "none"

(* A result is for the owner that waits, and the goroutine has ended.      *)
Results ==
    \A n \in Reqs : readResp[n] # "none" =>
        owner = "wait" /\ n = cur /\ helper[n] = "none"

(* A goroutine that nobody waits for has its transport closed.             *)
Stale ==
    \A n \in Reqs : helper[n] # "none" => closed \/ (owner = "wait" /\ n = cur)

(* The goroutine of the current request waits for its response.            *)
Reading == owner = "wait" /\ cur \in Reqs /\ helper[cur] = "read"

(* The result of the current request is an error, so the connection is     *)
(* about to be closed.                                                     *)
Failing == owner = "wait" /\ cur \in Reqs /\ readResp[cur] = "err"

(* With a broker of Kafka's, an open connection carries at most one thing  *)
(* that will be read, the current request or its response, and only while  *)
(* the goroutine of that request reads.                                    *)
Wire ==
    ~closed /\ ~answersAll /\ ~Failing =>
        /\ in = <<>> \/ (in = <<cur>> /\ Reading)
        /\ \A i \in DOMAIN out :
              out[i] \in blind \/ (out[i] = cur /\ Reading /\ in = <<>>)
        /\ \A i, j \in DOMAIN out :
              out[i] \notin blind /\ out[j] \notin blind => i = j

IInv == TypeOK /\ Numbered /\ Results /\ Stale /\ Wire /\ RightAnswer

-----------------------------------------------------------------------------
(* The wires are sequences: what is taken off and what is put on.          *)
LEMMA TakeOff ==
    ASSUME NEW S, NEW s \in Seq(S), s # <<>>
    PROVE  /\ Head(s) = s[1]
           /\ Head(s) \in S
           /\ 1 \in DOMAIN s
           /\ Tail(s) \in Seq(S)
           /\ \A i \in DOMAIN Tail(s) :
                 i \in Nat \ {0} /\ i + 1 \in DOMAIN s /\ Tail(s)[i] = s[i + 1]
OBVIOUS

(* What is put on a wire comes last.                                       *)
LEMMA PutOn ==
    ASSUME NEW S, NEW s \in Seq(S), NEW e \in S
    PROVE  /\ Append(s, e) \in Seq(S)
           /\ \A i \in DOMAIN Append(s, e) :
                 \/ i \in DOMAIN s /\ Append(s, e)[i] = s[i]
                 \/ i = Len(s) + 1 /\ Append(s, e)[i] = e
OBVIOUS

(* The initial state.                                                      *)
LEMMA Initially == Init => IInv
<1> SUFFICES ASSUME Init PROVE IInv
  OBVIOUS
<1> USE ConnectionAssumption DEF Init, Reqs
<1>1. TypeOK
  <2>1. out \in Seq(Reqs) /\ in \in Seq(Reqs)
    OBVIOUS
  <2>2. got \in [Reqs -> 0..MaxReq]
    OBVIOUS
  <2>3. helper \in [Reqs -> {"none", "write", "read"}]
    OBVIOUS
  <2>4. readResp \in [Reqs -> {"none", "ok", "err"}]
    OBVIOUS
  <2>5. cur \in 0..MaxReq /\ blind \subseteq Reqs
    OBVIOUS
  <2> HIDE DEF Reqs
  <2> QED
    BY <2>1, <2>2, <2>3, <2>4, <2>5 DEF TypeOK
<1>2. Numbered /\ Results /\ Stale
  BY DEF Numbered, Results, Stale
<1>3. Wire
  BY DEF Wire
<1>4. RightAnswer
  BY DEF RightAnswer
<1> QED
  BY <1>1, <1>2, <1>3, <1>4 DEF IInv

(* Every step keeps the types.                                             *)
LEMMA TypeStep ==
    ASSUME TypeOK, Numbered, [Next]_vars
    PROVE  TypeOK'
<1> USE ConnectionAssumption DEF Reqs, wireVars, ownerVars, helperVars
<1>1. ASSUME Request PROVE TypeOK'
  BY <1>1 DEF Request, TypeOK, Numbered
<1>2. ASSUME ProduceNoAcks PROVE TypeOK'
  BY <1>2 DEF ProduceNoAcks, TypeOK, Numbered
<1>3. ASSUME Written PROVE TypeOK'
  <2>1. cur \in Reqs
    BY <1>3 DEF Written, TypeOK, Numbered
  <2>2. out' \in Seq(Reqs)
    BY <1>3, <2>1, PutOn DEF Written, TypeOK
  <2> QED
    BY <1>3, <2>2 DEF Written, TypeOK
<1>4. ASSUME WriteError PROVE TypeOK'
  BY <1>4 DEF WriteError, TypeOK, Numbered
<1>5. ASSUME NEW n \in Reqs, HelperWrite(n) PROVE TypeOK'
  <2>1. out' \in Seq(Reqs)
    BY <1>5, PutOn DEF HelperWrite, TypeOK
  <2>2. helper' \in [Reqs -> {"none", "write", "read"}]
    BY <1>5 DEF HelperWrite, TypeOK
  <2> QED
    BY <1>5, <2>1, <2>2 DEF HelperWrite, TypeOK
<1>6. ASSUME NEW n \in Reqs, HelperWriteError(n) PROVE TypeOK'
  BY <1>6 DEF HelperWriteError, Done, TypeOK, Numbered
<1>7. ASSUME NEW n \in Reqs, HelperRead(n) PROVE TypeOK'
  <2>1. in' \in Seq(Reqs) /\ Head(in) \in Reqs
    BY <1>7, TakeOff DEF HelperRead, TypeOK
  <2>2. Head(in) \in 0..MaxReq
    BY <2>1
  <2>3. got' \in [Reqs -> 0..MaxReq]
    BY <1>7, <2>2 DEF HelperRead, TypeOK
  <2> QED
    BY <1>7, <2>1, <2>3 DEF HelperRead, Done, TypeOK
<1>8. ASSUME NEW n \in Reqs, HelperReadUnexpected(n) PROVE TypeOK'
  <2>1. in' \in Seq(Reqs)
    BY <1>8, TakeOff DEF HelperReadUnexpected, TypeOK
  <2> QED
    BY <1>8, <2>1 DEF HelperReadUnexpected, Done, TypeOK
<1>9. ASSUME NEW n \in Reqs, HelperReadError(n) PROVE TypeOK'
  BY <1>9 DEF HelperReadError, Done, TypeOK, Numbered
<1>10. ASSUME Receive PROVE TypeOK'
  BY <1>10 DEF Receive, TypeOK, Numbered
<1>11. ASSUME ReceiveError PROVE TypeOK'
  BY <1>11 DEF ReceiveError, Close, TypeOK, Numbered
<1>12. ASSUME Timeout PROVE TypeOK'
  BY <1>12 DEF Timeout, Close, ErrRequestTimeout, TypeOK, Numbered
<1>13. ASSUME CloseConnection PROVE TypeOK'
  BY <1>13 DEF CloseConnection, TypeOK, Numbered
<1>14. ASSUME Answer PROVE TypeOK'
  <2>1. out' \in Seq(Reqs) /\ Head(out) \in Reqs
    BY <1>14, TakeOff DEF Answer, TypeOK
  <2>2. in' \in Seq(Reqs)
    BY <1>14, <2>1, PutOn DEF Answer, TypeOK
  <2> QED
    BY <1>14, <2>1, <2>2 DEF Answer, TypeOK
<1>15. ASSUME GoAway PROVE TypeOK'
  BY <1>15 DEF GoAway, TypeOK, Numbered
<1>16. ASSUME UNCHANGED vars PROVE TypeOK'
  BY <1>16 DEF vars, TypeOK, Numbered
<1> QED
  BY <1>1, <1>2, <1>3, <1>4, <1>5, <1>6, <1>7, <1>8, <1>9,
     <1>10, <1>11, <1>12, <1>13, <1>14, <1>15, <1>16
  DEF Next, HelperNext

(* A request is numbered by its owner, who makes one at a time.            *)
LEMMA NumberedStep ==
    ASSUME TypeOK, Numbered, [Next]_vars
    PROVE  Numbered'
<1> USE ConnectionAssumption DEF Reqs, wireVars, ownerVars, helperVars
<1>1. ASSUME Request PROVE Numbered'
  BY <1>1 DEF Request, TypeOK, Numbered
<1>2. ASSUME ProduceNoAcks PROVE Numbered'
  BY <1>2 DEF ProduceNoAcks, TypeOK, Numbered
<1>3. ASSUME Written PROVE Numbered'
  BY <1>3 DEF Written, TypeOK, Numbered
<1>4. ASSUME WriteError PROVE Numbered'
  BY <1>4 DEF WriteError, TypeOK, Numbered
<1>5. ASSUME NEW n \in Reqs, HelperWrite(n) PROVE Numbered'
  BY <1>5 DEF HelperWrite, TypeOK, Numbered
<1>6. ASSUME NEW n \in Reqs, HelperWriteError(n) PROVE Numbered'
  BY <1>6 DEF HelperWriteError, Done, TypeOK, Numbered
<1>7. ASSUME NEW n \in Reqs, HelperRead(n) PROVE Numbered'
  BY <1>7 DEF HelperRead, Done, TypeOK, Numbered
<1>8. ASSUME NEW n \in Reqs, HelperReadUnexpected(n) PROVE Numbered'
  BY <1>8 DEF HelperReadUnexpected, Done, TypeOK, Numbered
<1>9. ASSUME NEW n \in Reqs, HelperReadError(n) PROVE Numbered'
  BY <1>9 DEF HelperReadError, Done, TypeOK, Numbered
<1>10. ASSUME Receive PROVE Numbered'
  BY <1>10 DEF Receive, TypeOK, Numbered
<1>11. ASSUME ReceiveError PROVE Numbered'
  BY <1>11 DEF ReceiveError, Close, TypeOK, Numbered
<1>12. ASSUME Timeout PROVE Numbered'
  BY <1>12 DEF Timeout, Close, ErrRequestTimeout, TypeOK, Numbered
<1>13. ASSUME CloseConnection PROVE Numbered'
  BY <1>13 DEF CloseConnection, TypeOK, Numbered
<1>14. ASSUME Answer PROVE Numbered'
  BY <1>14 DEF Answer, TypeOK, Numbered
<1>15. ASSUME GoAway PROVE Numbered'
  BY <1>15 DEF GoAway, TypeOK, Numbered
<1>16. ASSUME UNCHANGED vars PROVE Numbered'
  BY <1>16 DEF vars, TypeOK, Numbered
<1> QED
  BY <1>1, <1>2, <1>3, <1>4, <1>5, <1>6, <1>7, <1>8, <1>9,
     <1>10, <1>11, <1>12, <1>13, <1>14, <1>15, <1>16
  DEF Next, HelperNext

(* A goroutine leaves a result as it ends, for a waiting owner alone.      *)
LEMMA ResultsStep ==
    ASSUME TypeOK, Numbered, Results, [Next]_vars
    PROVE  Results'
<1> USE ConnectionAssumption DEF Reqs, wireVars, ownerVars, helperVars
<1>1. ASSUME Request PROVE Results'
  BY <1>1 DEF Request, TypeOK, Numbered, Results
<1>2. ASSUME ProduceNoAcks PROVE Results'
  BY <1>2 DEF ProduceNoAcks, TypeOK, Numbered, Results
<1>3. ASSUME Written PROVE Results'
  BY <1>3 DEF Written, TypeOK, Numbered, Results
<1>4. ASSUME WriteError PROVE Results'
  BY <1>4 DEF WriteError, TypeOK, Numbered, Results
<1>5. ASSUME NEW n \in Reqs, HelperWrite(n) PROVE Results'
  BY <1>5 DEF HelperWrite, TypeOK, Numbered, Results
<1>6. ASSUME NEW n \in Reqs, HelperWriteError(n) PROVE Results'
  BY <1>6 DEF HelperWriteError, Done, TypeOK, Numbered, Results
<1>7. ASSUME NEW n \in Reqs, HelperRead(n) PROVE Results'
  BY <1>7 DEF HelperRead, Done, TypeOK, Numbered, Results
<1>8. ASSUME NEW n \in Reqs, HelperReadUnexpected(n) PROVE Results'
  BY <1>8 DEF HelperReadUnexpected, Done, TypeOK, Numbered, Results
<1>9. ASSUME NEW n \in Reqs, HelperReadError(n) PROVE Results'
  BY <1>9 DEF HelperReadError, Done, TypeOK, Numbered, Results
<1>10. ASSUME Receive PROVE Results'
  BY <1>10 DEF Receive, TypeOK, Numbered, Results
<1>11. ASSUME ReceiveError PROVE Results'
  BY <1>11 DEF ReceiveError, Close, TypeOK, Numbered, Results
<1>12. ASSUME Timeout PROVE Results'
  BY <1>12 DEF Timeout, Close, ErrRequestTimeout, TypeOK, Numbered, Results
<1>13. ASSUME CloseConnection PROVE Results'
  BY <1>13 DEF CloseConnection, TypeOK, Numbered, Results
<1>14. ASSUME Answer PROVE Results'
  BY <1>14 DEF Answer, TypeOK, Numbered, Results
<1>15. ASSUME GoAway PROVE Results'
  BY <1>15 DEF GoAway, TypeOK, Numbered, Results
<1>16. ASSUME UNCHANGED vars PROVE Results'
  BY <1>16 DEF vars, TypeOK, Numbered, Results
<1> QED
  BY <1>1, <1>2, <1>3, <1>4, <1>5, <1>6, <1>7, <1>8, <1>9,
     <1>10, <1>11, <1>12, <1>13, <1>14, <1>15, <1>16
  DEF Next, HelperNext

(* An owner that leaves a goroutine behind closes the transport.           *)
LEMMA StaleStep ==
    ASSUME TypeOK, Numbered, Results, Stale, [Next]_vars
    PROVE  Stale'
<1> USE ConnectionAssumption DEF Reqs, wireVars, ownerVars, helperVars
<1>1. ASSUME Request PROVE Stale'
  BY <1>1 DEF Request, TypeOK, Numbered, Results, Stale
<1>2. ASSUME ProduceNoAcks PROVE Stale'
  BY <1>2 DEF ProduceNoAcks, TypeOK, Numbered, Results, Stale
<1>3. ASSUME Written PROVE Stale'
  BY <1>3 DEF Written, TypeOK, Numbered, Results, Stale
<1>4. ASSUME WriteError PROVE Stale'
  BY <1>4 DEF WriteError, TypeOK, Numbered, Results, Stale
<1>5. ASSUME NEW n \in Reqs, HelperWrite(n) PROVE Stale'
  BY <1>5 DEF HelperWrite, TypeOK, Numbered, Results, Stale
<1>6. ASSUME NEW n \in Reqs, HelperWriteError(n) PROVE Stale'
  BY <1>6 DEF HelperWriteError, Done, TypeOK, Numbered, Results, Stale
<1>7. ASSUME NEW n \in Reqs, HelperRead(n) PROVE Stale'
  BY <1>7 DEF HelperRead, Done, TypeOK, Numbered, Results, Stale
<1>8. ASSUME NEW n \in Reqs, HelperReadUnexpected(n) PROVE Stale'
  BY <1>8 DEF HelperReadUnexpected, Done, TypeOK, Numbered, Results, Stale
<1>9. ASSUME NEW n \in Reqs, HelperReadError(n) PROVE Stale'
  BY <1>9 DEF HelperReadError, Done, TypeOK, Numbered, Results, Stale
<1>10. ASSUME Receive PROVE Stale'
  BY <1>10 DEF Receive, TypeOK, Numbered, Results, Stale
<1>11. ASSUME ReceiveError PROVE Stale'
  BY <1>11 DEF ReceiveError, Close, TypeOK, Numbered, Results, Stale
<1>12. ASSUME Timeout PROVE Stale'
  BY <1>12 DEF Timeout, Close, ErrRequestTimeout, TypeOK, Numbered, Results, Stale
<1>13. ASSUME CloseConnection PROVE Stale'
  BY <1>13 DEF CloseConnection, TypeOK, Numbered, Results, Stale
<1>14. ASSUME Answer PROVE Stale'
  BY <1>14 DEF Answer, TypeOK, Numbered, Results, Stale
<1>15. ASSUME GoAway PROVE Stale'
  BY <1>15 DEF GoAway, TypeOK, Numbered, Results, Stale
<1>16. ASSUME UNCHANGED vars PROVE Stale'
  BY <1>16 DEF vars, TypeOK, Numbered, Results, Stale
<1> QED
  BY <1>1, <1>2, <1>3, <1>4, <1>5, <1>6, <1>7, <1>8, <1>9,
     <1>10, <1>11, <1>12, <1>13, <1>14, <1>15, <1>16
  DEF Next, HelperNext

(* Written by its goroutine, answered and read: one after the other.       *)
LEMMA WireStep ==
    ASSUME TypeOK, Numbered, Results, Stale, Wire, [Next]_vars
    PROVE  Wire'
<1> USE ConnectionAssumption DEF Reqs, wireVars, ownerVars, helperVars
<1>1. ASSUME Request PROVE Wire'
  BY <1>1 DEF Request, TypeOK, Numbered, Results, Stale, Wire, Reading, Failing
<1>2. ASSUME ProduceNoAcks PROVE Wire'
  BY <1>2 DEF ProduceNoAcks, TypeOK, Numbered, Results, Stale, Wire, Reading, Failing
<1>3. ASSUME Written PROVE Wire'
  <2>1. in' = in /\ (\A i \in DOMAIN out : ~closed /\ ~answersAll => out[i] \in blind)
    BY <1>3 DEF Written, Wire, Reading, Failing
  <2>2. out \in Seq(Reqs) /\ cur \in Reqs /\ cur \in blind
    BY <1>3 DEF Written, TypeOK, Numbered
  <2>3. \A i \in DOMAIN out' : ~closed /\ ~answersAll => out'[i] \in blind
    BY <1>3, <2>1, <2>2, PutOn DEF Written
  <2> QED
    BY <1>3, <2>1, <2>3 DEF Written, Wire, Reading, Failing
<1>4. ASSUME WriteError PROVE Wire'
  BY <1>4 DEF WriteError, TypeOK, Numbered, Results, Stale, Wire, Reading, Failing
<1>5. ASSUME NEW n \in Reqs, HelperWrite(n) PROVE Wire'
  <2> SUFFICES ASSUME ~answersAll PROVE Wire'
    BY <1>5 DEF HelperWrite, Wire
  <2>1. owner = "wait" /\ n = cur /\ readResp[n] = "none"
    BY <1>5 DEF HelperWrite, TypeOK, Stale, Results
  <2>2. in = <<>> /\ \A i \in DOMAIN out : out[i] \in blind
    BY <1>5, <2>1 DEF HelperWrite, Wire, Reading, Failing
  <2>3. out \in Seq(Reqs) /\ Reading'
    BY <1>5, <2>1 DEF HelperWrite, TypeOK, Reading
  <2>4. \A i \in DOMAIN out' : out'[i] \in blind \/ (i = Len(out) + 1 /\ out'[i] = cur)
    BY <1>5, <2>1, <2>2, <2>3, PutOn DEF HelperWrite
  <2> QED
    BY <1>5, <2>2, <2>3, <2>4 DEF HelperWrite, Wire
<1>6. ASSUME NEW n \in Reqs, HelperWriteError(n) PROVE Wire'
  BY <1>6 DEF HelperWriteError, Done, TypeOK, Numbered, Results, Stale, Wire, Reading, Failing
<1>7. ASSUME NEW n \in Reqs, HelperRead(n) PROVE Wire'
  <2> SUFFICES ASSUME ~answersAll PROVE Wire'
    BY <1>7 DEF HelperRead, Wire
  <2>1. owner = "wait" /\ n = cur /\ readResp[n] = "none"
    BY <1>7 DEF HelperRead, TypeOK, Stale, Results
  <2>2. in = <<cur>> /\ \A i \in DOMAIN out : out[i] \in blind
    BY <1>7, <2>1 DEF HelperRead, Wire, Reading, Failing
  <2>3. in' = <<>>
    BY <1>7, <2>2 DEF HelperRead
  <2> QED
    BY <1>7, <2>2, <2>3 DEF HelperRead, Wire
<1>8. ASSUME NEW n \in Reqs, HelperReadUnexpected(n) PROVE Wire'
  BY <1>8 DEF HelperReadUnexpected, Wire
<1>9. ASSUME NEW n \in Reqs, HelperReadError(n) PROVE Wire'
  <2> SUFFICES ASSUME ~closed PROVE Wire'
    BY <1>9 DEF HelperReadError, Wire
  <2>1. owner = "wait" /\ n = cur
    BY <1>9 DEF HelperReadError, TypeOK, Stale
  <2>2. Failing'
    BY <1>9, <2>1 DEF HelperReadError, Done, TypeOK, Failing
  <2> QED
    BY <2>2 DEF Wire
<1>10. ASSUME Receive PROVE Wire'
  BY <1>10 DEF Receive, TypeOK, Numbered, Results, Stale, Wire, Reading, Failing
<1>11. ASSUME ReceiveError PROVE Wire'
  BY <1>11 DEF ReceiveError, Close, Wire
<1>12. ASSUME Timeout PROVE Wire'
  BY <1>12 DEF Timeout, Close, Wire
<1>13. ASSUME CloseConnection PROVE Wire'
  BY <1>13 DEF CloseConnection, Wire
<1>14. ASSUME Answer PROVE Wire'
  <2> SUFFICES ASSUME ~closed, ~answersAll, ~Failing PROVE Wire'
    BY <1>14 DEF Answer, Wire, Failing
  <2> DEFINE n == Head(out)
  <2>1. /\ n = out[1] /\ 1 \in DOMAIN out
        /\ \A i \in DOMAIN out' : /\ i + 1 \in DOMAIN out
                                 /\ out'[i] = out[i + 1]
                                 /\ i \in Nat \ {0}
    BY <1>14, TakeOff DEF Answer, TypeOK
  <2>2. \A i, j \in DOMAIN out' : out'[i] \notin blind /\ out'[j] \notin blind => i = j
    <3> SUFFICES ASSUME NEW i \in DOMAIN out', NEW j \in DOMAIN out',
                        out'[i] \notin blind, out'[j] \notin blind
                 PROVE  i = j
      OBVIOUS
    <3>1. i + 1 = j + 1
      BY <2>1 DEF Wire
    <3> QED
      BY <2>1, <3>1
  <2>3. Reading' = Reading /\ blind' = blind /\ cur' = cur
    BY <1>14 DEF Answer, Reading
  <2>4. CASE n \in blind
    BY <1>14, <2>1, <2>2, <2>3, <2>4 DEF Answer, Wire
  <2>5. CASE n \notin blind
    <3>1. n = cur /\ Reading /\ in = <<>>
      BY <2>1, <2>5 DEF Wire
    <3>2. in' = <<cur>>
      BY <1>14, <2>5, <3>1 DEF Answer
    <3>3. \A i \in DOMAIN out' : out'[i] \in blind
      <4> SUFFICES ASSUME NEW i \in DOMAIN out', out'[i] \notin blind PROVE FALSE
        OBVIOUS
      <4>1. i + 1 = 1
        BY <2>1, <2>5 DEF Wire
      <4> QED
        BY <4>1, <2>1
    <3> QED
      BY <2>3, <3>1, <3>2, <3>3 DEF Wire
  <2> QED
    BY <2>4, <2>5
<1>15. ASSUME GoAway PROVE Wire'
  BY <1>15 DEF GoAway, TypeOK, Numbered, Results, Stale, Wire, Reading, Failing
<1>16. ASSUME UNCHANGED vars PROVE Wire'
  BY <1>16 DEF vars, TypeOK, Numbered, Results, Stale, Wire, Reading, Failing
<1> QED
  BY <1>1, <1>2, <1>3, <1>4, <1>5, <1>6, <1>7, <1>8, <1>9,
     <1>10, <1>11, <1>12, <1>13, <1>14, <1>15, <1>16
  DEF Next, HelperNext

(* An open connection has one reader, and that one has the answer due.     *)
LEMMA AnswerStep ==
    ASSUME TypeOK, Numbered, Results, Stale, Wire, RightAnswer, [Next]_vars
    PROVE  RightAnswer'
<1> USE ConnectionAssumption DEF Reqs, wireVars, ownerVars, helperVars
<1>1. ASSUME Request PROVE RightAnswer'
  BY <1>1 DEF Request, TypeOK, RightAnswer, DistinctIDs
<1>2. ASSUME ProduceNoAcks PROVE RightAnswer'
  BY <1>2 DEF ProduceNoAcks, TypeOK, RightAnswer, DistinctIDs
<1>3. ASSUME Written PROVE RightAnswer'
  BY <1>3 DEF Written, TypeOK, RightAnswer, DistinctIDs
<1>4. ASSUME WriteError PROVE RightAnswer'
  BY <1>4 DEF WriteError, TypeOK, RightAnswer, DistinctIDs
<1>5. ASSUME NEW n \in Reqs, HelperWrite(n) PROVE RightAnswer'
  BY <1>5 DEF HelperWrite, TypeOK, RightAnswer, DistinctIDs
<1>6. ASSUME NEW n \in Reqs, HelperWriteError(n) PROVE RightAnswer'
  BY <1>6 DEF HelperWriteError, Done, TypeOK, RightAnswer, DistinctIDs
<1>7. ASSUME NEW n \in Reqs, HelperRead(n) PROVE RightAnswer'
  <2>1. PICK r \in Reqs : r = Head(in) /\ r = in[1]
    BY <1>7, TakeOff DEF HelperRead, TypeOK
  <2>2. /\ helper[n] = "read" /\ ~closed /\ in # <<>> /\ id[r] = id[n]
        /\ got' = [got EXCEPT ![n] = r]
        /\ UNCHANGED <<answersAll, id>>
    BY <1>7, <2>1 DEF HelperRead, Expected
  <2>3. ~answersAll => r = n
    <3> SUFFICES ASSUME ~answersAll PROVE r = n
      OBVIOUS
    <3>1. owner = "wait" /\ n = cur
      BY <2>2 DEF Stale
    <3>2. ~Failing
      BY <2>2, <3>1 DEF Failing, Results
    <3>3. in = <<cur>>
      BY <2>2, <3>2 DEF Wire
    <3> QED
      BY <2>1, <3>1, <3>3
  <2>4. DistinctIDs => r = n
    BY <2>2 DEF DistinctIDs
  <2>5. \A m \in Reqs : got'[m] = got[m] \/ (m = n /\ got'[m] = r)
    BY <2>2 DEF TypeOK
  <2>6. DistinctIDs' <=> DistinctIDs
    BY <2>2 DEF DistinctIDs
  <2> QED
    BY <2>2, <2>3, <2>4, <2>5, <2>6 DEF RightAnswer
<1>8. ASSUME NEW n \in Reqs, HelperReadUnexpected(n) PROVE RightAnswer'
  BY <1>8 DEF HelperReadUnexpected, Done, TypeOK, RightAnswer, DistinctIDs
<1>9. ASSUME NEW n \in Reqs, HelperReadError(n) PROVE RightAnswer'
  BY <1>9 DEF HelperReadError, Done, TypeOK, RightAnswer, DistinctIDs
<1>10. ASSUME Receive PROVE RightAnswer'
  BY <1>10 DEF Receive, TypeOK, RightAnswer, DistinctIDs
<1>11. ASSUME ReceiveError PROVE RightAnswer'
  BY <1>11 DEF ReceiveError, Close, TypeOK, RightAnswer, DistinctIDs
<1>12. ASSUME Timeout PROVE RightAnswer'
  BY <1>12 DEF Timeout, Close, ErrRequestTimeout, TypeOK, RightAnswer, DistinctIDs
<1>13. ASSUME CloseConnection PROVE RightAnswer'
  BY <1>13 DEF CloseConnection, TypeOK, RightAnswer, DistinctIDs
<1>14. ASSUME Answer PROVE RightAnswer'
  BY <1>14 DEF Answer, TypeOK, RightAnswer, DistinctIDs
<1>15. ASSUME GoAway PROVE RightAnswer'
  BY <1>15 DEF GoAway, TypeOK, RightAnswer, DistinctIDs
<1>16. ASSUME UNCHANGED vars PROVE RightAnswer'
  BY <1>16 DEF vars, TypeOK, RightAnswer, DistinctIDs
<1> QED
  BY <1>1, <1>2, <1>3, <1>4, <1>5, <1>6, <1>7, <1>8, <1>9,
     <1>10, <1>11, <1>12, <1>13, <1>14, <1>15, <1>16
  DEF Next, HelperNext

(* The invariant is inductive.                                             *)
LEMMA Invariance == Spec => []IInv
<1>1. IInv /\ [Next]_vars => IInv'
  BY TypeStep, NumberedStep, ResultsStep, StaleStep, WireStep, AnswerStep DEF IInv
<1> QED
  BY <1>1, Initially, PTL DEF Spec

-----------------------------------------------------------------------------
(* Type correctness.                                                       *)
THEOREM ConnectionTypeOK == Spec => []TypeOK
BY Invariance, PTL DEF IInv

(* What a goroutine of sendRequest reads as the answer to a request is the *)
(* answer to that request.                                                 *)
THEOREM ConnectionRightAnswer == Spec => []RightAnswer
BY Invariance, PTL DEF IInv

(* A connection that is open and between requests, as one in the pool is,  *)
(* carries nothing of the requests before.                                 *)
THEOREM ConnectionInSync == Spec => []InSync
<1>1. IInv => InSync
  BY DEF IInv, TypeOK, Stale, Wire, Reading, Failing, InSync
<1> QED
  BY <1>1, Invariance, PTL
=============================================================================
