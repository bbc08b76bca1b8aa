------------------------ MODULE UploadStream_proofs ------------------------
(***************************************************************************)
(* Proofs about module UploadStream, for files and retry policies of any   *)
(* size and any Retry-After: an accepted upload is whole, the file is open *)
(* as long as it is read, and each wait honours its own attempt.           *)
(***************************************************************************)
EXTENDS UploadStream, TLAPS

\* A wait is entered only while an attempt is left, with the delay that the
\* recorder and the backoff give; the recorder holds what was advertised.
WaitInv ==
  /\ recorder = advertised
  /\ publisher.pc = "wait" =>
       /\ publisher.attempt < MaxAttempts
       /\ publisher.delay = Capped(Larger(drawn, recorder))

\* The transport got what the feeder wrote; the feeder writes items of the body
\* only, and finishes without an error only after the last one.
FeederInv ==
  /\ transport.got = feeder.item
  /\ feeder.pc \in {"read", "write"} => feeder.item <= LastItem
  /\ feeder.pc = "closeWriter" => feeder.item = LastItem + 1
  /\ feeder.pc = "finished" /\ ~feeder.failed =>
       feeder.item = LastItem + 1 /\ pipe.writer = "eof"

IInv ==
  /\ TypeOK /\ WaitInv /\ FeederInv /\ FileOpenWhileFed /\ WholeFileUploaded

\* While uploadLPK waits for the feeder, the feeder can go on, or will once the
\* transport has closed the body that it does not read.
FeederCanGoOn ==
  \/ feeder.pc \in {"read", "closeWriter", "closeError", "finished"}
  \/ feeder.pc = "write" /\ (pipe.reader = "closed" \/ transport.pc = "answered")
JoinIsServed == publisher.pc = "join" => FeederCanGoOn

ServedInv ==
  /\ publisher.pc \in {"request", "do", "close", "join"} => feeder.pc # "idle"
  /\ publisher.pc = "join" => pipe.reader = "closed" \/ transport.pc = "answered"

\* How many more steps all of them can take.  The feeder reads and writes each
\* item; an attempt that has not opened the file has the whole of it before it.
FeederLeft ==
  IF feeder.pc \in {"idle", "finished"} THEN 0
  ELSE IF feeder.pc \in {"closeWriter", "closeError"} THEN 1
  ELSE 2 * (LastItem - feeder.item) + (IF feeder.pc = "write" THEN 2 ELSE 3)
StreamSteps == 2 * LastItem + 2
StepsOfAttempt ==
  [calls |-> 9 + StreamSteps, open |-> 8 + StreamSteps, request |-> 7, do |-> 6,
   close |-> 4, join |-> 3, decide |-> 2, wait |-> 1]
AttemptsLeft == (MaxAttempts - publisher.attempt) * (10 + StreamSteps)
PublisherLeft ==
  IF publisher.pc = "returned" THEN 0
  ELSE AttemptsLeft + StepsOfAttempt[publisher.pc]
AnswerLeft == IF transport.pc = "answered" THEN 1 ELSE 0
ContextLeft == IF ctxDone THEN 0 ELSE 1
StepsLeft == PublisherLeft + FeederLeft + AnswerLeft + ContextLeft

\* Every step, of whomever, uses one up.
StepsAreBounded ==
  [](StepsLeft \in Nat) /\ [][StepsLeft' < StepsLeft]_vars

-----------------------------------------------------------------------------
\* Delays of the backoff, the recorder and the ceiling are natural numbers.
LEMMA DelaysAreNatural ==
  ASSUME NEW a \in Nat, NEW b \in Nat
  PROVE  /\ Larger(a, b) \in Nat /\ Smaller(a, b) \in Nat
         /\ Capped(a) \in Nat
  BY UploadAssumption DEF Larger, Smaller, Capped

\* parseRetryAfter: a delay is recorded only if a Duration holds it.
LEMMA HeadersAreNatural ==
  ASSUME NEW header \in Header \cup {HugeHeader}
  PROVE  ParseRetryAfter(header) \in Nat
  BY UploadAssumption DEF ParseRetryAfter

\* An answer leaves the recorder and its history equal.
LEMMA RoundTripRecords ==
  ASSUME IInv, NEW status \in Status, NEW header \in Header \cup {HugeHeader},
         RoundTrip(status, header)
  PROVE  recorder' \in Nat /\ advertised' \in Nat /\ recorder' = advertised'
<1>1. recorder \in Nat /\ advertised = recorder
  BY DEF IInv, TypeOK, WaitInv
<1>2. ParseRetryAfter(header) \in Nat
  BY HeadersAreNatural
<1>3. Larger(recorder, ParseRetryAfter(header)) \in Nat
  BY <1>1, <1>2, DelaysAreNatural
<1> QED BY <1>1, <1>3 DEF RoundTrip, IsRetryableHTTPStatus

\* doRequest: every answer makes one of the results of a call.
LEMMA ResultsAreTyped ==
  ASSUME NEW status \in Status, NEW readable \in BOOLEAN, ctxDone \in BOOLEAN
  PROVE  RequestResult(status, readable) \in AttemptResult
  BY DEF RequestResult, AttemptResult, IsRetryableHTTPStatus

-----------------------------------------------------------------------------
\* The variables of the first attempt have their types, and nothing runs yet.
THEOREM InitInvariant == Init => IInv
<1> SUFFICES ASSUME Init PROVE IInv
  OBVIOUS
<1>1. TypeOK
  <2>1. 0 \in 0..(LastItem + 1) /\ 1 \in 1..MaxAttempts
    BY UploadAssumption DEF LastItem
  <2> QED
    BY <2>1 DEF Init, NewStream, TypeOK, PublisherPC, AttemptResult
<1>2. WaitInv /\ FeederInv /\ FileOpenWhileFed /\ WholeFileUploaded
  BY DEF Init, NewStream, WaitInv, FeederInv, FileOpenWhileFed, WholeFileUploaded
<1> QED BY <1>1, <1>2 DEF IInv

\* Of the calls before the upload only a failed one ends the attempt.
LEMMA CallPreserves == IInv /\ Call => IInv'
<1> SUFFICES ASSUME IInv, Call PROVE IInv'
  OBVIOUS
<1>1. PICK status \in Status, header \in Header \cup {HugeHeader}, readable \in BOOLEAN :
        /\ publisher.pc = "calls"
        /\ RoundTrip(status, header)
        /\ publisher' = IF RequestResult(status, readable) = "ok"
                        THEN [publisher EXCEPT !.pc = "open"]
                        ELSE [publisher EXCEPT !.pc = "decide",
                                !.result = RequestResult(status, readable)]
        /\ UNCHANGED <<streamVars, ctxDone, drawn>>
  BY Zenon DEF Call
<1>2. recorder' \in Nat /\ advertised' \in Nat /\ recorder' = advertised'
  BY <1>1, RoundTripRecords
<1>3. RequestResult(status, readable) \in AttemptResult
  BY ResultsAreTyped DEF IInv, TypeOK
<1>4. TypeOK'
  BY <1>1, <1>2, <1>3 DEF IInv, TypeOK, streamVars, PublisherPC
<1>5. WaitInv' /\ FeederInv' /\ FileOpenWhileFed' /\ WholeFileUploaded'
  BY <1>1, <1>2, <1>3
  DEF IInv, TypeOK, streamVars, WaitInv, FeederInv, FileOpenWhileFed,
      WholeFileUploaded, PublisherPC
<1> QED BY <1>4, <1>5 DEF IInv

\* A stream begins with both ends of its pipe open and nothing written.
LEMMA OpenFilePreserves == IInv /\ OpenFile => IInv'
<1> SUFFICES ASSUME IInv, OpenFile PROVE IInv'
  OBVIOUS
<1>1. CASE UNCHANGED streamVars
  <2>1. publisher' \in [pc : PublisherPC, attempt : 1..MaxAttempts,
                        result : AttemptResult, delay : Nat]
    BY DEF OpenFile, IInv, TypeOK, PublisherPC, AttemptResult
  <2>2. publisher'.pc # "wait" /\ (publisher'.result = "ok" => publisher'.pc = "request")
        /\ feeder.pc \in {"idle", "finished"}
    BY DEF OpenFile, IInv, TypeOK, FileOpenWhileFed
  <2> QED
    BY <1>1, <2>1, <2>2
    DEF OpenFile, streamVars, IInv, TypeOK, WaitInv, FeederInv, FileOpenWhileFed,
        WholeFileUploaded
<1>2. CASE /\ publisher' = [publisher EXCEPT !.pc = "request"]
           /\ feeder' = [pc |-> "write", item |-> 0, failed |-> FALSE]
           /\ pipe' = [reader |-> "open", writer |-> "open"]
           /\ transport' = [pc |-> "idle", got |-> 0]
  <2>1. TypeOK'
    <3>1. 0 \in 0..(LastItem + 1)
      BY UploadAssumption DEF LastItem
    <3>2. publisher' \in [pc : PublisherPC, attempt : 1..MaxAttempts,
                          result : AttemptResult, delay : Nat]
      BY <1>2 DEF IInv, TypeOK, PublisherPC
    <3>3. /\ feeder' \in [pc : {"idle", "read", "write", "closeWriter",
                               "closeError", "finished"},
                         item : 0..(LastItem + 1), failed : BOOLEAN]
          /\ pipe' \in [reader : {"open", "closed"},
                        writer : {"open", "eof", "error"}]
          /\ transport' \in [pc : {"idle", "reading", "answered", "stopped"},
                             got : 0..(LastItem + 1)]
      BY <1>2, <3>1
    <3> QED BY <3>2, <3>3 DEF OpenFile, IInv, TypeOK
  <2>2. WaitInv' /\ FileOpenWhileFed' /\ WholeFileUploaded'
    BY <1>2 DEF OpenFile, IInv, TypeOK, WaitInv, FileOpenWhileFed, WholeFileUploaded
  <2>3. FeederInv'
    BY <1>2, UploadAssumption DEF FeederInv, LastItem
  <2> QED BY <2>1, <2>2, <2>3 DEF IInv
<1> QED BY <1>1, <1>2 DEF OpenFile

\* The request is made and client.Do returns: a failure closes the reader before
\* anybody waits for the feeder.
LEMMA RequestPreserves ==
  IInv /\ (CreateRequest \/ Answer \/ DoFails \/ CloseReader) => IInv'
<1>1. ASSUME IInv, CreateRequest PROVE IInv'
  <2>1. publisher' \in [pc : {"close", "do"}, attempt : 1..MaxAttempts,
                        result : AttemptResult, delay : Nat]
    BY <1>1 DEF CreateRequest, AfterFailedRequest, IInv, TypeOK, AttemptResult
  <2>2. /\ transport' \in [pc : {"idle", "reading", "answered", "stopped"},
                           got : 0..(LastItem + 1)]
        /\ transport'.got = transport.got
        /\ UNCHANGED <<feeder, pipe, recorder, ctxDone, advertised, drawn>>
    BY <1>1 DEF CreateRequest, IInv, TypeOK
  <2> QED
    BY <1>1, <2>1, <2>2
    DEF IInv, TypeOK, WaitInv, FeederInv, FileOpenWhileFed, WholeFileUploaded,
        PublisherPC
<1>2. ASSUME IInv, Answer PROVE IInv'
  <2>1. PICK status \in Status, header \in Header \cup {HugeHeader}, readable \in BOOLEAN :
          /\ publisher.pc = "do"
          /\ RoundTrip(status, header)
          /\ transport' = [transport EXCEPT !.pc = "answered"]
          /\ publisher' = [publisher EXCEPT
               !.pc = AfterDo(RequestResult(status, readable)),
               !.result = RequestResult(status, readable)]
          /\ UNCHANGED <<feeder, pipe, ctxDone, drawn>>
    BY <1>2, Zenon DEF Answer
  <2>2. recorder' \in Nat /\ advertised' \in Nat /\ recorder' = advertised'
    BY <1>2, <2>1, RoundTripRecords
  <2>3. RequestResult(status, readable) \in AttemptResult
    BY <1>2, ResultsAreTyped DEF IInv, TypeOK
  <2>4. AfterDo(RequestResult(status, readable)) \in {"join", "close"}
    BY DEF AfterDo
  <2> QED
    BY <1>2, <2>1, <2>2, <2>3, <2>4
    DEF IInv, TypeOK, WaitInv, FeederInv, FileOpenWhileFed,
        WholeFileUploaded, PublisherPC
<1>3. ASSUME IInv, DoFails PROVE IInv'
  <2>1. PICK result \in {"final", "retryable"} :
          publisher' = [publisher EXCEPT !.pc = "close", !.result = result]
    BY <1>3 DEF DoFails, AfterDo
  <2>2. publisher' \in [pc : {"close"}, attempt : 1..MaxAttempts,
                        result : AttemptResult, delay : Nat]
    BY <1>3, <2>1 DEF IInv, TypeOK, AttemptResult
  <2>3. /\ transport' = [transport EXCEPT !.pc = "stopped"]
        /\ pipe' = [pipe EXCEPT !.reader = "closed"]
        /\ UNCHANGED <<feeder, recorder, ctxDone, advertised, drawn>>
    BY <1>3 DEF DoFails
  <2> QED
    BY <1>3, <2>2, <2>3
    DEF IInv, TypeOK, WaitInv, FeederInv, FileOpenWhileFed, WholeFileUploaded,
        PublisherPC
<1>4. ASSUME IInv, CloseReader PROVE IInv'
  BY <1>4
  DEF CloseReader, IInv, TypeOK, WaitInv, FeederInv, FileOpenWhileFed,
      WholeFileUploaded, PublisherPC
<1> QED BY <1>1, <1>2, <1>3, <1>4

\* The attempt goes on only if the feeder finished without an error, so with the
\* last item.
LEMMA JoinPreserves == IInv /\ Join => IInv'
<1> SUFFICES ASSUME IInv, Join PROVE IInv'
  OBVIOUS
<1>1. PICK result \in {publisher.result, "final"} :
        /\ publisher' = [publisher EXCEPT !.pc = "decide", !.result = result]
        /\ result = "ok" => ~feeder.failed
  BY DEF Join, FeederFailed
<1>2. publisher.result \in AttemptResult /\ result \in AttemptResult
  BY DEF IInv, TypeOK, AttemptResult
<1>3. feeder.pc = "finished"
      /\ UNCHANGED <<streamVars, recorder, ctxDone, advertised, drawn>>
  BY DEF Join
<1>4. TypeOK'
  BY <1>1, <1>2, <1>3 DEF IInv, TypeOK, streamVars, PublisherPC
<1>5. publisher'.pc = "decide" /\ publisher'.result = result
  BY <1>1 DEF IInv, TypeOK
<1>6. WaitInv' /\ FeederInv' /\ FileOpenWhileFed'
  BY <1>3, <1>5 DEF IInv, WaitInv, FeederInv, FileOpenWhileFed, streamVars
<1>7. WholeFileUploaded'
  BY <1>1, <1>3, <1>5 DEF IInv, FeederInv, WholeFileUploaded, streamVars
<1> QED BY <1>4, <1>6, <1>7 DEF IInv

\* A retry is decided only while an attempt is left, with a delay no longer than
\* the ceiling.
LEMMA DecidePreserves == IInv /\ Decide => IInv'
<1> SUFFICES ASSUME IInv, Decide PROVE IInv'
  OBVIOUS
<1>1. CASE publisher.result # "retryable" \/ LastAttempt
  <2>1. /\ publisher.pc = "decide"
        /\ publisher' = [publisher EXCEPT !.pc = "returned"]
        /\ UNCHANGED <<drawn, streamVars, recorder, ctxDone, advertised>>
    BY <1>1 DEF Decide
  <2>2. TypeOK'
    BY <2>1 DEF IInv, TypeOK, streamVars, PublisherPC
  <2>3. publisher'.pc = "returned" /\ publisher'.result = publisher.result
    BY <2>1 DEF IInv, TypeOK
  <2>4. WaitInv' /\ FeederInv' /\ FileOpenWhileFed' /\ WholeFileUploaded'
    BY <2>1, <2>3
    DEF IInv, streamVars, WaitInv, FeederInv, FileOpenWhileFed, WholeFileUploaded
  <2> QED BY <2>2, <2>4 DEF IInv
<1>2. CASE publisher.result = "retryable" /\ ~LastAttempt
  <2>1. PICK nextDelay \in Backoff :
          /\ drawn' = nextDelay
          /\ publisher' = [publisher EXCEPT !.pc = "wait",
                             !.delay = Capped(Larger(nextDelay, recorder))]
    BY <1>2 DEF Decide
  <2>2. nextDelay \in Nat /\ Capped(Larger(nextDelay, recorder)) \in Nat
    BY UploadAssumption, DelaysAreNatural DEF IInv, TypeOK
  <2>3. UNCHANGED <<streamVars, recorder, ctxDone, advertised>>
    BY DEF Decide
  <2>4. TypeOK'
    BY <2>1, <2>2, <2>3 DEF IInv, TypeOK, streamVars, PublisherPC
  <2>5. WaitInv'
    <3>1. publisher.attempt < MaxAttempts
      BY <1>2, UploadAssumption DEF IInv, TypeOK, LastAttempt
    <3> QED
      BY <2>1, <2>3, <3>1 DEF IInv, TypeOK, WaitInv, Capped, Larger, Smaller
  <2>6. FeederInv' /\ FileOpenWhileFed' /\ WholeFileUploaded'
    BY <1>2, <2>1, <2>3
    DEF IInv, TypeOK, streamVars, FeederInv, FileOpenWhileFed, WholeFileUploaded,
        Decide
  <2> QED BY <2>4, <2>5, <2>6 DEF IInv
<1> QED BY <1>1, <1>2

\* The next attempt begins with an empty recorder.
LEMMA WaitPreserves == IInv /\ Wait => IInv'
<1> SUFFICES ASSUME IInv, Wait PROVE IInv'
  OBVIOUS
<1>1. publisher.attempt + 1 \in 1..MaxAttempts
  BY UploadAssumption DEF IInv, TypeOK, WaitInv, Wait
<1>2. CASE /\ publisher' = [pc |-> "calls", attempt |-> publisher.attempt + 1,
                           result |-> "none", delay |-> 0]
           /\ recorder' = RecorderAtAttempt
           /\ advertised' = 0
  <2>1. TypeOK'
    BY <1>1, <1>2
    DEF Wait, RecorderAtAttempt, streamVars, IInv, TypeOK, PublisherPC, AttemptResult
  <2>2. feeder.pc \in {"idle", "finished"}
    BY DEF Wait, IInv, FileOpenWhileFed
  <2>3. WaitInv' /\ FeederInv' /\ FileOpenWhileFed' /\ WholeFileUploaded'
    BY <1>2, <2>2
    DEF Wait, RecorderAtAttempt, streamVars, IInv, WaitInv, FeederInv,
        FileOpenWhileFed, WholeFileUploaded
  <2> QED BY <2>1, <2>3 DEF IInv
<1>3. CASE /\ publisher' = [publisher EXCEPT !.pc = "returned", !.result = "final"]
           /\ UNCHANGED <<recorder, advertised>>
  <2>1. TypeOK'
    <3>1. publisher' \in [pc : PublisherPC, attempt : 1..MaxAttempts,
                          result : AttemptResult, delay : Nat]
      BY <1>3 DEF IInv, TypeOK, PublisherPC, AttemptResult
    <3> QED BY <1>3, <3>1 DEF Wait, streamVars, IInv, TypeOK
  <2>2. feeder.pc \in {"idle", "finished"}
    BY DEF Wait, IInv, FileOpenWhileFed
  <2>3. WaitInv' /\ FeederInv' /\ FileOpenWhileFed' /\ WholeFileUploaded'
    BY <1>3, <2>2
    DEF Wait, streamVars, IInv, TypeOK, WaitInv, FeederInv, FileOpenWhileFed,
        WholeFileUploaded
  <2> QED BY <2>1, <2>3 DEF IInv
<1> QED BY <1>2, <1>3 DEF Wait

-----------------------------------------------------------------------------
\* The feeder and the transport: they move together, one item of the body at a
\* time.
LEMMA TransferPreserves == IInv /\ Transfer => IInv'
<1> SUFFICES ASSUME IInv, Transfer PROVE IInv'
  OBVIOUS
<1>1. feeder.item \in 0..LastItem /\ transport.got = feeder.item
  BY UploadAssumption DEF IInv, TypeOK, FeederInv, Transfer, LastItem
<1>2. TypeOK'
  <2>1. feeder.item + 1 \in 0..(LastItem + 1)
    BY <1>1, UploadAssumption DEF LastItem
  <2>2. transport' \in [pc : {"idle", "reading", "answered", "stopped"},
                        got : 0..(LastItem + 1)]
    BY <1>1, <2>1 DEF IInv, TypeOK, Transfer
  <2>3. PICK pc \in {"read", "write", "closeWriter"} :
          feeder' = [feeder EXCEPT !.item = feeder.item + 1, !.pc = pc]
    BY DEF Transfer, IsChunk
  <2>4. feeder' \in [pc : {"idle", "read", "write", "closeWriter", "closeError",
                          "finished"},
                    item : 0..(LastItem + 1), failed : BOOLEAN]
    BY <2>1, <2>3 DEF IInv, TypeOK
  <2> QED
    BY <2>2, <2>4 DEF IInv, TypeOK, Transfer, OnlyStream
<1>3. FeederInv'
  BY <1>1, UploadAssumption
  DEF IInv, TypeOK, Transfer, OnlyStream, FeederInv, LastItem, IsChunk
<1>4. WaitInv' /\ FileOpenWhileFed' /\ WholeFileUploaded'
  BY DEF IInv, TypeOK, Transfer, OnlyStream, WaitInv, FileOpenWhileFed,
         WholeFileUploaded, PublisherPC
<1> QED BY <1>2, <1>3, <1>4 DEF IInv

LEMMA StreamPreserves ==
  IInv /\ (ReadChunk \/ WriteFails \/ FeederFinishes \/ TransportStops) => IInv'
<1>1. ASSUME IInv, ReadChunk PROVE IInv'
  BY <1>1
  DEF ReadChunk, FeederTo, OnlyStream, IInv, TypeOK, WaitInv, FeederInv,
      FileOpenWhileFed, WholeFileUploaded
<1>2. ASSUME IInv, WriteFails PROVE IInv'
  BY <1>2
  DEF WriteFails, FeederTo, OnlyStream, IInv, TypeOK, WaitInv, FeederInv,
      FileOpenWhileFed, WholeFileUploaded
<1>3. ASSUME IInv, FeederFinishes PROVE IInv'
  <2>1. feeder.pc \in {"closeWriter", "closeError"}
    BY <1>3 DEF FeederFinishes
  <2>2. ~(publisher.pc \in {"decide", "returned"})
    BY <1>3, <2>1 DEF IInv, FileOpenWhileFed
  <2> QED
    BY <1>3, <2>1, <2>2
    DEF FeederFinishes, OnlyStream, IInv, TypeOK, WaitInv, FeederInv,
        FileOpenWhileFed, WholeFileUploaded
<1>4. ASSUME IInv, TransportStops PROVE IInv'
  <2>1. /\ pipe' \in [reader : {"open", "closed"}, writer : {"open", "eof", "error"}]
        /\ pipe'.writer = pipe.writer
        /\ transport' \in [pc : {"idle", "reading", "answered", "stopped"},
                           got : 0..(LastItem + 1)]
        /\ transport'.got = transport.got
    BY <1>4 DEF TransportStops, IInv, TypeOK
  <2> QED
    BY <1>4, <2>1
    DEF TransportStops, OnlyStream, IInv, TypeOK, WaitInv, FeederInv,
        FileOpenWhileFed, WholeFileUploaded
<1> QED BY <1>1, <1>2, <1>3, <1>4

\* The end of the context is noticed by steps of the others only.
LEMMA OthersPreserve == IInv /\ (ContextEnds \/ UNCHANGED vars) => IInv'
<1>1. ASSUME IInv, ContextEnds \/ UNCHANGED vars PROVE IInv'
  <2>1. /\ UNCHANGED <<publisher, feeder, pipe, transport, recorder, advertised, drawn>>
        /\ ctxDone' \in BOOLEAN
    BY <1>1 DEF ContextEnds, vars, streamVars, IInv, TypeOK
  <2>2. TypeOK'
    BY <1>1, <2>1 DEF IInv, TypeOK
  <2>3. WaitInv' /\ FeederInv' /\ FileOpenWhileFed' /\ WholeFileUploaded'
    BY <1>1, <2>1 DEF IInv, WaitInv, FeederInv, FileOpenWhileFed, WholeFileUploaded
  <2> QED BY <2>2, <2>3 DEF IInv
<1> QED BY <1>1

-----------------------------------------------------------------------------
\* IInv is an inductive invariant: what the wait, the feeder and the transport
\* know of each other survives every interleaving of their steps.
THEOREM InductiveInvariant == Spec => []IInv
<1>1. IInv /\ [Next]_vars => IInv'
  BY CallPreserves, OpenFilePreserves, RequestPreserves, JoinPreserves,
     DecidePreserves, WaitPreserves, TransferPreserves, StreamPreserves,
     OthersPreserve
  DEF Next, Publisher, DoReturns, Feeder
<1> QED BY InitInvariant, <1>1, PTL DEF Spec

\* Variables keep their types; in particular the attempts stay within the limit
\* and no item is written after the closing boundary.
THEOREM TypeCorrect == Spec => []TypeOK
<1>1. IInv => TypeOK
  BY DEF IInv
<1> QED BY InductiveInvariant, <1>1, PTL

\* uploadLPK: an attempt goes on after an upload only if the transport took the
\* whole body, for files of any length and answers at any time.
THEOREM UploadsAreWhole == Spec => []WholeFileUploaded
<1>1. IInv => WholeFileUploaded
  BY DEF IInv
<1> QED BY InductiveInvariant, <1>1, PTL

\* uploadLPK returns, and closes the file, only when nobody reads it.
THEOREM FileStaysOpen == Spec => []FileOpenWhileFed
<1>1. IInv => FileOpenWhileFed
  BY DEF IInv
<1> QED BY InductiveInvariant, <1>1, PTL

\* Each wait is what the answers of the failed attempt and the backoff ask for,
\* whatever delays, ceilings and headers are configured.
THEOREM WaitsHonourAnswers == Spec => []WaitHonoursAnswer
<1>1. IInv => WaitHonoursAnswer
  BY DEF IInv, WaitInv, WaitHonoursAnswer
<1> QED BY InductiveInvariant, <1>1, PTL

-----------------------------------------------------------------------------
(* What makes the publication end                                           *)

\* Where the publisher goes from the steps up to the start of client.Do.
LEMMA EarlyMoves ==
  ASSUME IInv
  PROVE  /\ Call => /\ publisher.pc = "calls" /\ publisher'.pc \in {"open", "decide"}
                    /\ publisher'.attempt = publisher.attempt
                    /\ UNCHANGED <<streamVars, ctxDone>>
         /\ OpenFile =>
              /\ publisher.pc = "open" /\ publisher'.attempt = publisher.attempt
              /\ \/ publisher'.pc = "decide" /\ UNCHANGED streamVars
                 \/ /\ publisher'.pc = "request" /\ transport'.pc = "idle"
                    /\ feeder'.pc = "write" /\ feeder'.item = 0
              /\ UNCHANGED ctxDone
         /\ CreateRequest =>
              /\ publisher.pc = "request" /\ publisher'.pc \in {"close", "do"}
              /\ publisher'.attempt = publisher.attempt
              /\ transport'.pc \in {transport.pc, "reading"}
              /\ UNCHANGED <<feeder, ctxDone>>
<1>1. DOMAIN publisher = {"pc", "attempt", "result", "delay"}
      /\ DOMAIN transport = {"pc", "got"}
  BY DEF IInv, TypeOK
<1>2. ASSUME Call
      PROVE  /\ publisher.pc = "calls" /\ publisher'.pc \in {"open", "decide"}
             /\ publisher'.attempt = publisher.attempt
             /\ UNCHANGED <<streamVars, ctxDone>>
  <2>1. PICK result :
          /\ publisher' = IF result = "ok" THEN [publisher EXCEPT !.pc = "open"]
                          ELSE [publisher EXCEPT !.pc = "decide", !.result = result]
          /\ publisher.pc = "calls" /\ UNCHANGED <<streamVars, ctxDone, drawn>>
    BY <1>2, Zenon DEF Call
  <2> QED BY <1>1, <2>1
<1>3. ASSUME OpenFile
      PROVE  /\ publisher.pc = "open" /\ publisher'.attempt = publisher.attempt
             /\ \/ publisher'.pc = "decide" /\ UNCHANGED streamVars
                \/ /\ publisher'.pc = "request" /\ transport'.pc = "idle"
                   /\ feeder'.pc = "write" /\ feeder'.item = 0
             /\ UNCHANGED ctxDone
  <2>1. CASE /\ publisher' = [publisher EXCEPT !.pc = "decide", !.result = "final"]
             /\ UNCHANGED streamVars
    BY <1>1, <1>3, <2>1 DEF OpenFile
  <2>2. CASE /\ publisher' = [publisher EXCEPT !.pc = "request"]
             /\ feeder' = [pc |-> "write", item |-> 0, failed |-> FALSE]
             /\ transport' = [pc |-> "idle", got |-> 0]
    BY <1>1, <1>3, <2>2 DEF OpenFile
  <2> QED BY <1>3, <2>1, <2>2, Zenon DEF OpenFile
<1>4. ASSUME CreateRequest
      PROVE  /\ publisher.pc = "request" /\ publisher'.pc \in {"close", "do"}
             /\ publisher'.attempt = publisher.attempt
             /\ transport'.pc \in {transport.pc, "reading"}
             /\ UNCHANGED <<feeder, ctxDone>>
  BY <1>1, <1>4 DEF CreateRequest, AfterFailedRequest
<1> QED BY <1>2, <1>3, <1>4

\* Where it goes when client.Do returns: it joins the feeder only after an answer,
\* and closes the reader first after everything else.
LEMMA ReturnMoves ==
  ASSUME IInv
  PROVE  /\ Answer => /\ publisher.pc = "do" /\ publisher'.pc \in {"join", "close"}
                      /\ publisher'.attempt = publisher.attempt
                      /\ transport'.pc = "answered"
                      /\ UNCHANGED <<feeder, ctxDone>>
         /\ DoFails => /\ publisher.pc = "do" /\ publisher'.pc = "close"
                       /\ publisher'.attempt = publisher.attempt
                       /\ transport'.pc = "stopped"
                       /\ UNCHANGED <<feeder, ctxDone>>
<1>1. DOMAIN publisher = {"pc", "attempt", "result", "delay"}
      /\ DOMAIN transport = {"pc", "got"}
  BY DEF IInv, TypeOK
<1>2. ASSUME Answer
      PROVE  /\ publisher.pc = "do" /\ publisher'.pc \in {"join", "close"}
             /\ publisher'.attempt = publisher.attempt
             /\ transport'.pc = "answered"
             /\ UNCHANGED <<feeder, ctxDone>>
  <2>1. PICK result :
          /\ publisher' = [publisher EXCEPT !.pc = AfterDo(result), !.result = result]
          /\ publisher.pc = "do"
          /\ transport' = [transport EXCEPT !.pc = "answered"]
          /\ UNCHANGED <<feeder, pipe, ctxDone, drawn>>
    BY <1>2, Zenon DEF Answer
  <2>2. AfterDo(result) \in {"join", "close"}
    BY DEF AfterDo
  <2>3. publisher'.pc = AfterDo(result) /\ publisher'.attempt = publisher.attempt
        /\ transport'.pc = "answered"
    BY <1>1, <2>1
  <2> QED BY <2>1, <2>2, <2>3
<1>3. ASSUME DoFails
      PROVE  /\ publisher.pc = "do" /\ publisher'.pc = "close"
             /\ publisher'.attempt = publisher.attempt
             /\ transport'.pc = "stopped"
             /\ UNCHANGED <<feeder, ctxDone>>
  BY <1>1, <1>3 DEF DoFails, AfterDo
<1> QED BY <1>2, <1>3

\* Where it goes once the body is not read any more: from closing the reader to
\* joining the feeder, to the decision, and to the next attempt while one is left.
LEMMA LateMoves ==
  ASSUME IInv
  PROVE  /\ CloseReader => /\ publisher.pc = "close" /\ publisher'.pc = "join"
                           /\ publisher'.attempt = publisher.attempt
                           /\ pipe'.reader = "closed"
                           /\ UNCHANGED <<feeder, transport, ctxDone>>
         /\ Join => /\ publisher.pc = "join" /\ publisher'.pc = "decide"
                    /\ publisher'.attempt = publisher.attempt
                    /\ UNCHANGED <<streamVars, ctxDone>>
         /\ Decide => /\ publisher.pc = "decide"
                      /\ publisher'.pc \in {"returned", "wait"}
                      /\ publisher'.attempt = publisher.attempt
                      /\ UNCHANGED <<streamVars, ctxDone>>
         /\ Wait => /\ publisher.pc = "wait"
                    /\ publisher.attempt < MaxAttempts
                    /\ \/ /\ publisher'.pc = "calls"
                          /\ publisher'.attempt = publisher.attempt + 1
                       \/ /\ publisher'.pc = "returned"
                          /\ publisher'.attempt = publisher.attempt
                    /\ UNCHANGED <<streamVars, ctxDone>>
<1>1. DOMAIN publisher = {"pc", "attempt", "result", "delay"}
      /\ DOMAIN pipe = {"reader", "writer"}
  BY DEF IInv, TypeOK
<1>2. ASSUME CloseReader
      PROVE  /\ publisher.pc = "close" /\ publisher'.pc = "join"
             /\ publisher'.attempt = publisher.attempt
             /\ pipe'.reader = "closed"
             /\ UNCHANGED <<feeder, transport, ctxDone>>
  BY <1>1, <1>2 DEF CloseReader
<1>3. ASSUME Join
      PROVE  /\ publisher.pc = "join" /\ publisher'.pc = "decide"
             /\ publisher'.attempt = publisher.attempt
             /\ UNCHANGED <<streamVars, ctxDone>>
  <2>1. PICK result : publisher' = [publisher EXCEPT !.pc = "decide", !.result = result]
    BY <1>3, Zenon DEF Join
  <2>2. publisher'.pc = "decide" /\ publisher'.attempt = publisher.attempt
    BY <1>1, <2>1
  <2> QED BY <1>3, <2>2 DEF Join
<1>4. ASSUME Decide
      PROVE  /\ publisher.pc = "decide" /\ publisher'.pc \in {"returned", "wait"}
             /\ publisher'.attempt = publisher.attempt
             /\ UNCHANGED <<streamVars, ctxDone>>
  <2>1. CASE publisher' = [publisher EXCEPT !.pc = "returned"]
    BY <1>1, <1>4, <2>1 DEF Decide
  <2>2. CASE \E delay : publisher' = [publisher EXCEPT !.pc = "wait", !.delay = delay]
    BY <1>1, <1>4, <2>2 DEF Decide
  <2> QED BY <1>4, <2>1, <2>2, Zenon DEF Decide
<1>5. ASSUME Wait
      PROVE  /\ publisher.pc = "wait" /\ publisher.attempt < MaxAttempts
             /\ \/ publisher'.pc = "calls" /\ publisher'.attempt = publisher.attempt + 1
                \/ publisher'.pc = "returned" /\ publisher'.attempt = publisher.attempt
             /\ UNCHANGED <<streamVars, ctxDone>>
  <2>1. publisher.pc = "wait" /\ publisher.attempt < MaxAttempts
    BY <1>5 DEF Wait, IInv, WaitInv
  <2>2. CASE publisher' = [pc |-> "calls", attempt |-> publisher.attempt + 1,
                          result |-> "none", delay |-> 0]
    BY <1>5, <2>1, <2>2 DEF Wait
  <2>3. CASE publisher' = [publisher EXCEPT !.pc = "returned", !.result = "final"]
    BY <1>1, <1>5, <2>1, <2>3 DEF Wait
  <2> QED BY <1>5, <2>2, <2>3, Zenon DEF Wait
<1> QED BY <1>2, <1>3, <1>4, <1>5

\* uploadLPK never waits for a feeder that nobody will let go on: whenever the
\* request could not be created, the answer came early or the body was not
\* read, the reader is closed or the transport still has to close it.
THEOREM JoinsAreServed == Spec => []JoinIsServed
<1>1. Init => ServedInv
  BY DEF Init, NewStream, ServedInv
<1>2. IInv /\ ServedInv /\ [Next]_vars => ServedInv'
  <2>1. SUFFICES ASSUME IInv, ServedInv, [Next]_vars PROVE ServedInv'
    OBVIOUS
  <2>2. CASE Call \/ OpenFile \/ CreateRequest
    <3>1. publisher'.pc # "join"
      BY <2>1, <2>2, EarlyMoves
    <3>2. publisher'.pc \in {"request", "do", "close"} => feeder'.pc # "idle"
      BY <2>1, <2>2, EarlyMoves DEF ServedInv, streamVars
    <3> QED BY <3>1, <3>2 DEF ServedInv
  <2>3. CASE Answer \/ DoFails
    BY <2>1, <2>3, ReturnMoves DEF ServedInv
  <2>4. CASE CloseReader \/ Join \/ Decide \/ Wait
    BY <2>1, <2>4, LateMoves DEF ServedInv
  <2>5. CASE Feeder \/ Transfer \/ TransportStops
    BY <2>1, <2>5 DEF Feeder, ReadChunk, WriteFails, FeederFinishes, FeederTo,
       Transfer, TransportStops, OnlyStream, ServedInv, IInv, TypeOK
  <2>6. CASE ContextEnds \/ UNCHANGED vars
    BY <2>1, <2>6 DEF ContextEnds, vars, streamVars, ServedInv
  <2> QED BY <2>1, <2>2, <2>3, <2>4, <2>5, <2>6
          DEF Next, Publisher, DoReturns, Feeder
<1>3. IInv /\ ServedInv => JoinIsServed
  BY DEF IInv, TypeOK, ServedInv, JoinIsServed, FeederCanGoOn
<1> QED BY <1>1, <1>2, <1>3, InductiveInvariant, PTL DEF Spec

\* How the feeder moves: each step reads or writes one item of the body, or ends
\* the copy; after the closing boundary there is none left.
LEMMA FeederMoves ==
  ASSUME IInv
  PROVE  /\ ReadChunk => /\ feeder.pc = "read" /\ feeder.item <= LastItem
                         /\ feeder'.pc \in {"write", "closeError"}
                         /\ feeder'.item = feeder.item /\ transport' = transport
         /\ WriteFails => /\ feeder.pc = "write" /\ feeder.item <= LastItem
                          /\ feeder'.pc = "closeError" /\ transport' = transport
         /\ FeederFinishes => /\ feeder.pc \in {"closeWriter", "closeError"}
                              /\ feeder'.pc = "finished" /\ transport' = transport
         /\ Transfer => /\ feeder.pc = "write" /\ feeder.item <= LastItem
                        /\ transport'.pc = transport.pc
                        /\ \/ feeder'.pc = "closeWriter"
                           \/ /\ feeder'.pc \in {"read", "write"}
                              /\ feeder'.item = feeder.item + 1
                              /\ feeder.item < LastItem
         /\ TransportStops => /\ transport.pc = "answered"
                              /\ transport'.pc = "stopped" /\ feeder' = feeder
<1>1. /\ DOMAIN feeder = {"pc", "item", "failed"} /\ DOMAIN transport = {"pc", "got"}
      /\ feeder.item \in Nat /\ LastItem \in Nat
  BY UploadAssumption DEF IInv, TypeOK, LastItem
<1>2. feeder.pc \in {"read", "write"} => feeder.item <= LastItem
  BY DEF IInv, FeederInv
<1>3. ASSUME Transfer
      PROVE  /\ feeder.pc = "write" /\ feeder.item <= LastItem
             /\ transport'.pc = transport.pc
             /\ \/ feeder'.pc = "closeWriter"
                \/ /\ feeder'.pc \in {"read", "write"}
                   /\ feeder'.item = feeder.item + 1
                   /\ feeder.item < LastItem
  <2>1. feeder.pc = "write" /\ transport'.pc = transport.pc
    BY <1>1, <1>3 DEF Transfer
  <2>2. feeder'.item = feeder.item + 1
        /\ feeder'.pc = IF feeder.item = LastItem THEN "closeWriter"
                        ELSE IF IsChunk(feeder.item + 1) THEN "read" ELSE "write"
    BY <1>1, <1>3 DEF Transfer
  <2> QED BY <1>1, <1>2, <2>1, <2>2
<1>4. ReadChunk => /\ feeder.pc = "read" /\ feeder.item <= LastItem
                   /\ feeder'.pc \in {"write", "closeError"}
                   /\ feeder'.item = feeder.item /\ transport' = transport
  BY <1>1, <1>2 DEF ReadChunk, FeederTo
<1>5. WriteFails => /\ feeder.pc = "write" /\ feeder.item <= LastItem
                    /\ feeder'.pc = "closeError" /\ transport' = transport
  BY <1>1, <1>2 DEF WriteFails, FeederTo
<1>6. FeederFinishes => /\ feeder.pc \in {"closeWriter", "closeError"}
                        /\ feeder'.pc = "finished" /\ transport' = transport
  BY <1>1 DEF FeederFinishes
<1>7. TransportStops => /\ transport.pc = "answered"
                        /\ transport'.pc = "stopped" /\ feeder' = feeder
  BY <1>1 DEF TransportStops
<1> QED BY <1>3, <1>4, <1>5, <1>6, <1>7

\* The numbers that the steps count down.
LEMMA StepsAreNatural ==
  /\ StreamSteps \in Nat /\ LastItem \in Nat /\ StreamSteps = 2 * LastItem + 2
  /\ \A pc \in PublisherPC \ {"returned"} : StepsOfAttempt[pc] \in Nat \ {0}
  /\ StepsOfAttempt["calls"] = 9 + StreamSteps
  /\ StepsOfAttempt["open"] = 8 + StreamSteps
  /\ StepsOfAttempt["request"] = 7 /\ StepsOfAttempt["do"] = 6
  /\ StepsOfAttempt["close"] = 4 /\ StepsOfAttempt["join"] = 3
  /\ StepsOfAttempt["decide"] = 2 /\ StepsOfAttempt["wait"] = 1
<1>1. StreamSteps \in Nat /\ LastItem \in Nat /\ StreamSteps = 2 * LastItem + 2
  BY UploadAssumption DEF StreamSteps, LastItem
<1>2. /\ StepsOfAttempt["calls"] = 9 + StreamSteps
      /\ StepsOfAttempt["open"] = 8 + StreamSteps
      /\ StepsOfAttempt["request"] = 7 /\ StepsOfAttempt["do"] = 6
      /\ StepsOfAttempt["close"] = 4 /\ StepsOfAttempt["join"] = 3
      /\ StepsOfAttempt["decide"] = 2 /\ StepsOfAttempt["wait"] = 1
  BY DEF StepsOfAttempt
<1> QED BY <1>1, <1>2 DEF PublisherPC

LEMMA StepsLeftAreNatural ==
  ASSUME IInv
  PROVE  /\ AttemptsLeft \in Nat /\ PublisherLeft \in Nat /\ FeederLeft \in Nat
         /\ AnswerLeft \in {0, 1} /\ ContextLeft \in {0, 1} /\ StepsLeft \in Nat
<1>1. AttemptsLeft \in Nat
  <2>1. MaxAttempts - publisher.attempt \in Nat /\ 10 + StreamSteps \in Nat
    BY StepsAreNatural, UploadAssumption DEF IInv, TypeOK
  <2>2. \A m, n \in Nat : m * n \in Nat
    OBVIOUS
  <2> QED BY <2>1, <2>2 DEF AttemptsLeft
<1>2. PublisherLeft \in Nat
  <2>1. publisher.pc \in PublisherPC
    BY DEF IInv, TypeOK
  <2> QED BY <1>1, <2>1, StepsAreNatural DEF PublisherLeft
<1>3. FeederLeft \in Nat
  <2>1. /\ feeder.pc \in {"idle", "read", "write", "closeWriter", "closeError", "finished"}
        /\ feeder.item \in Nat
        /\ feeder.pc \in {"read", "write"} => feeder.item <= LastItem
    BY StepsAreNatural DEF IInv, TypeOK, FeederInv
  <2> QED BY <2>1, StepsAreNatural DEF FeederLeft
<1>4. AnswerLeft \in {0, 1} /\ ContextLeft \in {0, 1}
  BY DEF AnswerLeft, ContextLeft
<1> QED BY <1>2, <1>3, <1>4, <1>1 DEF StepsLeft

\* Within an attempt the publisher counts down by its step, and to nothing when
\* it returns.
LEMMA AttemptCountsDown ==
  ASSUME IInv, publisher.pc # "returned"
  PROVE  /\ publisher'.attempt = publisher.attempt /\ publisher'.pc # "returned" =>
              PublisherLeft' = AttemptsLeft + StepsOfAttempt[publisher'.pc]
         /\ PublisherLeft = AttemptsLeft + StepsOfAttempt[publisher.pc]
         /\ publisher'.pc = "returned" => PublisherLeft' = 0 /\ PublisherLeft > 0
<1>1. PublisherLeft = AttemptsLeft + StepsOfAttempt[publisher.pc]
  BY DEF PublisherLeft
<1>2. publisher'.pc = "returned" => PublisherLeft' = 0
  BY DEF PublisherLeft
<1>3. publisher'.attempt = publisher.attempt => AttemptsLeft' = AttemptsLeft
  BY DEF AttemptsLeft
<1>4. publisher'.pc # "returned" =>
        PublisherLeft' = AttemptsLeft' + StepsOfAttempt[publisher'.pc]
  BY DEF PublisherLeft
<1>5. PublisherLeft > 0
  BY <1>1, StepsAreNatural, StepsLeftAreNatural DEF IInv, TypeOK
<1> QED BY <1>1, <1>2, <1>3, <1>4, <1>5

\* A wait has its one step and, if it goes on, the next attempt before it.
LEMMA WaitCountsDown ==
  ASSUME IInv, publisher.pc = "wait", publisher.attempt < MaxAttempts,
         publisher'.pc = "calls", publisher'.attempt = publisher.attempt + 1
  PROVE  PublisherLeft' = PublisherLeft - 2
<1> DEFINE A == 10 + StreamSteps
<1>1. PICK a \in Nat : a = publisher.attempt
  BY DEF IInv, TypeOK
<1>2. A \in Nat /\ MaxAttempts \in Nat /\ a < MaxAttempts
  BY <1>1, StepsAreNatural, UploadAssumption
<1>3. \A m, n, k \in Nat : n < m => (m - n) * k = (m - (n + 1)) * k + k
  OBVIOUS
<1>4. PublisherLeft = (MaxAttempts - a) * A + 1
  BY <1>1, StepsAreNatural DEF PublisherLeft, AttemptsLeft
<1>5. PublisherLeft' = (MaxAttempts - (a + 1)) * A + (9 + StreamSteps)
  <2>1. AttemptsLeft' = (MaxAttempts - (a + 1)) * A
    BY <1>1 DEF AttemptsLeft
  <2> QED BY <2>1, StepsAreNatural DEF PublisherLeft
<1>6. (MaxAttempts - a) * A = (MaxAttempts - (a + 1)) * A + A
  BY <1>2, <1>3
<1>7. (MaxAttempts - (a + 1)) * A \in Nat
  BY <1>2
<1> QED BY <1>4, <1>5, <1>6, <1>7, StepsAreNatural

\* What a step leaves alone it does not count.
LEMMA UnchangedCounts ==
  /\ feeder' = feeder => FeederLeft' = FeederLeft
  /\ transport'.pc = transport.pc => AnswerLeft' = AnswerLeft
  /\ ctxDone' = ctxDone => ContextLeft' = ContextLeft
  /\ publisher' = publisher => PublisherLeft' = PublisherLeft
<1>1. feeder' = feeder => FeederLeft' = FeederLeft
  BY DEF FeederLeft
<1>2. publisher' = publisher => PublisherLeft' = PublisherLeft
  BY DEF PublisherLeft, AttemptsLeft
<1> QED BY <1>1, <1>2 DEF AnswerLeft, ContextLeft

\* One part counts down while the others stay, or pays for the answer that the
\* transport got.
LEMMA SumCountsDown ==
  ASSUME /\ PublisherLeft \in Int /\ PublisherLeft' \in Int
         /\ FeederLeft \in Int /\ FeederLeft' \in Int
         /\ AnswerLeft \in Int /\ AnswerLeft' \in Int
         /\ ContextLeft \in Int /\ ContextLeft' = ContextLeft,
         \/ /\ PublisherLeft' < PublisherLeft
            /\ FeederLeft' = FeederLeft /\ AnswerLeft' <= AnswerLeft
         \/ /\ PublisherLeft' + 1 < PublisherLeft
            /\ FeederLeft' = FeederLeft /\ AnswerLeft' <= AnswerLeft + 1
         \/ /\ FeederLeft' < FeederLeft
            /\ PublisherLeft' = PublisherLeft /\ AnswerLeft' = AnswerLeft
  PROVE  StepsLeft' < StepsLeft
<1>1. PICK p \in Int, q \in Int, f \in Int, g \in Int, m \in Int, n \in Int, c \in Int :
        /\ PublisherLeft = p /\ PublisherLeft' = q
        /\ FeederLeft = f /\ FeederLeft' = g
        /\ AnswerLeft = m /\ AnswerLeft' = n /\ ContextLeft = c
  OBVIOUS
<1>2. \/ q < p /\ g = f /\ n <= m
      \/ q + 1 < p /\ g = f /\ n <= m + 1
      \/ g < f /\ q = p /\ n = m
  BY <1>1
<1>3. q + g + n + c < p + f + m + c
  BY <1>2
<1>4. StepsLeft = p + f + m + c /\ StepsLeft' = q + g + n + c
  BY <1>1 DEF StepsLeft
<1> QED BY <1>3, <1>4

LEMMA PublisherCountsDown ==
  IInv /\ (Publisher \/ DoReturns) => StepsLeft' < StepsLeft
<1>1. SUFFICES ASSUME IInv, Publisher \/ DoReturns PROVE StepsLeft' < StepsLeft
  OBVIOUS
<1>2. /\ PublisherLeft \in Nat /\ FeederLeft \in Nat /\ AnswerLeft \in Nat
      /\ ContextLeft \in Nat /\ AttemptsLeft \in Nat
  BY <1>1, StepsLeftAreNatural
<1>3. CASE Call
  <2>1. PublisherLeft' \in Int /\ PublisherLeft' < PublisherLeft
    BY <1>1, <1>2, <1>3, EarlyMoves, AttemptCountsDown, StepsAreNatural
  <2>2. FeederLeft' = FeederLeft /\ AnswerLeft' = AnswerLeft /\ ContextLeft' = ContextLeft
    BY <1>1, <1>3, EarlyMoves, UnchangedCounts DEF streamVars
  <2> QED BY <1>2, <2>1, <2>2, SumCountsDown
<1>4. CASE OpenFile
  <2>1. ContextLeft' = ContextLeft /\ publisher.pc = "open"
    BY <1>1, <1>4, EarlyMoves, UnchangedCounts
  <2>2. CASE publisher'.pc = "decide" /\ UNCHANGED streamVars
    <3>1. PublisherLeft' \in Int /\ PublisherLeft' < PublisherLeft
      BY <1>1, <1>2, <1>4, <2>2, EarlyMoves, AttemptCountsDown, StepsAreNatural
    <3>2. FeederLeft' = FeederLeft /\ AnswerLeft' = AnswerLeft
      BY <2>2, UnchangedCounts DEF streamVars
    <3> QED BY <1>2, <2>1, <3>1, <3>2, SumCountsDown
  <2>3. CASE /\ publisher'.pc = "request" /\ transport'.pc = "idle"
             /\ feeder'.pc = "write" /\ feeder'.item = 0
    <3>1. PublisherLeft' = PublisherLeft - 1 - StreamSteps
      BY <1>1, <1>2, <1>4, <2>3, EarlyMoves, AttemptCountsDown, StepsAreNatural
    <3>2. AnswerLeft' = 0
      BY <2>3 DEF AnswerLeft
    <3>3. FeederLeft' = StreamSteps
      BY <2>3, StepsAreNatural DEF FeederLeft
    <3> QED BY <1>2, <2>1, <3>1, <3>2, <3>3, StepsAreNatural DEF StepsLeft
  <2> QED BY <1>1, <1>4, <2>2, <2>3, EarlyMoves
<1>5. CASE CreateRequest
  <2>1. PublisherLeft' \in Int /\ PublisherLeft' < PublisherLeft
    BY <1>1, <1>2, <1>5, EarlyMoves, AttemptCountsDown, StepsAreNatural
  <2>2. FeederLeft' = FeederLeft /\ ContextLeft' = ContextLeft
    BY <1>1, <1>5, EarlyMoves, UnchangedCounts
  <2>3. AnswerLeft' \in Nat /\ AnswerLeft' <= AnswerLeft
    BY <1>1, <1>5, EarlyMoves DEF AnswerLeft
  <2>4. /\ PublisherLeft \in Int /\ PublisherLeft' \in Int
        /\ FeederLeft \in Int /\ FeederLeft' \in Int
        /\ AnswerLeft \in Int /\ AnswerLeft' \in Int
        /\ ContextLeft \in Int /\ ContextLeft' = ContextLeft
    BY <1>2, <2>1, <2>2, <2>3
  <2> QED BY <2>1, <2>2, <2>3, <2>4, SumCountsDown, Zenon
<1>6. CASE DoReturns
  <2>1. PublisherLeft' \in Int /\ PublisherLeft' + 1 < PublisherLeft
    BY <1>1, <1>2, <1>6, ReturnMoves, AttemptCountsDown, StepsAreNatural DEF DoReturns
  <2>2. FeederLeft' = FeederLeft /\ ContextLeft' = ContextLeft
    BY <1>1, <1>6, ReturnMoves, UnchangedCounts DEF DoReturns
  <2>3. AnswerLeft' \in Nat /\ AnswerLeft' <= AnswerLeft + 1
    BY DEF AnswerLeft
  <2>4. /\ PublisherLeft \in Int /\ PublisherLeft' \in Int
        /\ FeederLeft \in Int /\ FeederLeft' \in Int
        /\ AnswerLeft \in Int /\ AnswerLeft' \in Int
        /\ ContextLeft \in Int /\ ContextLeft' = ContextLeft
    BY <1>2, <2>1, <2>2, <2>3
  <2> QED BY <2>1, <2>2, <2>3, <2>4, SumCountsDown, Zenon
<1>7. CASE CloseReader \/ Join \/ Decide
  <2>1. PublisherLeft' \in Int /\ PublisherLeft' < PublisherLeft
    BY <1>1, <1>2, <1>7, LateMoves, AttemptCountsDown, StepsAreNatural
  <2>2. FeederLeft' = FeederLeft /\ AnswerLeft' = AnswerLeft /\ ContextLeft' = ContextLeft
    BY <1>1, <1>7, LateMoves, UnchangedCounts DEF streamVars
  <2> QED BY <1>2, <2>1, <2>2, SumCountsDown
<1>8. CASE Wait
  <2>1. PublisherLeft' \in Int /\ PublisherLeft' < PublisherLeft
    BY <1>1, <1>2, <1>8, LateMoves, AttemptCountsDown, WaitCountsDown
  <2>2. FeederLeft' = FeederLeft /\ AnswerLeft' = AnswerLeft /\ ContextLeft' = ContextLeft
    BY <1>1, <1>8, LateMoves, UnchangedCounts DEF streamVars
  <2> QED BY <1>2, <2>1, <2>2, SumCountsDown
<1> QED BY <1>1, <1>3, <1>4, <1>5, <1>6, <1>7, <1>8 DEF Publisher

LEMMA StreamCountsDown ==
  IInv /\ (Feeder \/ Transfer \/ TransportStops \/ ContextEnds) =>
    StepsLeft' < StepsLeft
<1>1. SUFFICES ASSUME IInv, Feeder \/ Transfer \/ TransportStops \/ ContextEnds
               PROVE  StepsLeft' < StepsLeft
  OBVIOUS
<1>2. /\ PublisherLeft \in Nat /\ FeederLeft \in Nat /\ AnswerLeft \in Nat
      /\ ContextLeft \in Nat /\ PublisherLeft' = PublisherLeft
  <2>1. publisher' = publisher
    BY <1>1 DEF Feeder, ReadChunk, WriteFails, FeederFinishes, Transfer,
       TransportStops, ContextEnds, OnlyStream
  <2> QED BY <1>1, <2>1, StepsLeftAreNatural, UnchangedCounts
<1>3. CASE Feeder \/ Transfer
  <2>1. ctxDone' = ctxDone
    BY <1>3 DEF Feeder, ReadChunk, WriteFails, FeederFinishes, Transfer, OnlyStream
  <2>2. transport'.pc = transport.pc
    BY <1>1, <1>3, FeederMoves DEF Feeder
  <2>3. feeder.item \in Nat
    BY <1>1, StepsAreNatural DEF IInv, TypeOK
  <2>4. FeederLeft' \in Int /\ FeederLeft' < FeederLeft
    <3>1. CASE ReadChunk
      BY <1>1, <2>3, <3>1, FeederMoves, StepsAreNatural DEF FeederLeft
    <3>2. CASE WriteFails \/ FeederFinishes
      BY <1>1, <2>3, <3>2, FeederMoves, StepsAreNatural DEF FeederLeft
    <3>3. CASE Transfer
      BY <1>1, <2>3, <3>3, FeederMoves, StepsAreNatural DEF FeederLeft
    <3> QED BY <1>3, <3>1, <3>2, <3>3 DEF Feeder
  <2> QED BY <1>2, <2>1, <2>2, <2>4, UnchangedCounts, SumCountsDown
<1>4. CASE TransportStops
  <2>1. ctxDone' = ctxDone
    BY <1>4 DEF TransportStops, OnlyStream
  <2>2. AnswerLeft = 1 /\ AnswerLeft' = 0 /\ feeder' = feeder
    BY <1>1, <1>4, FeederMoves DEF AnswerLeft
  <2> QED BY <1>2, <2>1, <2>2, UnchangedCounts DEF StepsLeft
<1>5. CASE ContextEnds
  <2>1. ContextLeft = 1 /\ ContextLeft' = 0 /\ feeder' = feeder
        /\ transport' = transport
    BY <1>5 DEF ContextEnds, streamVars, ContextLeft
  <2> QED BY <1>2, <2>1, UnchangedCounts DEF StepsLeft
<1> QED BY <1>1, <1>3, <1>4, <1>5

\* Publish cannot go round for ever, however its goroutines interleave, whatever
\* the platform answers and whenever the context ends: each step of the
\* publisher, the feeder, the transport and the context uses up one of a number
\* that the attempts and the length of the file bound.
THEOREM UploadsAreBounded == Spec => StepsAreBounded
<1>1. IInv => StepsLeft \in Nat
  BY StepsLeftAreNatural
<1>2. IInv /\ [Next]_vars => [StepsLeft' < StepsLeft]_vars
  BY PublisherCountsDown, StreamCountsDown DEF Next
<1> QED BY <1>1, <1>2, InductiveInvariant, PTL DEF Spec, StepsAreBounded
=============================================================================
