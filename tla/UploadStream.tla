---------------------------- MODULE UploadStream ----------------------------
(***************************************************************************)
(* The attempts of the official publisher as goroutines: uploadLPK feeds   *)
(* the LPK through an io.Pipe into the request body that the HTTP          *)
(* transport reads (internal/store/official/publish.go).  The platform may *)
(* answer before it read the body, the file may become unreadable, and the *)
(* transport may stop reading at any time.  Retry-After headers of every   *)
(* call of an attempt are recorded for the wait after it.  What the calls  *)
(* mean to the platform is module OfficialPublish.                         *)
(***************************************************************************)
EXTENDS Integers

CONSTANTS
  Chunks,      \* reads that io.Copy needs for the file
  MaxAttempts, \* Retry.MaxAttempts
  MaxDelay,    \* Retry.MaxDelay, 0 for none
  Header,      \* values of Retry-After in seconds; 0 for absent or in the past
  HugeHeader,  \* a number of seconds that no Duration holds
  Backoff      \* delays the jittered backoff may draw

ASSUME UploadAssumption ==
  /\ Chunks \in Nat /\ MaxAttempts \in Nat \ {0} /\ MaxDelay \in Nat
  /\ Header \subseteq Nat /\ 0 \in Header /\ Backoff \subseteq Nat
  /\ HugeHeader \notin Nat

VARIABLES
  publisher, \* its step, attempt, result of the attempt and delay
  feeder,    \* the goroutine: its step, the next item and its writeErr
  pipe,      \* the ends of the pipe
  transport, \* the reader of the body: its step and the items it got
  recorder,  \* retryAfterRecorder.delay
  ctxDone,   \* the context of the publication ended
  advertised, drawn \* history: longest Retry-After of the attempt; the backoff

streamVars == <<feeder, pipe, transport>>
vars == <<publisher, streamVars, recorder, ctxDone, advertised, drawn>>

PublisherPC == {"calls", "open", "request", "do", "close", "join", "decide",
                "wait", "returned"}
\* Errors retryablePublishError accepts are "retryable".
AttemptResult == {"none", "ok", "retryable", "final"}

\* The body: the part's header, the chunks, and the closing boundary.
LastItem == Chunks + 1
IsChunk(item) == item \in 1..Chunks

NewStream ==
  /\ feeder = [pc |-> "idle", item |-> 0, failed |-> FALSE]
  /\ pipe = [reader |-> "open", writer |-> "open"]
  /\ transport = [pc |-> "idle", got |-> 0]

Init ==
  /\ publisher = [pc |-> "calls", attempt |-> 1, result |-> "none", delay |-> 0]
  /\ NewStream
  /\ recorder = 0
  /\ ctxDone = FALSE
  /\ advertised = 0 /\ drawn = 0

-----------------------------------------------------------------------------
(* Answers and Retry-After                                                  *)

Larger(a, b) == IF a > b THEN a ELSE b
Smaller(a, b) == IF a < b THEN a ELSE b

\* parseRetryAfter; 0 stands for "not ok", which records nothing.
ParseRetryAfter(header) == IF header = HugeHeader THEN 0 ELSE header

Status == {"2xx", "429", "5xx", "4xx"}
IsRetryableHTTPStatus(status) == status \in {"429", "5xx"}

\* RoundTrip: the recorder keeps the longest delay of retryable answers.
RoundTrip(status, header) ==
  IF IsRetryableHTTPStatus(status)
  THEN /\ recorder' = Larger(recorder, ParseRetryAfter(header))
       /\ advertised' = Larger(advertised, ParseRetryAfter(header))
  ELSE UNCHANGED <<recorder, advertised>>

\* doRequest: what an answer makes of a call; readable: its body was read.
RequestResult(status, readable) ==
  IF ctxDone THEN "final"
  ELSE IF status = "2xx" THEN IF readable THEN "ok" ELSE "retryable"
  ELSE IF IsRetryableHTTPStatus(status) THEN "retryable" ELSE "final"

ContextEnds ==
  /\ ~ctxDone
  /\ ctxDone' = TRUE
  /\ UNCHANGED <<publisher, streamVars, recorder, advertised, drawn>>

\* The calls of the attempt before the upload.
Call == \E status \in Status, header \in Header \cup {HugeHeader}, readable \in BOOLEAN :
  /\ publisher.pc = "calls"
  /\ RoundTrip(status, header)
  /\ LET result == RequestResult(status, readable) IN
     publisher' = IF result = "ok" THEN [publisher EXCEPT !.pc = "open"]
                  ELSE [publisher EXCEPT !.pc = "decide", !.result = result]
  /\ UNCHANGED <<streamVars, ctxDone, drawn>>

-----------------------------------------------------------------------------
(* uploadLPK                                                                *)

\* The file is opened and the feeder started.
OpenFile ==
  /\ publisher.pc = "open"
  /\ \/ /\ publisher' = [publisher EXCEPT !.pc = "decide", !.result = "final"]
        /\ UNCHANGED streamVars
     \/ /\ publisher' = [publisher EXCEPT !.pc = "request"]
        /\ feeder' = [pc |-> "write", item |-> 0, failed |-> FALSE]
        /\ pipe' = [reader |-> "open", writer |-> "open"]
        /\ transport' = [pc |-> "idle", got |-> 0]
  /\ UNCHANGED <<recorder, ctxDone, advertised, drawn>>

AfterFailedRequest_JustJoins == "join"
AfterFailedRequest == "close"

\* authenticatedRequest, and the start of client.Do.
CreateRequest ==
  /\ publisher.pc = "request"
  /\ \/ /\ publisher' = [publisher EXCEPT !.pc = AfterFailedRequest, !.result = "final"]
        /\ UNCHANGED transport
     \/ /\ publisher' = [publisher EXCEPT !.pc = "do"]
        /\ transport' = [transport EXCEPT !.pc = "reading"]
  /\ UNCHANGED <<feeder, pipe, recorder, ctxDone, advertised, drawn>>

AfterDo_ReturnsErrors(result) == IF result = "ok" THEN "join" ELSE "decide"
AfterDo(result) == IF result = "ok" THEN "join" ELSE "close"

\* The platform answers, to the whole body or before it got it.
Answer == \E status \in Status, header \in Header \cup {HugeHeader}, readable \in BOOLEAN :
  /\ publisher.pc = "do"
  /\ RoundTrip(status, header)
  /\ transport' = [transport EXCEPT !.pc = "answered"]
  /\ LET result == RequestResult(status, readable) IN
     publisher' = [publisher EXCEPT !.pc = AfterDo(result), !.result = result]
  /\ UNCHANGED <<feeder, pipe, ctxDone, drawn>>

\* client.Do fails: the connection breaks, the client's timeout or the context
\* ends, or the body fails. The body is closed.
DoFails ==
  /\ publisher.pc = "do"
  /\ transport' = [transport EXCEPT !.pc = "stopped"]
  /\ pipe' = [pipe EXCEPT !.reader = "closed"]
  /\ LET result == IF ctxDone THEN "final" ELSE "retryable" IN
     publisher' = [publisher EXCEPT !.pc = AfterDo(result), !.result = result]
  /\ UNCHANGED <<feeder, recorder, ctxDone, advertised, drawn>>

\* reader.CloseWithError.
CloseReader ==
  /\ publisher.pc = "close"
  /\ pipe' = [pipe EXCEPT !.reader = "closed"]
  /\ publisher' = [publisher EXCEPT !.pc = "join"]
  /\ UNCHANGED <<feeder, transport, recorder, ctxDone, advertised, drawn>>

FeederFailed_Ignored == FALSE
FeederFailed == feeder.failed

\* <-done; without a request error the feeder's error decides. The metadata of
\* the answer may be unusable.
Join ==
  /\ publisher.pc = "join"
  /\ feeder.pc = "finished"
  /\ \E usable \in BOOLEAN :
       publisher' = [publisher EXCEPT !.pc = "decide",
         !.result = IF @ = "ok" /\ (FeederFailed \/ ~usable) THEN "final" ELSE @]
  /\ UNCHANGED <<streamVars, recorder, ctxDone, advertised, drawn>>

-----------------------------------------------------------------------------
(* The feeder and the transport                                             *)

FeederTo(pc) == feeder' = [feeder EXCEPT !.pc = pc]
OnlyStream == UNCHANGED <<publisher, recorder, ctxDone, advertised, drawn>>

\* contextReader and the file: a chunk is read, or the copy ends in an error.
ReadChunk ==
  /\ feeder.pc = "read"
  /\ \/ ~ctxDone /\ FeederTo("write")
     \/ FeederTo("closeError")
  /\ UNCHANGED <<pipe, transport>> /\ OnlyStream

\* A write on the pipe meets a read of the transport.
Transfer ==
  /\ feeder.pc = "write" /\ pipe.reader = "open"
  /\ transport.pc \in {"reading", "answered"}
  /\ transport' = [transport EXCEPT !.got = @ + 1]
  /\ feeder' = [feeder EXCEPT !.item = @ + 1,
                  !.pc = IF feeder.item = LastItem THEN "closeWriter"
                         ELSE IF IsChunk(feeder.item + 1) THEN "read" ELSE "write"]
  /\ UNCHANGED pipe /\ OnlyStream

\* A write on a pipe whose reader is closed fails.
WriteFails ==
  /\ feeder.pc = "write" /\ pipe.reader = "closed"
  /\ FeederTo("closeError")
  /\ UNCHANGED <<pipe, transport>> /\ OnlyStream

\* writer.Close or CloseWithError, and done <- writeErr.
FeederFinishes ==
  /\ feeder.pc \in {"closeWriter", "closeError"}
  /\ pipe' = [pipe EXCEPT !.writer =
                IF feeder.pc = "closeWriter" THEN "eof" ELSE "error"]
  /\ feeder' = [feeder EXCEPT !.pc = "finished", !.failed = feeder.pc = "closeError"]
  /\ UNCHANGED transport /\ OnlyStream

\* A transport that has its answer closes the body in the end, read or not.
TransportStops ==
  /\ transport.pc = "answered"
  /\ transport' = [transport EXCEPT !.pc = "stopped"]
  /\ pipe' = [pipe EXCEPT !.reader = "closed"]
  /\ UNCHANGED feeder /\ OnlyStream

-----------------------------------------------------------------------------
(* The retry loop                                                           *)

LastAttempt_OneMore == publisher.attempt > MaxAttempts
LastAttempt == publisher.attempt = MaxAttempts

Capped(delay) == IF MaxDelay > 0 THEN Smaller(delay, MaxDelay) ELSE delay

Decide ==
  /\ publisher.pc = "decide"
  /\ IF publisher.result # "retryable" \/ LastAttempt
     THEN publisher' = [publisher EXCEPT !.pc = "returned"] /\ UNCHANGED drawn
     ELSE \E nextDelay \in Backoff :
            /\ drawn' = nextDelay
            /\ publisher' = [publisher EXCEPT !.pc = "wait",
                               !.delay = Capped(Larger(nextDelay, recorder))]
  /\ UNCHANGED <<streamVars, recorder, ctxDone, advertised>>

RecorderAtAttempt_Kept == recorder
\* retryAfter.Reset at the head of the loop.
RecorderAtAttempt == 0

Wait ==
  /\ publisher.pc = "wait"
  /\ \/ /\ publisher' = [pc |-> "calls", attempt |-> publisher.attempt + 1,
                         result |-> "none", delay |-> 0]
        /\ recorder' = RecorderAtAttempt
        /\ advertised' = 0
     \/ /\ ctxDone
        /\ publisher' = [publisher EXCEPT !.pc = "returned", !.result = "final"]
        /\ UNCHANGED <<recorder, advertised>>
  /\ UNCHANGED <<streamVars, ctxDone, drawn>>

-----------------------------------------------------------------------------
Publisher == Call \/ OpenFile \/ CreateRequest \/ CloseReader \/ Join \/ Decide \/ Wait
DoReturns == Answer \/ DoFails
Feeder == ReadChunk \/ WriteFails \/ FeederFinishes

Next == Publisher \/ DoReturns \/ Feeder \/ Transfer \/ TransportStops \/ ContextEnds

Spec == Init /\ [][Next]_vars

\* Goroutines are scheduled, client.Do returns by its timeout, and a RoundTripper
\* always closes the body, possibly after it returned. Nothing makes a transport
\* read the body.
FairSpec ==
  /\ Spec
  /\ WF_vars(Publisher) /\ WF_vars(DoReturns) /\ WF_vars(Feeder)
  /\ WF_vars(TransportStops)

-----------------------------------------------------------------------------
(* Properties                                                               *)

\* Variables keep their types.
TypeOK ==
  /\ publisher \in [pc : PublisherPC, attempt : 1..MaxAttempts,
                    result : AttemptResult, delay : Nat]
  /\ feeder \in [pc : {"idle", "read", "write", "closeWriter", "closeError", "finished"},
                 item : 0..(LastItem + 1), failed : BOOLEAN]
  /\ pipe \in [reader : {"open", "closed"}, writer : {"open", "eof", "error"}]
  /\ transport \in [pc : {"idle", "reading", "answered", "stopped"},
                    got : 0..(LastItem + 1)]
  /\ recorder \in Nat /\ advertised \in Nat /\ drawn \in Nat /\ ctxDone \in BOOLEAN

\* The publication goes on with an upload only if the transport took the whole
\* body, whenever the platform answered and whatever became of the file.
WholeFileUploaded ==
  publisher.result = "ok" /\ publisher.pc \in {"decide", "returned"} =>
    transport.got = LastItem + 1 /\ pipe.writer = "eof"

\* uploadLPK closes the file when it returns: by then nobody reads it.
FileOpenWhileFed ==
  publisher.pc \notin {"request", "do", "close", "join"} =>
    feeder.pc \in {"idle", "finished"}

\* The wait before a retry is what the platform asked for in the attempt that
\* failed, or the backoff if that is longer, but never more than max_delay;
\* nothing an earlier attempt was told counts.
WaitHonoursAnswer ==
  publisher.pc = "wait" =>
    publisher.delay = Capped(Larger(drawn, advertised))

\* Publish returns: the wait for the feeder ends even when the request could not
\* be created, the file cannot be read, or the platform does not read the body.
UploadEnds == <>(publisher.pc = "returned")
=============================================================================
