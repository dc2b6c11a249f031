------------------------------ MODULE StreamCopy ------------------------------
(***************************************************************************)
(* How the output of a session reaches a client: writeDockerStream and     *)
(* copyDockerStream (internal/api/stream.go) and the buffers below them.   *)
(* A stream is written in one of three ways: on an upgraded connection in  *)
(* frames, each flushed; on an upgraded connection as it is, for a TTY; or *)
(* into the body of an ordinary response, for logs.                        *)
(*                                                                         *)
(* A buffer holds back what it can: bufio.Writer when it is not flushed,   *)
(* and the ones of net/http, which writeDockerStream never flushes, until  *)
(* the handler returns.  They are one buffer here, of Capacity units; the  *)
(* status line, a frame header and a piece of output are a unit each.      *)
(* A session's stream ends in EOF and in no error.                         *)
(***************************************************************************)
EXTENDS Integers, Sequences

CONSTANTS
  MaxOutput,  \* bound: units of output in all
  MaxRead,    \* bound: units one Read returns (32 KiB in the code)
  Capacity    \* bound: units a buffer holds (4 KiB in the code)

ASSUME StreamBounds == MaxOutput \in Nat /\ MaxRead \in Nat \ {0} /\ Capacity \in Nat \ {0}

Upgraded == {"frames", "tty"}
Modes == Upgraded \cup {"logs", "logsTTY"}

VARIABLES
  mode,      \* how the stream is written
  produced,  \* output of the session so far, numbered
  closed,    \* the session has finished: EOF after what was produced
  copied,    \* output read by the handler so far
  held,      \* units in the buffer
  wire,      \* units the client has received
  handler    \* "begin", "ready", "copy", "done", or "gone" once the client left

streamVars == <<mode, produced, closed, copied, held, wire, handler>>

StreamInit ==
  /\ mode \in Modes
  /\ produced = 0 /\ closed = FALSE
  /\ copied = 0 /\ held = <<>> /\ wire = <<>>
  /\ handler = "begin"

Framed == mode \in {"frames", "logs"}

StatusLine == [unit |-> "head"]
FrameHeader(n) == [unit |-> "header", size |-> n]
Data(n) == [unit |-> "data", number |-> n]

(* Mutant: the header has the size of the read buffer.                      *)
FrameOfBuffer(n) == <<FrameHeader(MaxRead)>> \o [i \in 1..n |-> Data(copied + i)]

Frame(n) == <<FrameHeader(n)>> \o [i \in 1..n |-> Data(copied + i)]

(* Write of a bufio.Writer: it holds what fits; otherwise it fills up and   *)
(* sends, and what is larger than the buffer goes past it.                  *)
Kept(units) ==
  LET rest == SubSeq(held \o units, Capacity + 1, Len(held \o units)) IN
  IF Len(held \o units) <= Capacity THEN held \o units
  ELSE IF held = <<>> \/ Len(rest) > Capacity THEN <<>> ELSE rest

Write(units) ==
  /\ held' = Kept(units)
  /\ wire' = wire \o SubSeq(held \o units, 1, Len(held \o units) - Len(Kept(units)))

WriteAndFlush(units) ==
  /\ held' = <<>>
  /\ wire' = wire \o held \o units
-----------------------------------------------------------------------------
Produce ==
  /\ ~closed /\ produced < MaxOutput
  /\ produced' = produced + 1
  /\ UNCHANGED <<mode, closed, copied, held, wire, handler>>

SessionEnds ==
  /\ ~closed /\ closed' = TRUE
  /\ UNCHANGED <<mode, produced, copied, held, wire, handler>>

(* The status line; on an upgraded connection it is flushed.                *)
Begin101 ==
  /\ handler = "begin" /\ mode \in Upgraded
  /\ WriteAndFlush(<<StatusLine>>)
  /\ handler' = IF Framed THEN "ready" ELSE "copy"
  /\ UNCHANGED <<mode, produced, closed, copied>>

Begin200 ==
  /\ handler = "begin" /\ mode \notin Upgraded
  /\ Write(<<StatusLine>>)
  /\ handler' = "copy"
  /\ UNCHANGED <<mode, produced, closed, copied>>

(* An empty frame tells the client that the stream is attached.             *)
ReadyFrame ==
  /\ handler = "ready"
  /\ WriteAndFlush(<<FrameHeader(0)>>)
  /\ handler' = "copy"
  /\ UNCHANGED <<mode, produced, closed, copied>>

(* Mutant: frames are written but not flushed.                              *)
CopyFrameHeld(n) ==
  /\ handler = "copy" /\ Framed /\ n <= produced - copied
  /\ Write(Frame(n))
  /\ copied' = copied + n
  /\ UNCHANGED <<mode, produced, closed, handler>>

(* One turn of copyDockerStream's loop; the flush of the logs' writer only  *)
(* moves the frame on to the buffers of net/http.                           *)
CopyFrame(n) ==
  /\ handler = "copy" /\ Framed /\ n <= produced - copied
  /\ IF mode = "frames" THEN WriteAndFlush(Frame(n)) ELSE Write(Frame(n))
  /\ copied' = copied + n
  /\ UNCHANGED <<mode, produced, closed, handler>>

(* io.Copy: a bufio.Writer reads into what is free of its buffer.           *)
CopyTTY(n) ==
  /\ handler = "copy" /\ ~Framed /\ n <= produced - copied
  /\ mode = "tty" => n <= IF Len(held) < Capacity THEN Capacity - Len(held) ELSE Capacity
  /\ Write([i \in 1..n |-> Data(copied + i)])
  /\ copied' = copied + n
  /\ UNCHANGED <<mode, produced, closed, handler>>

(* Mutant: nothing flushes the end of a TTY's output.                       *)
FinishUnflushed ==
  /\ handler = "copy" /\ closed /\ copied = produced
  /\ IF mode = "tty" THEN UNCHANGED <<held, wire>> ELSE WriteAndFlush(<<>>)
  /\ handler' = "done"
  /\ UNCHANGED <<mode, produced, closed, copied>>

(* EOF: the handler returns, and net/http sends what it held.               *)
Finish ==
  /\ handler = "copy" /\ closed /\ copied = produced
  /\ WriteAndFlush(<<>>)
  /\ handler' = "done"
  /\ UNCHANGED <<mode, produced, closed, copied>>

(* The client disconnects; the next write fails and ends the handler.       *)
ClientLeaves ==
  /\ handler \notin {"done", "gone"}
  /\ handler' = "gone"
  /\ UNCHANGED <<mode, produced, closed, copied, held, wire>>

HandlerStep ==
  \/ Begin101 \/ Begin200 \/ ReadyFrame \/ Finish
  \/ \E n \in 1..MaxRead : CopyFrame(n) \/ CopyTTY(n)

StreamNext == Produce \/ SessionEnds \/ ClientLeaves \/ HandlerStep

(* The handler's goroutine runs; sessions and clients owe nothing.          *)
StreamFairness == WF_streamVars(HandlerStep)

StreamSteps == StreamInit /\ [][StreamNext]_streamVars

StreamSpec == StreamSteps /\ StreamFairness
-----------------------------------------------------------------------------
StreamTypeOK ==
  /\ mode \in Modes /\ closed \in BOOLEAN
  /\ produced \in 0..MaxOutput /\ copied \in 0..produced
  /\ Len(held) \in 0..Capacity
  /\ handler \in {"begin", "ready", "copy", "done", "gone"}

(* The size of the frame that the unit at position i belongs to is that of  *)
(* the header before it, and a frame is followed by a header or by nothing. *)
FramesAreWhole(units) ==
  \A i \in DOMAIN units : units[i].unit = "header" =>
    LET end == i + units[i].size IN
    /\ \A j \in i + 1..end : j \in DOMAIN units => units[j].unit = "data"
    /\ end + 1 \in DOMAIN units => units[end + 1].unit = "header"

Has(units, n) == \E i \in DOMAIN units : units[i] = Data(n)

(* What is sent is a beginning of the output, in order and without gap.     *)
IsBeginning(units) ==
  \A i \in DOMAIN units : units[i].unit = "data" =>
    /\ units[i].number \in 1..produced
    /\ \A n \in 1..units[i].number : Has(units, n)
    /\ \A j \in DOMAIN units : units[j].unit = "data" /\ j < i => units[j].number < units[i].number

(* What has reached the client is a beginning of the output, in order and   *)
(* without gap, frame headers tell where the frames end, and a stream that  *)
(* ended was sent whole.                                                    *)
ClientCanDecode ==
  /\ IsBeginning(wire)
  /\ FramesAreWhole(wire)
  /\ handler = "done" => held = <<>> /\ \A n \in 1..produced : Has(wire, n)

(* Output on an attached stream appears while the session runs on.          *)
AttachedOutputAppears ==
  \A n \in 1..MaxOutput :
    mode = "frames" /\ produced >= n ~> handler = "gone" \/ Has(wire, n)

(* Output of a followed log appears while the session runs on.              *)
FollowedOutputAppears ==
  \A n \in 1..MaxOutput :
    mode = "logs" /\ produced >= n ~> handler = "gone" \/ Has(wire, n)
===============================================================================
