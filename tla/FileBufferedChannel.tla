------------------------ MODULE FileBufferedChannel ------------------------
(***************************************************************************)
(* ServerKit::FileBufferedChannel: a Channel that buffers what its writer  *)
(* feeds, in memory up to a threshold and in a file beyond it.  A reader   *)
(* takes data from the queue of buffers or from the file and feeds it to   *)
(* the Channel; a writer (the mover) moves buffers to the file.  Both are  *)
(* driven by callbacks of one event loop, and file I/O is asynchronous.    *)
(*                                                                         *)
(* One action is one entry into the object, up to the point where control  *)
(* leaves it: back to the event loop, or into the data callback.  While    *)
(* the data callback executes (caller # "none") only its own moves are     *)
(* possible.  Bytes are numbered as they are fed, so that a lost,          *)
(* repeated or reordered byte shows.                                       *)
(***************************************************************************)
EXTENDS Channel, SequencesExt

CONSTANTS
  MaxBytes,         \* bound on the bytes fed between two reinitialize()s
  MaxFeed,          \* bound on the size of one fed buffer
  Threshold,        \* config->threshold
  ChunkSize,        \* the size of an mbuf, or maxDiskChunkReadSize
  AutoTruncateFile  \* config->autoTruncateFile

ASSUME FBCAssumption ==
  /\ MaxBytes \in Nat /\ MaxFeed \in Nat /\ Threshold \in Nat
  /\ ChunkSize \in Nat \ {0}
  /\ AutoTruncateFile \in BOOLEAN

VARIABLES
  self,  \* the object
  fed,   \* how many bytes were fed since the object was initialized
  taken  \* the bytes the data callback consumed since then

vars == <<self, fed, taken>>

ErrorModes == {"ERROR", "ERROR_WAITING"}

(* InFileMode, as its constructor leaves it. *)
NewInFileMode ==
  [writerState   |-> "WS_INACTIVE",
   writerRequest |-> FALSE, \* not NULL: a file creation or a move is under way
   moved         |-> 0,     \* MoveContext::written
   readRequest   |-> 0,     \* the size asked for; 0 is NULL
   readOffset    |-> 0,
   written       |-> 0,     \* bytes to read from the file; < 0: read ahead of the mover
   data          |-> <<>>]  \* the file itself

(* inFileMode is NULL exactly when mode is not IN_FILE_MODE; it then has    *)
(* the value NewInFileMode here.  A buffer that is <<>> is the EOF.         *)
NewObject ==
  NewChannel @@
  [mode        |-> "IN_MEMORY_MODE",
   readerState |-> "RS_INACTIVE",
   buffers     |-> <<>>,    \* firstBuffer and moreBuffers
   inFileMode  |-> NewInFileMode,
   crashed     |-> FALSE]   \* a NULL pointer was dereferenced

-----------------------------------------------------------------------------
(* Queries *)

Size(buffers) == FoldSeq(LAMBDA b, n : n + Len(b), 0, buffers)

Ended(c) ==
  \/ c.buffers # <<>> /\ Last(c.buffers) = <<>>
  \/ c.mode \in ErrorModes
  \/ ChannelEnded(c)

PassedThreshold(c) == Size(c.buffers) >= Threshold

(* findBufferForReadProcessing: the index of the buffer at which the reader *)
(* is, -written bytes into the queue, or of an EOF before it; 0 for none.   *)
FindBuffer(c) ==
  LET At(i) == \/ Size(SubSeq(c.buffers, 1, i - 1)) = -c.inFileMode.written
               \/ i > 1 /\ c.buffers[i] = <<>>
      found == {i \in 1..Len(c.buffers) : At(i)}
  IN IF found = {} THEN 0 ELSE CHOOSE i \in found : \A j \in found : i <= j

-----------------------------------------------------------------------------
(* The writer *)

CreateBufferFile(c) ==
  [c EXCEPT !.inFileMode.writerState = "WS_CREATING_FILE",
            !.inFileMode.writerRequest = TRUE]

MoveNextBufferToFile(c) ==
  CASE c.buffers = <<>> -> [c EXCEPT !.inFileMode.writerState = "WS_INACTIVE"]
    [] c.buffers # <<>> /\ Head(c.buffers) = <<>> ->
         [c EXCEPT !.inFileMode.writerState = "WS_TERMINATED"]
    [] OTHER ->
         [c EXCEPT !.inFileMode.writerState = "WS_MOVING",
                   !.inFileMode.writerRequest = TRUE,
                   !.inFileMode.moved = 0]

(* A cancelled request only releases what it holds when it completes. *)
CancelWriter(c) ==
  IF c.inFileMode.writerState \in {"WS_CREATING_FILE", "WS_MOVING"}
  THEN [c EXCEPT !.crashed = @ \/ ~c.inFileMode.writerRequest,
                 !.inFileMode.writerRequest = FALSE,
                 !.inFileMode.writerState = "WS_INACTIVE"]
  ELSE c

CancelReader(c) ==
  IF c.readerState = "RS_READING_FROM_FILE"
  THEN [c EXCEPT !.crashed = @ \/ c.inFileMode.readRequest = 0,
                 !.inFileMode.readRequest = 0]
  ELSE c

CancelBoth(c) ==
  IF c.mode = "IN_FILE_MODE" THEN CancelWriter(CancelReader(c)) ELSE CancelReader(c)

SwitchToInFileMode(c) == CreateBufferFile([c EXCEPT !.mode = "IN_FILE_MODE"])

\* Mutant: the buffers that were read but not moved are kept.
SwitchToInMemoryMode_KeepsBuffers(c) ==
  [CancelWriter(c) EXCEPT !.mode = "IN_MEMORY_MODE", !.inFileMode = NewInFileMode]

(* The buffers not moved yet have all been read. *)
SwitchToInMemoryMode(c) ==
  [CancelWriter(c) EXCEPT !.mode = "IN_MEMORY_MODE",
                          !.inFileMode = NewInFileMode,
                          !.buffers = <<>>]

-----------------------------------------------------------------------------
(* The reader.  readNext loops, but every turn of the loop passes through   *)
(* the data callback: AfterFeeding is the way back from there.              *)

ReadNextChunkFromFile(c) ==
  LET file == c.inFileMode
      size == IF file.written < ChunkSize THEN file.written ELSE ChunkSize
  IN [c EXCEPT !.readerState = "RS_READING_FROM_FILE", !.inFileMode.readRequest = size]

FeedEOFToChannel(c) == ChannelFeed([c EXCEPT !.readerState = "RS_FEEDING_EOF"], <<>>, "reader")

FeedToChannel(c, mbuf) == ChannelFeed([c EXCEPT !.readerState = "RS_FEEDING"], mbuf, "reader")

\* Mutants: the signs are swapped; only the offset advances.
Advance_Swapped(c, n) ==
  [c EXCEPT !.inFileMode.readOffset = @ - n, !.inFileMode.written = @ + n]
Advance_OffsetOnly(c, n) == [c EXCEPT !.inFileMode.readOffset = @ + n]

Advance(c, n) ==
  [c EXCEPT !.inFileMode.readOffset = @ + n, !.inFileMode.written = @ - n]

ReadNextInMemory(c) ==
  CASE c.buffers = <<>> -> [c EXCEPT !.readerState = "RS_INACTIVE"]
    [] c.buffers # <<>> /\ Head(c.buffers) = <<>> -> FeedEOFToChannel(c)
    [] OTHER -> FeedToChannel([c EXCEPT !.buffers = Tail(@)], Head(c.buffers))

ReadNextInFile(c) ==
  LET i == FindBuffer(c)
      inactive == [c EXCEPT !.readerState = "RS_INACTIVE"]
  IN CASE c.inFileMode.written > 0 -> ReadNextChunkFromFile(c)
       [] c.inFileMode.written <= 0 /\ i = 0 ->
            IF AutoTruncateFile THEN SwitchToInMemoryMode(inactive) ELSE inactive
       [] c.inFileMode.written <= 0 /\ i # 0 /\ c.buffers[i] = <<>> -> FeedEOFToChannel(c)
       [] OTHER -> FeedToChannel(Advance(c, Len(c.buffers[i])), c.buffers[i])

ReadNext(c) ==
  IF c.mode = "IN_MEMORY_MODE" THEN ReadNextInMemory(c) ELSE ReadNextInFile(c)

\* Mutant: the reader does not note that it waits for the channel.
AfterFeeding_NoWait(c) ==
  CASE c.mode \in ErrorModes -> c
    [] c.mode \notin ErrorModes /\ c.readerState = "RS_FEEDING" /\ AcceptingInput(c) ->
         ReadNext(c)
    [] c.mode \notin ErrorModes /\ c.readerState = "RS_FEEDING" /\ MayAcceptInputLater(c) -> c
    [] OTHER -> [c EXCEPT !.readerState = "RS_TERMINATED"]

AfterFeeding(c) ==
  CASE c.mode \in ErrorModes -> c
    [] c.mode \notin ErrorModes /\ c.readerState = "RS_FEEDING" /\ AcceptingInput(c) ->
         ReadNext(c)
    [] c.mode \notin ErrorModes /\ c.readerState = "RS_FEEDING" /\ MayAcceptInputLater(c) ->
         [c EXCEPT !.readerState = "RS_WAITING_FOR_CHANNEL_IDLE"]
    [] OTHER -> [c EXCEPT !.readerState = "RS_TERMINATED"]

-----------------------------------------------------------------------------
(* Errors, and the Channel's consumedCallback *)

SetError(c) ==
  LET d == [CancelBoth(c) EXCEPT !.readerState = "RS_TERMINATED",
                                 !.inFileMode = NewInFileMode]
  IN CASE c.mode \in ErrorModes -> c
       [] c.mode \notin ErrorModes /\ AcceptingInput(c) ->
            ChannelFeedError([d EXCEPT !.mode = "ERROR"])
       [] OTHER -> [d EXCEPT !.mode = "ERROR_WAITING"]

\* Mutants: an error is not fed later; the reader is not resumed.
OnChannelConsumed_DropsError(c) ==
  IF c.readerState # "RS_WAITING_FOR_CHANNEL_IDLE" THEN c
  ELSE IF AcceptingInput(c) THEN ReadNext(c) ELSE [c EXCEPT !.readerState = "RS_TERMINATED"]
OnChannelConsumed_NoResume(c) ==
  IF c.mode = "ERROR_WAITING" /\ AcceptingInput(c) THEN ChannelFeedError(c) ELSE c

OnChannelConsumed(c) ==
  CASE c.readerState = "RS_WAITING_FOR_CHANNEL_IDLE" ->
         IF AcceptingInput(c) THEN ReadNext(c) ELSE [c EXCEPT !.readerState = "RS_TERMINATED"]
    [] c.readerState # "RS_WAITING_FOR_CHANNEL_IDLE" /\ c.mode = "ERROR_WAITING" ->
         IF AcceptingInput(c) THEN ChannelFeedError(c) ELSE c
    [] OTHER -> c

Notify(c) == IF c.notify THEN OnChannelConsumed([c EXCEPT !.notify = FALSE]) ELSE c

(* The data callback returned, and so does what called it, up to the event  *)
(* loop or to the next call of the data callback.                           *)
Return(c, size, end) ==
  LET d == Returned(c, size, end)
      n == Notify(d)
  IN CASE d.caller # "none" -> d
       [] d.caller = "none" /\ n.caller = "none" /\ c.caller = "reader" -> AfterFeeding(n)
       [] OTHER -> n

-----------------------------------------------------------------------------
(* Init and the actions *)

Init == self = NewObject /\ fed = 0 /\ taken = <<>>

InCallback == self.caller # "none"

(* feedWithoutRefGuard, for data and for EOF.  Once the channel has ended   *)
(* it does nothing.                                                         *)
PushAndProcess(mbuf) ==
  LET pushed == [self EXCEPT !.buffers = Append(@, mbuf)]
      moving == CASE pushed.mode = "IN_MEMORY_MODE" /\ PassedThreshold(pushed) ->
                       SwitchToInFileMode(pushed)
                  [] pushed.mode = "IN_FILE_MODE"
                     /\ pushed.inFileMode.writerState = "WS_INACTIVE" ->
                       MoveNextBufferToFile(pushed)
                  [] OTHER -> pushed
  IN CASE moving.readerState = "RS_INACTIVE" /\ AcceptingInput(moving) -> ReadNext(moving)
       [] moving.readerState = "RS_INACTIVE" /\ ~AcceptingInput(moving) ->
            [moving EXCEPT !.readerState = "RS_WAITING_FOR_CHANNEL_IDLE"]
       [] OTHER -> moving

Feed(n) ==
  /\ ~InCallback /\ ~Ended(self)
  /\ fed + n <= MaxBytes
  /\ self' = PushAndProcess([i \in 1..n |-> fed + i])
  /\ fed' = fed + n
  /\ UNCHANGED taken

FeedEOF ==
  /\ ~InCallback /\ ~Ended(self)
  /\ self' = PushAndProcess(<<>>)
  /\ UNCHANGED <<fed, taken>>

(* The writer's side has an error to pass on. *)
FeedError ==
  /\ ~InCallback /\ self.mode \notin ErrorModes
  /\ self' = SetError(self)
  /\ UNCHANGED <<fed, taken>>

(* The data callback returns synchronously or, with -1, asynchronously. *)
ReturnConsumed ==
  /\ InCallback
  /\ \E size \in 0..Len(self.buffer), end \in BOOLEAN :
       /\ self' = Return(self, size, end)
       /\ taken' = taken \o SubSeq(self.buffer, 1, size)
  /\ UNCHANGED fed

ReturnAsync ==
  /\ InCallback
  /\ self' = Return(self, -1, FALSE)
  /\ UNCHANGED <<fed, taken>>

(* FileBufferedFdSinkChannel::onDataCallback when its write fails. *)
ReturnError ==
  /\ InCallback /\ self.buffer # <<>>
  /\ self' = Return(SetError(self), 0, TRUE)
  /\ UNCHANGED <<fed, taken>>

(* consumed(), after an asynchronous return. *)
Consumed ==
  /\ ~InCallback
  /\ self.state \in {"WAITING_FOR_CALLBACK", "STOPPED_WHILE_WAITING",
                     "WAITING_FOR_CALLBACK_WITH_EOF_OR_ERROR"}
  /\ \E size \in 0..Len(self.buffer), end \in BOOLEAN :
       /\ self' = Notify(ChannelConsumed(self, size, end))
       /\ taken' = taken \o SubSeq(self.buffer, 1, size)
  /\ UNCHANGED fed

\* Mutant: the channel is stopped at any time.
Stop_Anywhere ==
  /\ ChannelStop(self) # self
  /\ self' = ChannelStop(self)
  /\ UNCHANGED <<fed, taken>>

(* The request handler stops the channel in the data callback, and right    *)
(* after it has initialized it, and nowhere else.                           *)
Stop ==
  /\ InCallback \/ self = NewObject
  /\ ChannelStop(self) # self
  /\ self' = ChannelStop(self)
  /\ UNCHANGED <<fed, taken>>

Start ==
  /\ ~InCallback /\ ~IsStarted(self)
  /\ self' = Notify(ChannelStart(self))
  /\ UNCHANGED <<fed, taken>>

RunPlan ==
  /\ ~InCallback /\ self.plans > 0
  /\ self' = ExecuteCall(self)
  /\ UNCHANGED <<fed, taken>>

(* deinitialize() and reinitialize(): the request or the client is done,    *)
(* in its data callback or between two events.                              *)
Recycle ==
  /\ self' = NewObject
  /\ fed' = 0 /\ taken' = <<>>

-----------------------------------------------------------------------------
(* Completion of file I/O *)

Creating == ~InCallback /\ self.inFileMode.writerState = "WS_CREATING_FILE"
                        /\ self.inFileMode.writerRequest

FileCreated ==
  /\ Creating
  /\ self' = MoveNextBufferToFile([self EXCEPT !.inFileMode.writerRequest = FALSE])
  /\ UNCHANGED <<fed, taken>>

FileExists ==
  /\ Creating
  /\ self' = CreateBufferFile([self EXCEPT !.inFileMode.writerState = "WS_INACTIVE"])
  /\ UNCHANGED <<fed, taken>>

(* writerRequest is NULL when setError() cancels the writer. *)
FileNotCreated ==
  /\ Creating
  /\ self' = SetError([self EXCEPT !.inFileMode.writerRequest = FALSE])
  /\ UNCHANGED <<fed, taken>>

Moving == ~InCallback /\ self.inFileMode.writerState = "WS_MOVING"
                      /\ self.inFileMode.writerRequest

(* The write that completes was submitted at readOffset + written; the      *)
(* reader moves the two in opposite directions.                             *)
Stored(n) ==
  LET file == self.inFileMode
      at == file.readOffset + file.written
      bytes == SubSeq(Head(self.buffers), file.moved + 1, file.moved + n)
  IN SubSeq(file.data, 1, at) \o bytes \o SubSeq(file.data, at + n + 1, Len(file.data))

BufferWritten ==
  /\ Moving
  /\ LET rest == Len(Head(self.buffers)) - self.inFileMode.moved IN
     self' = MoveNextBufferToFile(
               [self EXCEPT !.inFileMode.data = Stored(rest),
                            !.inFileMode.written = @ + Len(Head(self.buffers)),
                            !.inFileMode.writerRequest = FALSE,
                            !.buffers = Tail(@)])
  /\ UNCHANGED <<fed, taken>>

(* The rest of the buffer is written where the first part was. *)
BufferPartlyWritten ==
  /\ Moving
  /\ \E n \in 1..(Len(Head(self.buffers)) - self.inFileMode.moved - 1) :
       self' = [self EXCEPT !.inFileMode.data = Stored(n), !.inFileMode.moved = @ + n]
  /\ UNCHANGED <<fed, taken>>

BufferNotWritten ==
  /\ Moving
  /\ self' = SetError([self EXCEPT !.inFileMode.writerRequest = FALSE,
                                   !.inFileMode.writerState = "WS_TERMINATED"])
  /\ UNCHANGED <<fed, taken>>

Reading == ~InCallback /\ self.readerState = "RS_READING_FROM_FILE"
                       /\ self.inFileMode.readRequest > 0

ChunkRead ==
  /\ Reading
  /\ LET file == self.inFileMode
         Result(n) == SubSeq(file.data, file.readOffset + 1, file.readOffset + n)
     IN \E n \in 1..file.readRequest :
          self' = FeedToChannel(Advance([self EXCEPT !.inFileMode.readRequest = 0], n),
                                Result(n))
  /\ UNCHANGED <<fed, taken>>

(* readRequest is NULL when setError() cancels the reader. *)
ChunkNotRead ==
  /\ Reading
  /\ self' = SetError([self EXCEPT !.inFileMode.readRequest = 0])
  /\ UNCHANGED <<fed, taken>>

-----------------------------------------------------------------------------
Callback == ReturnConsumed \/ ReturnAsync \/ ReturnError

User ==
  \/ \E n \in 1..MaxFeed : Feed(n)
  \/ FeedEOF \/ FeedError \/ Consumed \/ Stop \/ Start \/ Recycle

FileIO == FileCreated \/ FileExists \/ BufferWritten \/ BufferNotWritten \/ ChunkRead

(* The outcomes of file I/O that the code does not survive. *)
FaultyIO == FileNotCreated \/ BufferPartlyWritten \/ ChunkNotRead

Next == Callback \/ User \/ RunPlan \/ FileIO

(* The consumer makes progress: what it can take again and again, it takes  *)
(* some of in the end.                                                      *)
Progress == ReturnConsumed /\ (self.buffer = <<>> \/ taken' # taken)

Fairness ==
  /\ WF_vars(RunPlan) /\ WF_vars(Consumed) /\ WF_vars(Start)
  /\ WF_vars(ChunkRead) /\ WF_vars(BufferWritten \/ BufferNotWritten) /\ SF_vars(FileCreated)
  /\ SF_vars(Progress)

Spec == Init /\ [][Next]_vars /\ Fairness

FaultySpec == Init /\ [][Next \/ FaultyIO]_vars

-----------------------------------------------------------------------------
(* Properties *)

(* Every field has its type. *)
TypeOK ==
  /\ self.state \in State
  /\ self.mode \in {"IN_MEMORY_MODE", "IN_FILE_MODE"} \union ErrorModes
  /\ self.readerState \in {"RS_INACTIVE", "RS_FEEDING", "RS_FEEDING_EOF", "RS_TERMINATED",
                           "RS_WAITING_FOR_CHANNEL_IDLE", "RS_READING_FROM_FILE"}
  /\ self.inFileMode.writerState \in {"WS_INACTIVE", "WS_CREATING_FILE", "WS_MOVING",
                                      "WS_TERMINATED"}
  /\ self.caller \in {"none", "reader", "plan", "error"} /\ ~self.notify
  /\ self.buffer \in Seq(1..fed) /\ self.buffers \in Seq(Seq(1..fed))
  /\ self.plans \in Nat /\ self.bytesConsumed \in Nat
  /\ self.inFileMode.readRequest \in Nat /\ self.inFileMode.readOffset \in Nat
  /\ fed \in 0..MaxBytes /\ taken \in Seq(1..fed)

(* No wakeup is lost.  Between two events a reader that waits for the       *)
(* channel waits for one that will call it back; an inactive reader has     *)
(* left nothing unread; a terminated one needs no more; and an error that   *)
(* waits for the channel to become idle waits for one that is not.          *)
ReaderIsWoken ==
  ~InCallback =>
    CASE self.readerState = "RS_WAITING_FOR_CHANNEL_IDLE" ->
           MayAcceptInputLater(self) /\ self.mode \notin ErrorModes
      [] self.readerState = "RS_INACTIVE" ->
           /\ self.inFileMode.written <= 0
           /\ Size(self.buffers) = -self.inFileMode.written /\ ~Ended(self)
      [] self.readerState = "RS_READING_FROM_FILE" ->
           /\ self.mode = "IN_FILE_MODE" /\ AcceptingInput(self)
           /\ self.inFileMode.readRequest \in 1..self.inFileMode.written
      [] self.readerState = "RS_TERMINATED" ->
           /\ ~AcceptingInput(self)
           /\ self.mode \in ErrorModes \/ ChannelEnded(self)
      [] OTHER -> FALSE

(* The reader and the mover agree on the file.  What was moved is where it  *)
(* is looked for; a reader ahead of the mover is at the start of a buffer;  *)
(* the mover is inactive only when nothing is left to move; and what is in  *)
(* memory without a file is below the threshold.                            *)
MoverAgreesWithReader ==
  IF self.mode = "IN_FILE_MODE"
  THEN LET file == self.inFileMode IN
       /\ file.readOffset + file.written = Len(file.data)
       /\ file.written < 0 =>
            \E i \in 1..Len(self.buffers) : Size(SubSeq(self.buffers, 1, i)) = -file.written
       /\ file.writerState = "WS_INACTIVE" => self.buffers = <<>>
  ELSE self.mode = "IN_MEMORY_MODE" => ~PassedThreshold(self)

(* A command to call the data callback is on the event loop exactly when    *)
(* the channel plans to call; the callback executes exactly in the calling  *)
(* states, and an idle channel has nothing of an earlier call left.         *)
PlansMatchState ==
  /\ self.plans = IF self.state = "PLANNING_TO_CALL" THEN 1 ELSE 0
  /\ self.planId = (self.state = "PLANNING_TO_CALL")
  /\ InCallback <=> self.state \in {"CALLING", "STOPPED_WHILE_CALLING", "CALLING_WITH_EOF_OR_ERROR"}
  /\ AcceptingInput(self) => self.buffer = <<>> /\ self.bytesConsumed = 0
  /\ self.state \in {"CALLING", "PLANNING_TO_CALL"} => self.buffer # <<>>

(* Through memory, file and Channel the object is a Stream: the data        *)
(* callback consumes exactly what was fed, in order, is told of the end     *)
(* only after all of it, and an error cuts off no more than a suffix.       *)
Abstract == INSTANCE Stream WITH
  input  <- [i \in 1..fed |-> i],
  output <- taken,
  writer <- CASE self.mode \in ErrorModes -> "failed"
              [] self.mode \notin ErrorModes /\ self.buffers # <<>>
                 /\ Last(self.buffers) = <<>> -> "ended"
              [] OTHER -> "open",
  reader <- CASE self.state = "EOF_OR_ERROR_ACKNOWLEDGED" -> "done"
              [] self.state # "EOF_OR_ERROR_ACKNOWLEDGED" /\ ChannelEnded(self) ->
                   IF self.errcode THEN "error" ELSE "eof"
              [] OTHER -> "open"

ImplementsStream == Abstract!StreamSpec

Finished == self.mode \in ErrorModes \/ ChannelEnded(self)

(* What was fed is consumed in the end, unless an error or the consumer     *)
(* ends the stream.                                                         *)
DataIsDelivered == []<>(Len(taken) = fed \/ Finished)

(* Once EOF or an error was fed the consumer learns of it and the channel   *)
(* gets to its final state, unless it is recycled before.                   *)
EndIsDelivered == [](Ended(self) => <>(self.state = "EOF_OR_ERROR_ACKNOWLEDGED" \/ ~Ended(self)))

(* An I/O error of the buffer file cancels everything and is reported; it   *)
(* does not end in the use of a request that is already gone.               *)
IOErrorsAreReported == ~self.crashed
=============================================================================
