----------------------------- MODULE ChatStream -----------------------------
(***************************************************************************)
(* A streamed answer: ChatStream with its SseDecoder (src/stream.rs) and   *)
(* AgentStream::next_text and finish on top of it (src/agent/runtime.rs).  *)
(* The server sends lines; the body arrives in frames that split it        *)
(* anywhere.  A line is abstracted to what it means:                       *)
(*   a text          a data line whose chunk carries this piece of content *)
(*   "empty"         a data line whose chunk carries no content            *)
(*   "tool"          a data line whose chunk carries tool calls            *)
(*   "done"          data: [DONE]                                          *)
(*   "bad"           a data line that is not the JSON of a chunk           *)
(*   "note"          a comment or another field                            *)
(*   "space"         white space only                                      *)
(* and is followed by the line end of this server, LF or CR LF, which are  *)
(* characters of their own: a frame may end between them.  (Where a frame   *)
(* ends inside a line makes no difference: the line is not decoded before  *)
(* its blank line, and half of it is already more than white space.)  A    *)
(* chunk spread over several data lines is not modelled.                   *)
(***************************************************************************)
EXTENDS Naturals, Sequences

CONSTANTS Texts,       \* the pieces of the answer; each is sent once at most
          MaxLines,    \* bound: lines of the body
          MaxFrame     \* bound: characters of a frame

(* What a line means tells the texts from everything else.                 *)
ASSUME StreamAssumption ==
  /\ MaxLines \in Nat /\ MaxFrame \in Nat \ {0}
  /\ Texts \cap {"empty", "tool", "done", "bad", "note", "space", "CR", "LF"} = {}

VARIABLES
  eol,       \* the line end the server uses
  wire,      \* auxiliary: all that arrived
  body,      \* "open", or "ended": frame() returns None from now on
  buffer,    \* SseDecoder::buffer
  pending,   \* ChatStream::pending
  done,      \* ChatStream::done
  read,      \* AgentStream::done: next_text has returned None
  content,   \* AgentStream::content, as the texts it is made of
  at,        \* what the owner of the AgentStream is doing
  returned,  \* auxiliary: the texts next_text returned to the owner
  failed     \* auxiliary: next_text has returned an error

vars == <<eol, wire, body, buffer, pending, done, read, content, at, returned, failed>>

ChunkTokens == Texts \cup {"empty", "tool"}
DataTokens  == ChunkTokens \cup {"done", "bad"}
LineTokens  == DataTokens \cup {"note", "space"}
Chars == LineTokens \cup {"CR", "LF"}

Init ==
  /\ eol \in {<<"LF">>, <<"CR", "LF">>}
  /\ wire = <<>> /\ body = "open"
  /\ buffer = <<>> /\ pending = <<>> /\ done = FALSE
  /\ read = FALSE /\ content = <<>>
  /\ at = "idle" /\ returned = <<>> /\ failed = FALSE

-----------------------------------------------------------------------------
(***************************************************************************)
(* SseDecoder.                                                             *)
(***************************************************************************)

StartsWith(b, p, s) == p + Len(s) - 1 <= Len(b) /\ SubSeq(b, p, p + Len(s) - 1) = s

(* The delimiters find_event_delimiter looks for, and where they begin.    *)
Delimiters == {<<"LF", "LF">>, <<"CR", "LF", "CR", "LF">>}
DelimiterAt(b, p) == \E d \in Delimiters : StartsWith(b, p, d)
HasDelimiter(b) == \E p \in 1..Len(b) : DelimiterAt(b, p)

FirstDelimiter(b) ==
  CHOOSE p \in 1..Len(b) : DelimiterAt(b, p) /\ \A q \in 1..(p - 1) : ~DelimiterAt(b, q)

DelimiterLen(b, p) == IF StartsWith(b, p, <<"LF", "LF">>) THEN 2 ELSE 4

(* The characters of b that are in S, in order. *)
Kept(b, S) ==
  LET kept[i \in 0..Len(b)] ==
        IF i = 0 THEN <<>>
        ELSE IF b[i] \in S THEN Append(kept[i - 1], b[i]) ELSE kept[i - 1]
  IN kept[Len(b)]

DataLines(event) == Kept(event, DataTokens)

(* parse_event: the data lines are joined, and no two of them are a chunk. *)
Parses(event) ==
  LET data == DataLines(event)
  IN data = <<>> \/ (Len(data) = 1 /\ data[1] # "bad")

(* One turn of the loop of push: the first event of the rest is taken off, *)
(* unless there is none or one did not parse.                              *)
Turn(d) ==
  IF ~d.ok \/ ~HasDelimiter(d.rest) THEN d
  ELSE LET p == FirstDelimiter(d.rest)
           event == SubSeq(d.rest, 1, p - 1)
       IN [ok     |-> Parses(event),
           events |-> d.events \o DataLines(event),
           rest   |-> SubSeq(d.rest, p + DelimiterLen(d.rest, p), Len(d.rest))]

(* The loop of push.  A turn takes at least the two bytes of a delimiter.  *)
Decode(bytes) ==
  LET after[turns \in 0..Len(bytes)] ==
        IF turns = 0 THEN [ok |-> TRUE, events |-> <<>>, rest |-> bytes]
        ELSE Turn(after[turns - 1])
  IN after[Len(bytes) \div 2]

(* Mutated: one event of every frame is decoded, not all of them.          *)
PushOne(frame) == Turn([ok |-> TRUE, events |-> <<>>, rest |-> buffer \o frame])

(* push: an error discards the events decoded before it in this frame.     *)
Push(frame) == Decode(buffer \o frame)

(* Mutated: what is left in the buffer is not looked at.                   *)
NoPartialEvent == FALSE

HasPartialEvent == \E i \in 1..Len(buffer) : buffer[i] \notin {"CR", "LF", "space"}

-----------------------------------------------------------------------------
(***************************************************************************)
(* What the owner does with the AgentStream.                               *)
(***************************************************************************)

NextText ==
  /\ at = "idle" /\ ~read
  /\ at' = "reading"
  /\ UNCHANGED <<eol, wire, body, buffer, pending, done, read, content, returned, failed>>

(* finish: next_text is called until it returns None. *)
Finish ==
  /\ at = "idle"
  /\ at' = IF read THEN "answered" ELSE "draining"
  /\ UNCHANGED <<eol, wire, body, buffer, pending, done, read, content, returned, failed>>

Reading == at \in {"reading", "draining"}

(* The await of next_event: body.frame(). *)
Awaiting == Reading /\ pending = <<>> /\ ~done

(* The future of next_text is dropped. *)
CancelNextText ==
  /\ at = "reading" /\ Awaiting
  /\ at' = "idle"
  /\ UNCHANGED <<eol, wire, body, buffer, pending, done, read, content, returned, failed>>

(* The AgentStream is dropped, or the future of finish, which owns it. *)
Drop ==
  /\ at = "idle" \/ Awaiting
  /\ at' = "dropped"
  /\ UNCHANGED <<eol, wire, body, buffer, pending, done, read, content, returned, failed>>

-----------------------------------------------------------------------------
(***************************************************************************)
(* next_event and next_text.                                               *)
(***************************************************************************)

ReturnsText(t) ==
  /\ at' = IF at = "reading" THEN "idle" ELSE at
  /\ returned' = IF at = "reading" THEN Append(returned, t) ELSE returned
  /\ UNCHANGED failed

ReturnsNone ==
  /\ at' = IF at = "reading" THEN "idle" ELSE "answered"
  /\ UNCHANGED <<returned, failed>>

ReturnsError ==
  /\ at' = IF at = "reading" THEN "idle" ELSE "dropped"
  /\ failed' = TRUE
  /\ UNCHANGED returned

(* What the server may send after what it sent. *)
LineStart(b) == b = <<>> \/ b[Len(b)] = "LF"
LinesOf(b) == Len(Kept(b, {"LF"}))

MayFollow(b, c) ==
  \/ /\ c \in LineTokens /\ LineStart(b) /\ LinesOf(b) < MaxLines
     /\ c \in Texts => \A i \in 1..Len(b) : b[i] # c
  \/ c = "CR" /\ Len(eol) = 2 /\ (b # <<>> => b[Len(b)] # "CR") /\ LinesOf(b) < MaxLines
  \/ c = "LF" /\ (Len(eol) = 2 => b # <<>> /\ b[Len(b)] = "CR") /\ LinesOf(b) < MaxLines

(* The frames that may come next. *)
Frames ==
  LET of[n \in 0..MaxFrame] ==
        IF n = 0 THEN {<<>>}
        ELSE of[n - 1] \cup
             UNION {{Append(f, c) : c \in {d \in Chars : MayFollow(wire \o f, d)}} : f \in of[n - 1]}
  IN of[MaxFrame] \ {<<>>}

(* A frame with data arrives.  (One without is skipped.) *)
Frame ==
  /\ Awaiting /\ body = "open"
  /\ \E frame \in Frames :
       LET pushed == Push(frame) IN
       /\ wire' = wire \o frame
       /\ buffer' = pushed.rest
       /\ IF pushed.ok
          THEN pending' = pushed.events /\ UNCHANGED <<at, returned, failed>>
          ELSE ReturnsError /\ UNCHANGED pending
  /\ UNCHANGED <<eol, body, done, read, content>>

(* The connection breaks in the middle of the body. *)
Breaks ==
  /\ Awaiting /\ body = "open"
  /\ body' = "ended"
  /\ ReturnsError
  /\ UNCHANGED <<eol, wire, buffer, pending, done, read, content>>

(* frame() returns None: an error in the middle of an event, otherwise the *)
(* end of the stream, [DONE] or not.                                       *)
BodyEnds ==
  /\ Awaiting
  /\ body' = "ended"
  /\ IF HasPartialEvent
     THEN ReturnsError /\ UNCHANGED <<done, read>>
     ELSE done' = TRUE /\ read' = TRUE /\ ReturnsNone
  /\ UNCHANGED <<eol, wire, buffer, pending, content>>

Pop(e) ==
  /\ Reading /\ pending # <<>> /\ e = Head(pending)
  /\ pending' = Tail(pending)
  /\ UNCHANGED <<eol, wire, body, buffer>>

(* Mutated: the text is returned but kept for finish only when it drains.  *)
PopTextUnkept(e) ==
  /\ Pop(e) /\ e \in Texts
  /\ content' = IF at = "draining" THEN Append(content, e) ELSE content
  /\ ReturnsText(e)
  /\ UNCHANGED <<done, read>>

PopText(e) ==
  /\ Pop(e) /\ e \in Texts
  /\ content' = Append(content, e)
  /\ ReturnsText(e)
  /\ UNCHANGED <<done, read>>

(* A chunk without content: the loop goes on. *)
PopEmpty == Pop("empty") /\ UNCHANGED <<done, read, content, at, returned, failed>>

(* StreamingToolCallsUnsupported *)
PopTool == Pop("tool") /\ ReturnsError /\ UNCHANGED <<done, read, content>>

PopDone ==
  /\ Pop("done")
  /\ done' = TRUE /\ read' = TRUE
  /\ ReturnsNone
  /\ UNCHANGED content

Next ==
  \/ NextText \/ Finish \/ CancelNextText \/ Drop
  \/ Frame \/ Breaks \/ BodyEnds
  \/ \E e \in Texts : PopText(e)
  \/ PopEmpty \/ PopTool \/ PopDone

Spec == Init /\ [][Next]_vars

-----------------------------------------------------------------------------
(***************************************************************************)
(* Properties.                                                             *)
(***************************************************************************)

TextsIn(b) == Kept(b, Texts)

(* The tokens of the wire that belong to a complete event: a blank line    *)
(* has arrived after them.  Stated on what was sent, not by the decoder.   *)
BlankLineEnds(b, j) ==
  b[j] = "LF" /\ LET line == IF j > 1 /\ b[j-1] = "CR" THEN j - 1 ELSE j
                 IN line > 1 /\ b[line-1] = "LF"
CompletePart(b) ==
  LET ends == {j \in 1..Len(b) : BlankLineEnds(b, j)}
  IN IF ends = {} THEN <<>>
     ELSE SubSeq(b, 1, CHOOSE j \in ends : \A k \in ends : k <= j)

(* What the wire holds before the first data: [DONE]. *)
BeforeDone(b) ==
  LET dones == {i \in 1..Len(b) : b[i] = "done"}
  IN IF dones = {} THEN b
     ELSE SubSeq(b, 1, (CHOOSE i \in dones : \A k \in dones : i <= k) - 1)

(* However the frames cut the body, as long as there was no error the      *)
(* texts taken and the texts still pending are those of the events whose   *)
(* blank line has arrived, in order, each once: no event is decoded early, *)
(* late, twice or not at all.                                              *)
DecodedInOrder ==
  ~failed => content \o TextsIn(pending) = TextsIn(CompletePart(wire))

(* finish succeeds, when no call failed before it, only with all the text  *)
(* the server sent before [DONE], or before the end of the body when there *)
(* was no [DONE]: an event cut off by the end of the body is an error and  *)
(* not a shorter answer.                                                   *)
AnswerWhole ==
  at = "answered" /\ ~failed => content = TextsIn(BeforeDone(wire))

(* While the owner reads, also after errors and dropped next_text futures, *)
(* the text that finish would save is the text next_text returned: what    *)
(* the user saw is what the session keeps.                                 *)
ReturnedIsRead == at \in {"idle", "reading"} => returned = content

(* After [DONE], or the end of the body, nothing is added to the answer,   *)
(* though events may be left in pending and finish reads until None.       *)
FusedAfterDone == [][done => done' /\ content' = content]_vars
=============================================================================
