----------------------------- MODULE RequestBody -----------------------------
(***************************************************************************)
(* The body of a request: enc.go encodes into the one buffer a Connection  *)
(* has, client.go makes a request of it, and net/http reads it.            *)
(*                                                                         *)
(* The transport reads the body in a goroutine of its own, until it sees   *)
(* the end, and does not promise to be done when Do returns: an answer may *)
(* come early, the client's Timeout may cut the request off.  The client   *)
(* does not wait for it either, so that the next Marshal may meet a reader *)
(* of the request before.  The accesses are not synchronised; they are     *)
(* interleaved here step by step, and what a torn read could do beyond     *)
(* that (a panic in bytes.Buffer) is left out.                             *)
(*                                                                         *)
(* A body consists of cells <<n, i>>: the i-th event of body n, and for    *)
(* gzip what Close adds at the end.                                        *)
(***************************************************************************)
EXTENDS Naturals, SequencesExt

CONSTANTS
  Bodies,      \* how many bodies are published, one after the other
  Items,       \* the events in a body: 1, or a batch
  MaxRequests  \* bound: requests made, the repeated ones included

ASSUME BodyAssumption ==
  /\ Bodies \in Nat \ {0} /\ Items \in Nat \ {0} /\ MaxRequests \in Nat \ {0}

VARIABLES
  format,   \* "json" or "json_lines"
  gzip,     \* compression_level is not 0
  buf,      \* what the bytes.Buffer holds that was not read
  zbuf,     \* what the gzip.Writer holds
  zopen,    \* the gzip.Writer takes writes
  pc,       \* the client: "reset", "encode", "reader", "request", "do"
  body,     \* the body it publishes
  encoded,  \* the events of it that are encoded
  req,      \* the number of the last request
  length,   \* the Content-Length of each request
  sent,     \* what the transport sent as its body
  reading,  \* the requests whose body the transport still reads
  sawEnd,   \* those of them whose last read found the buffer empty
  shared,   \* the buffer was still being read when it was reset for this body
  owner,    \* the body each request was made for
  tainted,  \* requests that had to share the buffer with another body
  dropped   \* bodies taken for unencodable

encoder == <<format, gzip>>
reqVars == <<req, length, owner>>
history == <<owner, tainted, dropped>>
vars == <<encoder, buf, zbuf, zopen, pc, body, encoded, req, length, sent, reading,
          sawEnd, shared, history>>

Requests == 1 .. MaxRequests
Size     == IF gzip THEN Items + 1 ELSE Items
Content(n) == [i \in 1 .. Size |-> <<n, i>>]
Cells(from, to) == [i \in 1 .. to - from |-> <<body, from + i>>]

-----------------------------------------------------------------------------
(* The client: Marshal, Reader, NewRequest, Do                             *)

\* Reset does not ask who still reads.
Shares ==
  /\ shared' = (reading # {})
  /\ tainted' = tainted \cup reading

ResetKeepsBuffer ==                                                 \* mutant
  /\ pc = "reset" /\ body <= Bodies
  /\ zbuf' = <<>> /\ zopen' = gzip
  /\ encoded' = 0 /\ pc' = "encode" /\ Shares
  /\ UNCHANGED <<encoder, buf, body, reqVars, sent, reading, sawEnd, dropped>>
ResetKeepsGzip ==                                                   \* mutant
  /\ pc = "reset" /\ body <= Bodies
  /\ buf' = <<>> /\ zbuf' = <<>>
  /\ encoded' = 0 /\ pc' = "encode" /\ Shares
  /\ UNCHANGED <<encoder, zopen, body, reqVars, sent, reading, sawEnd, dropped>>
Reset ==
  /\ pc = "reset" /\ body <= Bodies
  /\ buf' = <<>> /\ zbuf' = <<>> /\ zopen' = gzip
  /\ encoded' = 0 /\ pc' = "encode" /\ Shares
  /\ UNCHANGED <<encoder, body, reqVars, sent, reading, sawEnd, dropped>>

\* json encodes a batch with one write, json_lines event by event.
Upto == IF format = "json" THEN Items ELSE encoded + 1

\* A closed gzip.Writer takes no writes; what cannot be encoded is reported and
\* not tried again.
Unencodable == gzip /\ ~zopen
Drop ==
  /\ dropped' = dropped \cup {body}
  /\ body' = body + 1 /\ pc' = "reset"
  /\ UNCHANGED <<buf, zbuf, zopen, encoded>>

AddItemsPast ==                                                     \* mutant
  /\ IF gzip THEN zbuf' = zbuf \o Cells(encoded, Upto) /\ UNCHANGED buf
             ELSE buf' = buf \o Cells(encoded, Upto) /\ UNCHANGED zbuf
  /\ encoded' = Upto
  /\ pc' = IF encoded = Items THEN "reader" ELSE "encode"
  /\ UNCHANGED <<zopen, body, dropped>>
AddItems ==
  /\ IF gzip THEN zbuf' = zbuf \o Cells(encoded, Upto) /\ UNCHANGED buf
             ELSE buf' = buf \o Cells(encoded, Upto) /\ UNCHANGED zbuf
  /\ encoded' = Upto
  /\ pc' = IF Upto = Items THEN "reader" ELSE "encode"
  /\ UNCHANGED <<zopen, body, dropped>>

Encode ==
  /\ pc = "encode"
  /\ IF Unencodable THEN Drop ELSE AddItems
  /\ UNCHANGED <<encoder, reqVars, sent, reading, sawEnd, shared, tainted>>

\* Reader closes the gzip.Writer: all it holds goes to the buffer.
ReaderNoClose ==                                                    \* mutant
  /\ pc = "reader"
  /\ pc' = "request"
  /\ UNCHANGED <<encoder, buf, zbuf, zopen, body, encoded, req, length, sent, reading,
                 sawEnd, shared, history>>
Reader ==
  /\ pc = "reader"
  /\ buf' = IF gzip THEN buf \o zbuf \o Cells(Items, Size) ELSE buf
  /\ zbuf' = <<>> /\ zopen' = FALSE
  /\ pc' = "request"
  /\ UNCHANGED <<encoder, body, encoded, req, length, sent, reading, sawEnd, shared, history>>

\* NewRequest takes the buffer's length at this moment; the transport begins to
\* read, unless there is nothing.
NewRequest ==
  /\ pc = "request" /\ req < MaxRequests
  /\ req' = req + 1
  /\ length' = [length EXCEPT ![req + 1] = Len(buf)]
  /\ owner' = [owner EXCEPT ![req + 1] = body]
  /\ tainted' = IF shared THEN tainted \cup {req + 1} ELSE tainted
  /\ reading' = IF buf = <<>> THEN reading ELSE reading \cup {req + 1}
  /\ pc' = "do"
  /\ UNCHANGED <<encoder, buf, zbuf, zopen, body, encoded, sent, sawEnd, shared, dropped>>

\* Do returns, with an answer or an error, perhaps before the body was sent:
\* the next body or, after a failure, the same one again.
DoReturns ==
  /\ pc = "do"
  /\ body' \in {body, body + 1}
  /\ pc' = "reset"
  /\ UNCHANGED <<encoder, buf, zbuf, zopen, encoded, req, length, sent, reading, sawEnd,
                 shared, history>>

-----------------------------------------------------------------------------
(* The transport                                                           *)

\* It sends no more than Content-Length, but reads on to find out that there
\* is no more; and it goes on with a request whose Do has returned.
Send(r) ==
  /\ r \in reading \ sawEnd /\ buf # <<>>
  /\ sent' = IF Len(sent[r]) < length[r]
               THEN [sent EXCEPT ![r] = Append(@, Head(buf))] ELSE sent
  /\ buf' = Tail(buf)
  /\ UNCHANGED <<encoder, zbuf, zopen, pc, body, encoded, req, length, reading, sawEnd,
                 shared, history>>

\* Buffer.Read of an empty buffer: it is found empty, ...
FindEmpty(r) ==
  /\ r \in reading \ sawEnd /\ buf = <<>>
  /\ sawEnd' = sawEnd \cup {r}
  /\ UNCHANGED <<encoder, buf, zbuf, zopen, pc, body, encoded, req, length, sent, reading,
                 shared, history>>

\* ... and reset.
EndOfBody(r) ==
  /\ r \in sawEnd
  /\ buf' = <<>>
  /\ reading' = reading \ {r} /\ sawEnd' = sawEnd \ {r}
  /\ UNCHANGED <<encoder, zbuf, zopen, pc, body, encoded, req, length, sent, shared, history>>

\* The connection broke or was closed: nothing more is read.
Abandon(r) ==
  /\ r \in reading \ sawEnd
  /\ reading' = reading \ {r}
  /\ UNCHANGED <<encoder, buf, zbuf, zopen, pc, body, encoded, req, length, sent, sawEnd,
                 shared, history>>

-----------------------------------------------------------------------------
Init ==
  /\ format \in {"json", "json_lines"} /\ gzip \in BOOLEAN
  /\ buf = <<>> /\ zbuf = <<>> /\ zopen = gzip
  /\ pc = "reset" /\ body = 1 /\ encoded = 0 /\ req = 0
  /\ length = [r \in Requests |-> 0] /\ sent = [r \in Requests |-> <<>>]
  /\ reading = {} /\ sawEnd = {} /\ shared = FALSE
  /\ owner = [r \in Requests |-> 0] /\ tainted = {} /\ dropped = {}

Next ==
  \/ Reset \/ Encode \/ Reader \/ NewRequest \/ DoReturns
  \/ \E r \in Requests : Send(r) \/ FindEmpty(r) \/ EndOfBody(r) \/ Abandon(r)

Spec == Init /\ [][Next]_vars

-----------------------------------------------------------------------------
(* Properties                                                              *)

AnyCell == (1 .. Bodies) \X (1 .. Items + 1)
IsCells(s) == Len(s) <= Size /\ Range(s) \subseteq AnyCell

\* Every variable has its type, and no buffer holds more than one body.
TypeOK ==
  /\ format \in {"json", "json_lines"} /\ gzip \in BOOLEAN
  /\ IsCells(buf) /\ IsCells(zbuf) /\ zopen \in BOOLEAN
  /\ pc \in {"reset", "encode", "reader", "request", "do"}
  /\ body \in 1 .. Bodies + 1 /\ encoded \in 0 .. Items
  /\ req \in 0 .. MaxRequests /\ length \in [Requests -> 0 .. Size]
  /\ DOMAIN sent = Requests /\ \A r \in Requests : IsCells(sent[r])
  /\ reading \subseteq 1 .. req /\ sawEnd \subseteq reading
  /\ owner \in [Requests -> 0 .. Bodies] /\ tainted \subseteq 1 .. req
  /\ shared \in BOOLEAN /\ dropped \subseteq 1 .. Bodies

\* The receiver has all that Content-Length announced, of a request whose Do may
\* have returned long ago.
Complete(r) == Len(sent[r]) = length[r]

\* A request that is complete for the receiver carries the whole body it was made
\* for and nothing else, whatever the requests before left in the buffers, and
\* also when it completes after its Do returned, unless it had to share the
\* buffer: the transport was still reading another request when its body was
\* encoded, or was still reading it when the buffer was reset for the next.
WholeUnlessShared ==
  \A r \in 1 .. req \ tainted : Complete(r) => sent[r] = Content(owner[r])

\* The answer the client waits for is never one to another body: a reader that is
\* not done can take away the head of the body, never put anything before it or
\* into it.
SuffixAtWorst == pc = "do" /\ Complete(req) => IsSuffix(sent[req], Content(body))

\* Nor does any request, shared or not and however late, carry what was published
\* before it: its own body comes first, and what a request that was answered
\* early reads on are later bodies, in their order.
NothingStale ==
  \A r \in 1 .. req : \A i, j \in 1 .. Len(sent[r]) :
    i <= j => owner[r] <= sent[r][i][1] /\ sent[r][i][1] <= sent[r][j][1]

\* No body is given up as unencodable because of what was encoded before.
NoneDropped == dropped = {}
=============================================================================
