----------------------------- MODULE BodyLimit ------------------------------
(***************************************************************************)
(* The body limit of core/limits.py around one HTTP request: the check of  *)
(* Content-Length, the counter on the receive channel and the guard on the *)
(* send channel.  Nothing is shared between requests.                      *)
(*                                                                         *)
(* The client sends whatever it likes, whatever it declared, and may hang  *)
(* up.  The application below is Starlette and a handler: it reads as much *)
(* of the body as it wants before it answers, and meets a disconnect with  *)
(* ClientDisconnect, or with an error response of its own.                 *)
(***************************************************************************)
EXTENDS Integers, Sequences

CONSTANTS
    MaxBytes,   \* the largest body accepted
    Chunks,     \* the sizes of the chunks a client sends
    Declared,   \* what Content-Length says, where it can be parsed
    NoLength,   \* no such header, or one that is no number
    MaxSent,    \* bound on what one client sends
    MaxParts    \* bound on the body messages of one response

ASSUME BodyLimitAssumption ==
    /\ MaxBytes \in Nat /\ MaxSent \in Nat /\ MaxParts \in Nat
    /\ Chunks \subseteq Nat
    /\ Declared \subseteq Int
    /\ NoLength \notin Declared

VARIABLES
    length,    \* the Content-Length of the request
    sent,      \* bytes the client has sent, as far as the server has read them
    ended,     \* the client has said that its body is complete
    gone,      \* the client has hung up
    received, exceeded, answered,   \* _Overrun
    handed,    \* bytes the handler has been given
    parts,     \* body messages the handler has sent
    wire,      \* what has gone out to the server
    pc

vars == <<length, sent, ended, gone, received, exceeded, answered, handed, parts, wire, pc>>

Init ==
    /\ length \in Declared \cup {NoLength}
    /\ sent = 0 /\ received = 0 /\ handed = 0 /\ parts = 0
    /\ ended = FALSE /\ gone = FALSE /\ exceeded = FALSE /\ answered = FALSE
    /\ wire = <<>>
    /\ pc = "scope"

\* _declared_length: absent or unparseable counts as zero.
DeclaredLength == IF length = NoLength THEN 0 ELSE length

\* _send_too_large: a complete response in two messages.
TooLarge == <<"413", "body">>

\* The call: refuse at once what is declared too large, guard the rest.
Refuse ==
    /\ pc = "scope" /\ DeclaredLength > MaxBytes
    /\ wire' = TooLarge
    /\ pc' = "done"
    /\ UNCHANGED <<length, sent, ended, gone, received, exceeded, answered, handed, parts>>

Guard ==
    /\ pc = "scope" /\ DeclaredLength <= MaxBytes
    /\ pc' = "reading"
    /\ UNCHANGED <<length, sent, ended, gone, received, exceeded, answered,
                   handed, parts, wire>>

\* A chunk goes on to the handler, or the stream is cut.
Pass(n) == handed' = handed + n /\ pc' = "reading" /\ UNCHANGED exceeded
Cut == exceeded' = TRUE /\ pc' = "cut" /\ UNCHANGED handed

\* Planted mistake: the chunk that passes the limit is still handed on.
CountedLate(n) ==
    /\ received' = received + n
    /\ IF received > MaxBytes THEN Cut ELSE Pass(n)

\* Planted mistake: a body of exactly the limit is refused.
CountedStrict(n) ==
    /\ received' = received + n
    /\ IF received + n >= MaxBytes THEN Cut ELSE Pass(n)

\* counted: a chunk that passes the limit reaches the handler as a disconnect.
Counted(n) ==
    /\ received' = received + n
    /\ IF received + n > MaxBytes THEN Cut ELSE Pass(n)

\* The handler reads, and the client sends a chunk, its last one or not.
Receive ==
    /\ pc = "reading" /\ ~ended /\ ~gone
    /\ \E n \in Chunks :
         /\ sent + n <= MaxSent
         /\ sent' = sent + n
         /\ Counted(n)
    /\ ended' \in BOOLEAN
    /\ UNCHANGED <<length, gone, answered, parts, wire>>

\* The handler reads, and the client has hung up: the message passes through.
HangUp ==
    /\ pc = "reading" /\ ~ended
    /\ gone' = TRUE
    /\ pc' = "cut"
    /\ UNCHANGED <<length, sent, ended, received, exceeded, answered, handed, parts, wire>>

\* The handler answers, having read as much as it wants or met a disconnect.
Respond ==
    /\ pc \in {"reading", "cut"}
    /\ pc' = "respond"
    /\ UNCHANGED <<length, sent, ended, gone, received, exceeded, answered,
                   handed, parts, wire>>

\* The 413, unless it has been sent.
AnswerOnce ==
    IF answered THEN UNCHANGED <<wire, answered>>
    ELSE answered' = TRUE /\ wire' = wire \o TooLarge

\* Planted mistake: every message of the handler is answered with a 413.
GuardedSendRepeats(message) ==
    /\ wire' = IF exceeded THEN wire \o TooLarge ELSE Append(wire, message)
    /\ UNCHANGED answered

\* guarded_send: past the limit the first message becomes the 413, and the
\* others are dropped.
GuardedSend(message) ==
    IF exceeded THEN AnswerOnce ELSE wire' = Append(wire, message) /\ UNCHANGED answered

SendStart ==
    /\ pc = "respond"
    /\ GuardedSend("start")
    /\ pc' = "streaming"
    /\ UNCHANGED <<length, sent, ended, gone, received, exceeded, handed, parts>>

SendBody ==
    /\ pc = "streaming" /\ parts < MaxParts
    /\ GuardedSend("body")
    /\ parts' = parts + 1
    /\ UNCHANGED <<length, sent, ended, gone, received, exceeded, handed, pc>>

Return ==
    /\ pc = "streaming" /\ parts > 0
    /\ pc' = "done"
    /\ UNCHANGED <<length, sent, ended, gone, received, exceeded, answered,
                   handed, parts, wire>>

\* Planted mistake: the error of the cut stream is passed on.
CatchPassedOn ==
    /\ pc = "cut"
    /\ pc' = "raised"
    /\ UNCHANGED <<length, sent, ended, gone, received, exceeded, answered,
                   handed, parts, wire>>

\* The handler raises ClientDisconnect, which is caught if the limit cut the
\* stream and raised again if the client did.
Catch ==
    /\ pc = "cut"
    /\ \/ /\ ~exceeded
          /\ pc' = "raised"
          /\ UNCHANGED <<wire, answered>>
       \/ /\ exceeded
          /\ pc' = "done"
          /\ AnswerOnce
    /\ UNCHANGED <<length, sent, ended, gone, received, exceeded, handed, parts>>

\* The request is over.
Over == pc \in {"done", "raised"} /\ UNCHANGED vars

App == Refuse \/ Guard \/ Respond \/ SendStart \/ SendBody \/ Return \/ Catch

Next == App \/ Receive \/ HangUp \/ Over

Spec == Init /\ [][Next]_vars

\* The event loop runs what can go on; the client need not send anything.
FairSpec == Spec /\ WF_vars(App)

-----------------------------------------------------------------------------
(* Properties *)

TypeOK ==
    /\ length \in Declared \cup {NoLength}
    /\ sent \in Nat /\ received \in Nat /\ handed \in Nat
    /\ ended \in BOOLEAN /\ gone \in BOOLEAN
    /\ exceeded \in BOOLEAN /\ answered \in BOOLEAN
    /\ parts \in 0..MaxParts
    /\ wire \in Seq({"start", "413", "body"})
    /\ pc \in {"scope", "reading", "cut", "respond", "streaming", "done", "raised"}

\* However the body is cut into chunks and whatever its header says, a handler
\* is never given more than the limit (limits.py counted, VAL-024).
HandlerWithinLimit == handed <= MaxBytes

Starts == {i \in 1..Len(wire) : wire[i] \in {"start", "413"}}

\* A client is sent one response: one start, first, whether the handler answers
\* the cut stream with an error of its own, in several messages, or raises, and
\* nothing follows a 413 but its own body (limits.py guarded_send).
OneResponse ==
    /\ wire # <<>> => Starts = {1}
    /\ wire # <<>> /\ wire[1] = "413" => wire = TooLarge

\* 413 is the answer to a request that is over, exactly when its body or its
\* declared length passed the limit: neither a 500 for the cut stream nor a 413
\* for a body that just fits (limits.py, API-051).
TooLargeIsTold ==
    pc \in {"done", "raised"} =>
        (wire = TooLarge <=> sent > MaxBytes \/ DeclaredLength > MaxBytes)

\* Why: the counter counts what is sent and the limit cuts the stream at once;
\* nothing is on the wire before the handler's start, which is a 413 from then
\* on or never.
CountInv ==
    /\ received = sent
    /\ exceeded <=> received > MaxBytes
    /\ handed <= received
    /\ exceeded => pc \notin {"scope", "reading", "raised"}

Started == wire # <<>> /\ wire[1] = "start" /\ \A i \in 2..Len(wire) : wire[i] = "body"

WireInv ==
    /\ pc \in {"scope", "reading", "cut", "respond", "raised"} => wire = <<>> /\ ~answered
    /\ pc \in {"streaming", "done"} =>
         IF exceeded THEN answered /\ wire = TooLarge
         ELSE ~answered /\ (Started \/ (pc = "done" /\ wire = TooLarge))
    /\ pc \in {"scope", "done"} \/ DeclaredLength <= MaxBytes
    /\ pc = "scope" => sent = 0
    /\ pc = "done" /\ ~exceeded => (wire = TooLarge <=> DeclaredLength > MaxBytes)

\* Once the limit is passed the answer needs nothing more of the client.
CutIsAnswered == exceeded ~> wire = TooLarge
=============================================================================
