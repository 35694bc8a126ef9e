------------------------------ MODULE Response ------------------------------
\* Writing one matched response (internal/response): the delay it owes, the
\* faults, the error answers, and a body that goes out whole or in pieces,
\* through net/http or over a connection taken from it for a reason phrase.
\* A byte of the body is its position; text, header names and the rest of the
\* headers are left out.
EXTENDS Integers, Sequences

CONSTANTS
  Exchanges,   \* [resp : a CompiledResponse, global : the Settings, head : HEAD?,
               \*  hijack : can the connection be taken?, slack : write slack]
  MaxDuration, \* the largest time.Duration
  MaxStall     \* how long the client may keep the writes waiting

VARIABLES
  exchange, stage,
  clock,    \* since Write was called
  deadline, \* when the connection stops taking writes
  body,     \* the bytes to be sent
  piece,    \* pieces of the body written
  wire,     \* what went out: [status, framing, bytes, ended]
  recorded, \* the status finish was given
  stalled,  \* how long the client has kept the writes waiting
  left      \* the client is gone

writeVars == <<exchange, stage, clock, deadline, body, piece, wire, recorded, stalled, left>>

Unset == -1   \* no Content-Length, no deadline, nothing recorded
Invalid == -2  \* a Content-Length that is not a length

NoDribble == [chunks |-> 0, total |-> 0]

Smaller(m, n) == IF m < n THEN m ELSE n
Bytes(n) == [i \in 1..n |-> i]
Resp == exchange.resp

\* What compiling a response, or the settings, has made sure of: no dribble runs
\* backwards, and a distribution has the numbers it is drawn from.  (A dribble
\* of more than 292 years, which a Duration cannot hold, is left out.)
Drawable(d) ==
  \/ d.kind = "none"
  \/ d.kind = "uniform" /\ d.lower \in Int /\ d.upper \in Int
  \/ d.kind = "lognormal" /\ d.median \in Int

CompiledResponse(resp) ==
  /\ resp.size \in Nat /\ resp.rendered \in Nat
  /\ resp.declared \in Nat \cup {Unset, Invalid}
  /\ resp.dribble \in [chunks : Nat, total : Nat]
  /\ resp.fixed \in Int /\ Drawable(resp.delay)

CompiledExchanges ==
  /\ MaxDuration \in Nat /\ MaxStall \in Nat
  /\ \A e \in Exchanges : /\ CompiledResponse(e.resp) /\ e.slack \in Nat
                           /\ e.global.fixed \in Int /\ Drawable(e.global.delay)

Nothing == [status |-> 0, framing |-> <<"none">>, bytes |-> <<>>, ended |-> FALSE]

WriteInit ==
  /\ exchange \in Exchanges
  /\ stage = "matched" /\ clock = 0 /\ deadline = Unset /\ body = <<>> /\ piece = 0
  /\ wire = Nothing /\ recorded = Unset /\ stalled = 0 /\ left = FALSE

-----------------------------------------------------------------------------
\* drawDelay: what the configured distribution may answer.
DrawDelay(d) ==
  CASE d.kind = "none"      -> {0}
    [] d.kind = "uniform"   -> IF d.upper <= d.lower THEN {d.lower} ELSE d.lower..d.upper
    [] d.kind = "lognormal" -> IF d.median <= 0 THEN {0} ELSE {0, d.median, MaxDuration}

\* Duration addition wraps.
Wrap(v) == IF v > MaxDuration THEN v - 2 * (MaxDuration + 1) ELSE v

\* composeDelay: within each part, what the stub declares replaces the
\* global value.  Settings nobody wrote compose as zero ones.
ComposeDelay(resp, global) ==
  LET fixed == IF resp.fixedSet THEN resp.fixed ELSE global.fixed
      dist == IF resp.delay.kind = "none" THEN global.delay ELSE resp.delay
  IN {Wrap(fixed + sample) : sample \in DrawDelay(dist)}

\* The wait before anything else: to its end, or until the client goes.
AwaitDelay ==
  /\ stage = "matched"
  /\ stage' = "delayed"
  /\ \E total \in ComposeDelay(Resp, exchange.global) :
       \/ clock' = clock + (IF total > 0 THEN total ELSE 0) /\ UNCHANGED left
       \/ total > 0 /\ clock' \in clock..(clock + total - 1) /\ left' = TRUE
  /\ UNCHANGED <<exchange, deadline, body, piece, wire, recorded, stalled>>

\* Engine.finish, after Write came back with a status.
Finish(status) == stage' = "finished" /\ recorded' = status

\* A fault is written below HTTP; where the connection cannot be taken it
\* panics, and finish is never reached.
InjectFault ==
  /\ stage = "delayed" /\ Resp.fault # "none"
  /\ \/ exchange.hijack /\ Finish(0) /\ wire' = [Nothing EXCEPT !.framing = <<"broken">>]
     \/ ~exchange.hijack /\ stage' = "aborted" /\ UNCHANGED <<recorded, wire>>
  /\ UNCHANGED <<exchange, clock, deadline, body, piece, stalled, left>>

\* An answer of the server's own: its text is no part of the stub's body.
ErrorAnswer == Finish(500) /\ wire' = [Nothing EXCEPT !.status = 500, !.framing = <<"error">>]

AnswerFileMissing ==
  /\ stage = "delayed" /\ Resp.fault = "none" /\ Resp.bodyFileMissing
  /\ ErrorAnswer
  /\ UNCHANGED <<exchange, clock, deadline, body, piece, stalled, left>>

\* Mutant of Budget: the time a dribble takes is not allowed for.
BudgetIsSlack(resp, slack) == slack

\* setDeadline, and the same sum in writeWithReason.
Budget(resp, slack) == slack + resp.dribble.total

\* clampToDeclaredLength: net/http refuses a write past the declared length.
Clamp(declared, b) ==
  IF declared >= 0 /\ declared < Len(b) THEN SubSeq(b, 1, declared) ELSE b

\* The deadline is set once the delay is over; then the templates are rendered
\* and the headers, with the length the stub may declare, are in place.
Prepare ==
  /\ stage = "delayed" /\ Resp.fault = "none" /\ ~Resp.bodyFileMissing
  /\ deadline' = IF exchange.slack > 0 THEN clock + Budget(Resp, exchange.slack) ELSE Unset
  /\ \/ Resp.template = "fails" /\ ErrorAnswer /\ UNCHANGED body
     \/ /\ Resp.template # "fails"
        /\ body' = Clamp(Resp.declared, Bytes(IF Resp.template = "renders" THEN Resp.rendered ELSE Resp.size))
        /\ stage' = "framing"
        /\ UNCHANGED <<recorded, wire>>
  /\ UNCHANGED <<exchange, clock, piece, stalled, left>>

-----------------------------------------------------------------------------
\* dribblePlan, and the one write of a body that is not dribbled.
DribblePlan(resp, n) ==
  IF resp.dribble = NoDribble \/ n = 0 THEN [chunks |-> 1, size |-> n, gap |-> 0]
  ELSE LET least == Smaller(resp.dribble.chunks, n)
           chunks == IF least < 1 THEN 1 ELSE least
       IN [chunks |-> chunks, size |-> n \div chunks, gap |-> resp.dribble.total \div chunks]

Taken == Resp.hasStatusMessage /\ exchange.hijack  \* writeWithReason takes the connection

\* net/http sends an informational status ahead of the response, 101 apart, and
\* the body then goes out under a 200 (external).
Informational == Resp.status \in (100..199) \ {101} /\ ~Taken
FinalStatus == IF Informational THEN 200 ELSE Resp.status

\* What carries no body, for writeWithReason and for net/http.
Bodyless == FinalStatus \in (100..199) \cup {204, 304}

\* writeWithReason: a transfer coding wins over a length, and a length the stub
\* declares is written as it stands.
ReasonFraming ==
  IF Resp.coding # "none" THEN <<"chunked">>
  ELSE IF Resp.declared = Unset THEN <<"length", Len(body)>> ELSE <<"length", Resp.declared>>

\* net/http: a transfer coding wins over a valid length, which is deleted; without
\* either, a body flushed before its handler returns is chunked, and any other has
\* its length counted.
NetHttpFraming ==
  IF Resp.coding # "none" THEN <<"chunked">>
  ELSE IF Resp.declared >= 0 THEN <<"length", Resp.declared>>
  ELSE IF Resp.dribble # NoDribble /\ body # <<>> THEN <<"chunked">>
  ELSE <<"length", Len(body)>>

\* The pauses of a dribble whose bytes net/http drops (HEAD) or refuses.
Pauses ==
  LET plan == DribblePlan(Resp, Len(body))
  IN IF Taken THEN 0 ELSE IF Bodyless THEN plan.gap ELSE plan.gap * plan.chunks

\* The status line and the headers.  Nothing follows them for a HEAD request or
\* a status that has no body.
WriteHeaders ==
  /\ stage = "framing"
  /\ IF exchange.head \/ Bodyless
       THEN /\ Finish(Resp.status) /\ clock' = clock + Pauses
            /\ wire' = [status |-> FinalStatus, framing |-> <<"none">>, bytes |-> <<>>, ended |-> TRUE]
       ELSE /\ stage' = "writing" /\ UNCHANGED <<recorded, clock>>
            /\ wire' = [Nothing EXCEPT !.status = FinalStatus,
                                       !.framing = IF Taken THEN ReasonFraming ELSE NetHttpFraming]
  /\ UNCHANGED <<exchange, deadline, body, piece, stalled, left>>

Late == deadline # Unset /\ clock' > deadline

\* dribble, dribbleTo and the single write: a pause, a piece, the last one
\* taking what the division leaves.  A client that reads slowly holds up the
\* write, and one that is late ends the response.
WritePiece ==
  LET plan == DribblePlan(Resp, Len(body))
      last == piece = plan.chunks - 1
      from == piece * plan.size
      to == IF last THEN Len(body) ELSE from + plan.size
  IN /\ stage = "writing"
     /\ \E stall \in 0..(MaxStall - stalled) :
          clock' = clock + plan.gap + stall /\ stalled' = stalled + stall
     /\ IF Late THEN Finish(Resp.status) /\ UNCHANGED <<piece, wire>>
        ELSE /\ piece' = piece + 1
             /\ wire' = [wire EXCEPT !.bytes = @ \o SubSeq(body, from + 1, to), !.ended = last]
             /\ IF last THEN Finish(Resp.status) ELSE UNCHANGED <<stage, recorded>>
     /\ UNCHANGED <<exchange, deadline, body, left>>

WriteNext == AwaitDelay \/ InjectFault \/ AnswerFileMissing \/ Prepare \/ WriteHeaders \/ WritePiece

WriteSpec == WriteInit /\ [][WriteNext]_writeVars

-----------------------------------------------------------------------------
\* The message the client has in hand ends where its framing says.
Complete ==
  CASE wire.framing[1] = "length"  -> Len(wire.bytes) = wire.framing[2]
    [] wire.framing[1] = "chunked" -> wire.ended
    [] OTHER                       -> TRUE

\* SPEC 12.6, and the comments of clampToDeclaredLength, dribblePlan and
\* writeWithReason: however a stub asks for its body, a client that stays and
\* keeps no write waiting for longer than the slack reads exactly the bytes the
\* stub is to send, up to the length it declares, and none after a HEAD or under
\* a status without a body.  The message ends where its framing says, unless
\* the stub declared more bytes than it has, or declared something that is no
\* length on a connection taken for a reason phrase.  An informational status is
\* not the one the client ends up with.
WholeMessage ==
  (stage = "finished" /\ recorded \notin {0, 500} /\ ~left /\ (exchange.slack = 0 \/ stalled <= exchange.slack)) =>
    LET held == IF Resp.template = "renders" THEN Resp.rendered ELSE Resp.size
        owed == IF exchange.head \/ Bodyless THEN 0
                ELSE IF Resp.declared < 0 THEN held ELSE Smaller(Resp.declared, held)
    IN /\ wire.status = Resp.status \/ Informational
       /\ wire.bytes = Bytes(owed)
       /\ Complete \/ Resp.declared > held \/ (Taken /\ Resp.declared = Invalid)
=============================================================================
