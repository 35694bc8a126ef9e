--------------------------- MODULE ResponseProofs ---------------------------
(***************************************************************************)
(* Proofs about Response, for every compiled response, body, delay,        *)
(* dribble, slack and client.                                              *)
(*                                                                         *)
(* The invariant follows two sums.  The bytes on the wire are the pieces   *)
(* written times their size, which the plan keeps within the body; and     *)
(* from the moment the deadline was set the clock has moved by the pieces  *)
(* written times the pause between them, which the plan keeps within the   *)
(* dribble's duration, and by what the client has stalled.  So only a      *)
(* client that stalls for longer than the slack is late.                   *)
(***************************************************************************)
EXTENDS Response, SequenceTheorems, TLAPS

-----------------------------------------------------------------------------
(* The plan.                                                               *)

(* Dividing and multiplying back does not exceed. *)
LEMMA Quotient ==
  ASSUME NEW a \in Nat, NEW b \in Nat \ {0}
  PROVE  (a \div b) \in Nat /\ b * (a \div b) <= a
OBVIOUS

(* Fewer of the same are less. *)
LEMMA Multiples ==
  ASSUME NEW p \in Nat, NEW q \in Nat, NEW s \in Nat, p <= q
  PROVE  /\ p * s \in Nat /\ q * s \in Nat
         /\ p * s <= q * s
         /\ (p + 1) * s = p * s + s
         /\ 0 * s = 0
OBVIOUS

(* dribblePlan has a piece at least, and what its pieces and its pauses come *)
(* to is within the body and within the duration the stub asked for.         *)
LEMMA PlanFits ==
  ASSUME NEW resp, resp.dribble \in [chunks : Nat, total : Nat], NEW n \in Nat
  PROVE  LET plan == DribblePlan(resp, n)
         IN /\ plan.chunks \in Nat \ {0} /\ plan.size \in Nat /\ plan.gap \in Nat
            /\ plan.chunks * plan.size <= n
            /\ plan.chunks * plan.gap <= resp.dribble.total
<1> DEFINE c == resp.dribble.chunks
           t == resp.dribble.total
           least == Smaller(c, n)
           k == IF least < 1 THEN 1 ELSE least
<1>1. c \in Nat /\ t \in Nat
  OBVIOUS
<1>2. CASE resp.dribble = NoDribble \/ n = 0
  <2>1. DribblePlan(resp, n) = [chunks |-> 1, size |-> n, gap |-> 0]
    BY <1>2 DEF DribblePlan
  <2> QED BY <1>1, <2>1
<1>3. CASE ~(resp.dribble = NoDribble \/ n = 0)
  <2>1. DribblePlan(resp, n) = [chunks |-> k, size |-> n \div k, gap |-> t \div k]
    BY <1>3 DEF DribblePlan
  <2>2. k \in Nat \ {0}
    BY <1>1 DEF Smaller
  <2> HIDE DEF k, t
  <2>3. (n \div k) \in Nat /\ k * (n \div k) <= n
    BY <2>2, Quotient
  <2>4. (t \div k) \in Nat /\ k * (t \div k) <= t
    BY <1>1, <2>2, Quotient
  <2> QED BY <2>1, <2>2, <2>3, <2>4 DEF t
<1> QED BY <1>2, <1>3

-----------------------------------------------------------------------------
(* Bytes.                                                                  *)

(* A body is a sequence of its length. *)
LEMMA BytesSeq ==
  ASSUME NEW n \in Nat
  PROVE  /\ Bytes(n) \in Seq(Nat)
         /\ Len(Bytes(n)) = n
         /\ \A i \in 1..n : Bytes(n)[i] = i
<1>1. Bytes(n) \in [1..n -> Nat]
  BY DEF Bytes
<1>2. Bytes(n) \in Seq(Nat)
  BY <1>1, SeqDef
<1>3. DOMAIN Bytes(n) = 1..n
  BY DEF Bytes
<1>4. DOMAIN Bytes(n) = 1..Len(Bytes(n)) /\ Len(Bytes(n)) \in Nat
  BY <1>2, LenProperties
<1>5. Len(Bytes(n)) = n
  BY <1>3, <1>4
<1>6. \A i \in 1..n : Bytes(n)[i] = i
  BY DEF Bytes
<1> QED BY <1>2, <1>5, <1>6

(* What is cut from a body. *)
LEMMA Cut ==
  ASSUME NEW n \in Nat, NEW a \in Nat, NEW b \in Nat, a <= b, b <= n
  PROVE  LET cut == SubSeq(Bytes(n), a + 1, b)
         IN /\ cut \in Seq(Nat)
            /\ Len(cut) = b - a
            /\ \A i \in 1..(b - a) : cut[i] = a + i
<1> DEFINE cut == SubSeq(Bytes(n), a + 1, b)
           m == a + 1
<1>1. \A i \in m..b : i \in 1..n
  OBVIOUS
<1>2. \A i \in m..b : Bytes(n)[i] \in Nat
  BY <1>1, BytesSeq
<1>3. m \in Int /\ b \in Int
  OBVIOUS
<1> HIDE DEF m
<1>4. /\ SubSeq(Bytes(n), m, b) \in Seq(Nat)
      /\ Len(SubSeq(Bytes(n), m, b)) = IF m <= b THEN b - m + 1 ELSE 0
      /\ \A i \in 1..(b - m + 1) : SubSeq(Bytes(n), m, b)[i] = Bytes(n)[m + i - 1]
  BY <1>2, <1>3, SubSeqProperties
<1>5. cut \in Seq(Nat)
  BY <1>4 DEF m
<1>6. Len(cut) = b - a
  BY <1>4 DEF m
<1>7. ASSUME NEW i \in 1..(b - a) PROVE cut[i] = a + i
  <2>1. i \in 1..(b - m + 1) /\ m + i - 1 = a + i /\ a + i \in 1..n
    BY DEF m
  <2>2. SubSeq(Bytes(n), m, b)[i] = Bytes(n)[a + i]
    BY <1>4, <2>1
  <2>3. Bytes(n)[a + i] = a + i
    BY <2>1, BytesSeq
  <2> QED BY <2>2, <2>3 DEF m
<1> HIDE DEF cut
<1> QED BY <1>5, <1>6, <1>7 DEF cut

(* The first bytes of a body are a shorter body. *)
LEMMA CutFromStart ==
  ASSUME NEW n \in Nat, NEW b \in Nat, b <= n
  PROVE  SubSeq(Bytes(n), 1, b) = Bytes(b)
<1>1. PICK a \in Nat : a = 0
  OBVIOUS
<1>2. /\ SubSeq(Bytes(n), a + 1, b) \in Seq(Nat)
      /\ Len(SubSeq(Bytes(n), a + 1, b)) = b - a
      /\ \A i \in 1..(b - a) : SubSeq(Bytes(n), a + 1, b)[i] = a + i
  <2>1. a <= b
    BY <1>1
  <2> QED BY <2>1, Cut
<1>3. a + 1 = 1 /\ b - a = b /\ \A i \in 1..b : a + i = i
  BY <1>1
<1>4. /\ SubSeq(Bytes(n), 1, b) \in Seq(Nat)
      /\ Len(SubSeq(Bytes(n), 1, b)) = b
      /\ \A i \in 1..b : SubSeq(Bytes(n), 1, b)[i] = i
  BY <1>2, <1>3
<1>5. /\ Bytes(b) \in Seq(Nat) /\ Len(Bytes(b)) = b
      /\ \A i \in 1..b : Bytes(b)[i] = i
  BY BytesSeq
<1> HIDE DEF Bytes
<1> QED BY <1>4, <1>5, SeqEqual

(* A piece that begins where the wire stops takes it further. *)
LEMMA PieceExtends ==
  ASSUME NEW n \in Nat, NEW a \in Nat, NEW b \in Nat, a <= b, b <= n
  PROVE  Bytes(a) \o SubSeq(Bytes(n), a + 1, b) = Bytes(b)
<1> DEFINE cut == SubSeq(Bytes(n), a + 1, b)
           all == Bytes(a) \o cut
<1>1. cut \in Seq(Nat) /\ Len(cut) = b - a /\ \A i \in 1..(b - a) : cut[i] = a + i
  BY Cut
<1>2. /\ Bytes(a) \in Seq(Nat) /\ Len(Bytes(a)) = a
      /\ \A i \in 1..a : Bytes(a)[i] = i
  BY BytesSeq
<1>3. /\ Bytes(b) \in Seq(Nat) /\ Len(Bytes(b)) = b
      /\ \A i \in 1..b : Bytes(b)[i] = i
  BY BytesSeq
<1> HIDE DEF cut
<1>4. /\ all \in Seq(Nat)
      /\ Len(all) = Len(Bytes(a)) + Len(cut)
      /\ \A i \in 1..(Len(Bytes(a)) + Len(cut)) :
           all[i] = IF i <= Len(Bytes(a)) THEN Bytes(a)[i] ELSE cut[i - Len(Bytes(a))]
  BY <1>1, <1>2, ConcatProperties
<1> HIDE DEF all
<1>5. Len(all) = b
  BY <1>1, <1>2, <1>4
<1>6. ASSUME NEW i \in 1..b PROVE all[i] = i
  <2>1. all[i] = IF i <= a THEN Bytes(a)[i] ELSE cut[i - a]
    BY <1>1, <1>2, <1>4
  <2>2. CASE i <= a
    <3>1. i \in 1..a
      BY <2>2
    <3> QED BY <1>2, <2>1, <2>2, <3>1
  <2>3. CASE ~(i <= a)
    <3>1. i - a \in 1..(b - a) /\ a + (i - a) = i
      BY <2>3
    <3> QED BY <1>1, <2>1, <2>3, <3>1
  <2> QED BY <2>2, <2>3
<1>7. all = Bytes(b)
  BY <1>3, <1>4, <1>5, <1>6, SeqEqual
<1> QED BY <1>7 DEF all, cut

-----------------------------------------------------------------------------
(* The inductive invariant.                                                *)

\* What the stub has to send, and how much of it goes out.
HeldBytes == IF Resp.template = "renders" THEN Resp.rendered ELSE Resp.size
ToSend == IF Resp.declared < 0 THEN HeldBytes ELSE Smaller(Resp.declared, HeldBytes)

Plan == DribblePlan(Resp, ToSend)

\* The write deadline of render.go: what has been waited since it was set was
\* planned, or was the client's doing.
DeadlineSet ==
  deadline = IF exchange.slack > 0
               THEN clock - piece * Plan.gap - stalled + exchange.slack + Resp.dribble.total
               ELSE Unset

\* A message that is all there, as WholeMessage asks.
MessageWhole ==
  /\ wire.status = FinalStatus
  /\ wire.bytes = Bytes(IF exchange.head \/ Bodyless THEN 0 ELSE ToSend)
  /\ Complete \/ Resp.declared > HeldBytes \/ (Taken /\ Resp.declared = Invalid)

ClockInv ==
  /\ exchange \in Exchanges
  /\ clock \in Nat /\ stalled \in Nat /\ piece \in Nat
  /\ stage \in {"matched", "delayed", "framing"} => piece = 0 /\ stalled = 0

SendInv ==
  /\ stage \in {"framing", "writing"} => body = Bytes(ToSend) /\ DeadlineSet
  /\ stage = "writing" =>
       /\ ~(exchange.head \/ Bodyless)
       /\ piece < Plan.chunks
       /\ wire = [status |-> FinalStatus,
                  framing |-> IF Taken THEN ReasonFraming ELSE NetHttpFraming,
                  bytes |-> Bytes(piece * Plan.size), ended |-> FALSE]

\* However a response ended: not with the stub's message, with the client gone
\* or too slow, or with the whole of it.
EndInv ==
  stage = "finished" =>
    recorded \in {0, 500} \/ left \/ (exchange.slack > 0 /\ stalled > exchange.slack) \/ MessageWhole

ReplyInv == ClockInv /\ SendInv /\ EndInv

(* What a response that compiled has to send is a number of bytes, and its *)
(* plan fits them.                                                         *)
LEMMA SendType ==
  ASSUME CompiledExchanges, exchange \in Exchanges
  PROVE  /\ CompiledResponse(Resp) /\ exchange.slack \in Nat
         /\ HeldBytes \in Nat /\ ToSend \in Nat
         /\ Plan.chunks \in Nat \ {0} /\ Plan.size \in Nat /\ Plan.gap \in Nat
         /\ Plan.chunks * Plan.size <= ToSend
         /\ Plan.chunks * Plan.gap <= Resp.dribble.total
         /\ Resp.dribble.total \in Nat
<1>1. CompiledResponse(Resp) /\ exchange.slack \in Nat
  BY DEF CompiledExchanges, Resp
<1>2. HeldBytes \in Nat
  BY <1>1 DEF CompiledResponse, HeldBytes
<1>3. Resp.declared \in Int
  BY <1>1 DEF CompiledResponse, Unset, Invalid
<1>4. ToSend \in Nat
  BY <1>2, <1>3 DEF ToSend, Smaller
<1>5. Resp.dribble \in [chunks : Nat, total : Nat] /\ Resp.dribble.total \in Nat
  BY <1>1 DEF CompiledResponse
<1> QED BY <1>1, <1>2, <1>4, <1>5, PlanFits DEF Plan

(* clampToDeclaredLength leaves what is to be sent. *)
LEMMA ClampSends ==
  ASSUME CompiledExchanges, exchange \in Exchanges
  PROVE  Clamp(Resp.declared, Bytes(HeldBytes)) = Bytes(ToSend)
<1>1. HeldBytes \in Nat /\ CompiledResponse(Resp)
  BY SendType
<1>2. Resp.declared \in Int
  BY <1>1 DEF CompiledResponse, Unset, Invalid
<1>3. Len(Bytes(HeldBytes)) = HeldBytes
  BY <1>1, BytesSeq
<1>4. CASE Resp.declared >= 0 /\ Resp.declared < HeldBytes
  <2>1. Resp.declared \in Nat /\ Resp.declared <= HeldBytes
    BY <1>1, <1>2, <1>4
  <2>2. SubSeq(Bytes(HeldBytes), 1, Resp.declared) = Bytes(Resp.declared)
    BY <1>1, <2>1, CutFromStart
  <2>3. ToSend = Resp.declared
    BY <1>1, <1>2, <1>4 DEF ToSend, Smaller
  <2> QED BY <1>3, <1>4, <2>2, <2>3 DEF Clamp
<1>5. CASE ~(Resp.declared >= 0 /\ Resp.declared < HeldBytes)
  <2>1. ToSend = HeldBytes
    BY <1>1, <1>2, <1>5 DEF ToSend, Smaller
  <2> QED BY <1>3, <1>5, <2>1 DEF Clamp
<1> QED BY <1>4, <1>5

(* A delay that is drawn is a number. *)
LEMMA DelayType ==
  ASSUME CompiledExchanges, exchange \in Exchanges,
         NEW total \in ComposeDelay(Resp, exchange.global)
  PROVE  total \in Int
<1> DEFINE d == IF Resp.delay.kind = "none" THEN exchange.global.delay ELSE Resp.delay
           f == IF Resp.fixedSet THEN Resp.fixed ELSE exchange.global.fixed
<1>1. MaxDuration \in Nat /\ Drawable(d) /\ f \in Int
  BY DEF CompiledExchanges, CompiledResponse, Resp
<1>2. PICK sample \in DrawDelay(d) : total = Wrap(f + sample)
  BY DEF ComposeDelay
<1> HIDE DEF d, f
<1>3. sample \in Int
  <2>1. CASE d.kind = "none"
    BY <1>2, <2>1 DEF DrawDelay
  <2>2. CASE d.kind = "uniform" /\ d.lower \in Int /\ d.upper \in Int
    BY <1>2, <2>2 DEF DrawDelay
  <2>3. CASE d.kind = "lognormal" /\ d.median \in Int
    BY <1>1, <1>2, <2>3 DEF DrawDelay
  <2> QED BY <1>1, <2>1, <2>2, <2>3 DEF Drawable
<1> QED BY <1>1, <1>2, <1>3 DEF Wrap

-----------------------------------------------------------------------------
(* The steps.                                                              *)

(* Nothing has been waited or sent when a stub has matched. *)
LEMMA ReplyInit == WriteInit => ReplyInv
BY DEF WriteInit, ReplyInv, ClockInv, SendInv, EndInv

(* The wait comes before the deadline is set. *)
LEMMA AwaitKeeps ==
  ASSUME CompiledExchanges, ReplyInv, AwaitDelay
  PROVE  ReplyInv'
<1>1. /\ stage = "matched" /\ stage' = "delayed"
      /\ UNCHANGED <<exchange, deadline, body, piece, wire, recorded, stalled>>
  BY DEF AwaitDelay
<1>2. clock' \in Nat
  <2>1. PICK total \in ComposeDelay(Resp, exchange.global) :
          \/ clock' = clock + (IF total > 0 THEN total ELSE 0) /\ UNCHANGED left
          \/ total > 0 /\ clock' \in clock..(clock + total - 1) /\ left' = TRUE
    BY DEF AwaitDelay
  <2>2. total \in Int
    BY <2>1, DelayType DEF ReplyInv, ClockInv
  <2>3. clock \in Nat
    BY DEF ReplyInv, ClockInv
  <2> QED BY <2>1, <2>2, <2>3
<1> QED BY <1>1, <1>2 DEF ReplyInv, ClockInv, SendInv, EndInv

(* A fault is recorded as no status. *)
LEMMA FaultKeeps ==
  ASSUME ReplyInv, InjectFault
  PROVE  ReplyInv'
<1>1. /\ stage = "delayed"
      /\ stage' = "aborted" \/ (stage' = "finished" /\ recorded' = 0)
      /\ UNCHANGED <<exchange, clock, deadline, body, piece, stalled, left>>
  BY DEF InjectFault, Finish
<1> QED BY <1>1 DEF ReplyInv, ClockInv, SendInv, EndInv

(* A body file that is missing is answered by the server itself. *)
LEMMA MissingKeeps ==
  ASSUME ReplyInv, AnswerFileMissing
  PROVE  ReplyInv'
<1>1. /\ stage = "delayed" /\ stage' = "finished" /\ recorded' = 500
      /\ UNCHANGED <<exchange, clock, deadline, body, piece, stalled, left>>
  BY DEF AnswerFileMissing, ErrorAnswer, Finish
<1> QED BY <1>1 DEF ReplyInv, ClockInv, SendInv, EndInv

(* The deadline is set, and the body is what is to be sent. *)
LEMMA PrepareKeeps ==
  ASSUME CompiledExchanges, ReplyInv, Prepare
  PROVE  ReplyInv'
<1>1. /\ stage = "delayed" /\ UNCHANGED <<exchange, clock, piece, stalled, left>>
      /\ deadline' = IF exchange.slack > 0 THEN clock + Budget(Resp, exchange.slack) ELSE Unset
  BY DEF Prepare
<1>2. /\ exchange \in Exchanges /\ clock \in Nat /\ piece = 0 /\ stalled = 0
  BY <1>1 DEF ReplyInv, ClockInv
<1>3. ClockInv'
  BY <1>1, <1>2 DEF ClockInv
<1>4. /\ exchange.slack \in Nat /\ Plan.gap \in Nat /\ Resp.dribble.total \in Nat
  BY <1>2, SendType
<1>5. piece * Plan.gap = 0
  BY <1>2, <1>4
<1>6. /\ Resp' = Resp /\ ToSend' = ToSend /\ Plan' = Plan
  BY <1>1 DEF Resp, ToSend, HeldBytes, Plan
<1>7. DeadlineSet'
  BY <1>1, <1>2, <1>4, <1>5, <1>6 DEF DeadlineSet, Budget
<1>8. CASE stage' = "finished" /\ recorded' = 500
  BY <1>3, <1>8 DEF ReplyInv, SendInv, EndInv
<1>9. CASE /\ stage' = "framing"
           /\ body' = Clamp(Resp.declared, Bytes(HeldBytes))
  BY <1>2, <1>3, <1>6, <1>7, <1>9, ClampSends DEF ReplyInv, SendInv, EndInv
<1> QED BY <1>8, <1>9 DEF Prepare, ErrorAnswer, Finish, HeldBytes

(* A response without a body is over with its headers. *)
LEMMA HeadersKeep ==
  ASSUME CompiledExchanges, ReplyInv, WriteHeaders
  PROVE  ReplyInv'
<1>1. stage = "framing" /\ UNCHANGED <<exchange, deadline, body, piece, stalled, left>>
  BY DEF WriteHeaders
<1>2. /\ exchange \in Exchanges /\ clock \in Nat /\ piece = 0 /\ stalled = 0
      /\ body = Bytes(ToSend) /\ DeadlineSet
  BY <1>1 DEF ReplyInv, ClockInv, SendInv
<1>3. /\ ToSend \in Nat /\ Plan.gap \in Nat /\ Plan.size \in Nat /\ Plan.chunks \in Nat \ {0}
  BY <1>2, SendType
<1>4. /\ Resp' = Resp /\ ToSend' = ToSend /\ Plan' = Plan /\ HeldBytes' = HeldBytes
      /\ Bodyless' = Bodyless /\ Taken' = Taken /\ FinalStatus' = FinalStatus
      /\ ReasonFraming' = ReasonFraming /\ NetHttpFraming' = NetHttpFraming
  BY <1>1 DEF Resp, ToSend, HeldBytes, Plan, Bodyless, Informational, FinalStatus, Taken,
           ReasonFraming, NetHttpFraming
<1>5. CASE exchange.head \/ Bodyless
  <2>1. /\ stage' = "finished" /\ clock' = clock + Pauses
        /\ wire' = [status |-> FinalStatus, framing |-> <<"none">>, bytes |-> <<>>, ended |-> TRUE]
    BY <1>5 DEF WriteHeaders, Finish
  <2>2. Pauses \in Nat
    <3>1. Len(body) = ToSend
      BY <1>2, <1>3, BytesSeq
    <3>2. Plan.gap * Plan.chunks \in Nat
      BY <1>3
    <3> QED BY <1>3, <3>1, <3>2 DEF Pauses, Plan
  <2>3. ClockInv'
    BY <1>1, <1>2, <2>1, <2>2 DEF ClockInv
  <2>4. Bytes(0) = <<>>
    BY DEF Bytes
  <2>5. MessageWhole'
    <3>1. wire'.status = FinalStatus /\ wire'.framing[1] = "none" /\ wire'.bytes = <<>>
      BY <2>1
    <3>2. Complete'
      BY <3>1 DEF Complete
    <3> QED BY <1>1, <1>4, <1>5, <2>4, <3>1, <3>2 DEF MessageWhole
  <2> QED BY <2>1, <2>3, <2>5 DEF ReplyInv, SendInv, EndInv
<1>6. CASE ~(exchange.head \/ Bodyless)
  <2>1. /\ stage' = "writing" /\ clock' = clock
        /\ wire' = [Nothing EXCEPT !.status = FinalStatus,
                                   !.framing = IF Taken THEN ReasonFraming ELSE NetHttpFraming]
    BY <1>6 DEF WriteHeaders
  <2>2. 0 * Plan.size = 0
    BY <1>3
  <2>3. Bytes(0) = <<>>
    BY DEF Bytes
  <2>4. wire' = [status |-> FinalStatus,
                 framing |-> IF Taken THEN ReasonFraming ELSE NetHttpFraming,
                 bytes |-> Bytes(piece * Plan.size), ended |-> FALSE]
    BY <1>2, <2>1, <2>2, <2>3 DEF Nothing
  <2>5. ClockInv'
    BY <1>1, <1>2, <2>1 DEF ClockInv
  <2>6. DeadlineSet'
    BY <1>1, <1>2, <1>4, <2>1 DEF DeadlineSet
  <2>7. piece < Plan.chunks
    BY <1>2, <1>3
  <2>8. SendInv'
    BY <1>1, <1>2, <1>4, <1>6, <2>1, <2>4, <2>6, <2>7 DEF SendInv
  <2> QED BY <2>1, <2>5, <2>8 DEF ReplyInv, EndInv
<1> QED BY <1>5, <1>6

(* Framing that fits the message: a length that was counted, or declared and *)
(* clamped to, and an end for chunks.                                        *)
LEMMA FramingFits ==
  ASSUME CompiledExchanges, exchange \in Exchanges,
         body = Bytes(ToSend), NEW message,
         message.framing = (IF Taken THEN ReasonFraming ELSE NetHttpFraming),
         message.bytes = Bytes(ToSend), message.ended = TRUE
  PROVE  \/ CASE message.framing[1] = "length"  -> Len(message.bytes) = message.framing[2]
              [] message.framing[1] = "chunked" -> message.ended
              [] OTHER                          -> TRUE
         \/ Resp.declared > HeldBytes
         \/ Taken /\ Resp.declared = Invalid
<1>1. /\ ToSend \in Nat /\ HeldBytes \in Nat
      /\ Resp.declared \in Nat \cup {Unset, Invalid}
  BY SendType DEF CompiledResponse
<1>2. Len(message.bytes) = ToSend /\ Len(body) = ToSend
  BY <1>1, BytesSeq
<1>3. CASE message.framing = <<"chunked">>
  BY <1>3
<1>4. CASE message.framing = <<"length", Len(body)>>
  BY <1>2, <1>4
<1>5. CASE message.framing = <<"length", Resp.declared>> /\ Resp.declared >= 0
  <2>1. Resp.declared \in Nat
    BY <1>1, <1>5 DEF Unset, Invalid
  <2>2. ToSend = Resp.declared \/ Resp.declared > HeldBytes
    BY <1>1, <2>1 DEF ToSend, Smaller
  <2>3. message.framing[1] = "length" /\ message.framing[2] = Resp.declared
    BY <1>5
  <2> QED BY <1>2, <2>2, <2>3
<1>6. CASE Taken /\ Resp.declared = Invalid
  BY <1>6
<1>7. CASE Taken /\ Resp.declared # Invalid
  <2>1. message.framing = ReasonFraming
    BY <1>7
  <2>2. Resp.declared = Unset \/ Resp.declared >= 0
    BY <1>1, <1>7 DEF Unset
  <2> QED BY <1>3, <1>4, <1>5, <2>1, <2>2 DEF ReasonFraming
<1>8. CASE ~Taken
  <2>1. message.framing = NetHttpFraming
    BY <1>8
  <2> QED BY <1>3, <1>4, <1>5, <2>1 DEF NetHttpFraming
<1> QED BY <1>6, <1>7, <1>8

(* A piece takes the wire as much further as the plan says, and only a client *)
(* that has stalled for longer than the slack is late.                        *)
LEMMA PieceKeeps ==
  ASSUME CompiledExchanges, ReplyInv, WritePiece
  PROVE  ReplyInv'
<1> DEFINE k == Plan.chunks
           g == Plan.gap
           z == Plan.size
           n == ToSend
           slack == exchange.slack
           total == Resp.dribble.total
<1>1. stage = "writing" /\ UNCHANGED <<exchange, deadline, body, left>>
  BY DEF WritePiece
<1>2. /\ exchange \in Exchanges /\ clock \in Nat /\ stalled \in Nat /\ piece \in Nat
      /\ body = Bytes(n) /\ DeadlineSet
      /\ ~(exchange.head \/ Bodyless) /\ piece < k
      /\ wire = [status |-> FinalStatus,
                 framing |-> IF Taken THEN ReasonFraming ELSE NetHttpFraming,
                 bytes |-> Bytes(piece * z), ended |-> FALSE]
  BY <1>1 DEF ReplyInv, ClockInv, SendInv
<1>3. /\ n \in Nat /\ k \in Nat \ {0} /\ g \in Nat /\ z \in Nat /\ slack \in Nat /\ total \in Nat
      /\ k * z <= n /\ k * g <= total
  BY <1>2, SendType
<1>4. Len(body) = n /\ DribblePlan(Resp, Len(body)) = Plan
  BY <1>2, <1>3, BytesSeq DEF Plan
<1>5. /\ Resp' = Resp /\ ToSend' = ToSend /\ Plan' = Plan /\ HeldBytes' = HeldBytes
      /\ Bodyless' = Bodyless /\ Taken' = Taken /\ FinalStatus' = FinalStatus
      /\ ReasonFraming' = ReasonFraming /\ NetHttpFraming' = NetHttpFraming
  BY <1>1 DEF Resp, ToSend, HeldBytes, Plan, Bodyless, Informational, FinalStatus, Taken,
           ReasonFraming, NetHttpFraming
<1>6. PICK stall \in Nat : clock' = clock + g + stall /\ stalled' = stalled + stall
  <2>1. PICK stall \in 0..(MaxStall - stalled) :
          clock' = clock + g + stall /\ stalled' = stalled + stall
    BY <1>4 DEF WritePiece
  <2>2. stall \in Nat
    OBVIOUS
  <2> QED BY <2>1, <2>2
<1> HIDE DEF k, g, z, n, slack, total
<1>7. /\ piece * g \in Nat /\ (piece + 1) * g = piece * g + g /\ piece * g + g <= total
      /\ piece * z \in Nat /\ (piece + 1) * z = piece * z + z /\ piece * z + z <= n
  <2>1. piece + 1 \in Nat /\ piece + 1 <= k /\ piece <= piece + 1
    BY <1>2, <1>3
  <2>2. k \in Nat
    BY <1>3
  <2>3. /\ (piece + 1) * g <= k * g /\ (piece + 1) * z <= k * z
        /\ (piece + 1) * g \in Nat /\ (piece + 1) * z \in Nat
        /\ k * g \in Nat /\ k * z \in Nat
    BY <1>3, <2>1, <2>2, Multiples
  <2>4. /\ piece * g \in Nat /\ (piece + 1) * g = piece * g + g
        /\ piece * z \in Nat /\ (piece + 1) * z = piece * z + z
    BY <1>2, <1>3, <2>1, Multiples
  <2> QED BY <1>3, <2>3, <2>4
<1>8. PICK waited \in Nat : waited = piece * g
  BY <1>7
<1>9. deadline = IF slack > 0 THEN clock - waited - stalled + slack + total ELSE Unset
  BY <1>2, <1>8 DEF DeadlineSet, g, slack, total
<1>10. clock' \in Nat /\ stalled' \in Nat
  BY <1>2, <1>3, <1>6
<1>11. CASE Late
  <2>1. stage' = "finished" /\ piece' = piece
    BY <1>11 DEF WritePiece, Finish
  <2>2. slack > 0 /\ clock' > clock - waited - stalled + slack + total
    BY <1>9, <1>11 DEF Late
  <2>3. waited + g <= total
    BY <1>7, <1>8
  <2>4. stalled' > slack
    BY <1>2, <1>3, <1>6, <2>2, <2>3
  <2>5. exchange'.slack > 0 /\ stalled' > exchange'.slack
    BY <1>1, <2>2, <2>4 DEF slack
  <2>6. ClockInv'
    BY <1>1, <1>2, <1>10, <2>1 DEF ClockInv
  <2> QED BY <2>1, <2>5, <2>6 DEF ReplyInv, SendInv, EndInv
<1>12. CASE ~Late /\ piece = k - 1
  <2>1. /\ stage' = "finished" /\ piece' = piece + 1
        /\ wire' = [wire EXCEPT !.bytes = @ \o SubSeq(body, piece * z + 1, Len(body)),
                                !.ended = TRUE]
    BY <1>4, <1>12 DEF WritePiece, Finish, k, z
  <2>2. Bytes(piece * z) \o SubSeq(Bytes(n), piece * z + 1, n) = Bytes(n)
    <3>1. PICK a \in Nat : a = piece * z
      BY <1>7
    <3>2. a <= n /\ n <= n
      BY <1>3, <1>7, <3>1
    <3>3. Bytes(a) \o SubSeq(Bytes(n), a + 1, n) = Bytes(n)
      BY <1>3, <3>2, PieceExtends
    <3> QED BY <3>1, <3>3
  <2>3. wire' = [status |-> FinalStatus,
                 framing |-> IF Taken THEN ReasonFraming ELSE NetHttpFraming,
                 bytes |-> Bytes(n), ended |-> TRUE]
    BY <1>2, <1>4, <2>1, <2>2
  <2>4. /\ wire'.framing = (IF Taken THEN ReasonFraming ELSE NetHttpFraming)
        /\ wire'.bytes = Bytes(n) /\ wire'.ended = TRUE /\ wire'.status = FinalStatus
    BY <2>3
  <2>5. \/ CASE wire'.framing[1] = "length"  -> Len(wire'.bytes) = wire'.framing[2]
             [] wire'.framing[1] = "chunked" -> wire'.ended
             [] OTHER                        -> TRUE
        \/ Resp.declared > HeldBytes
        \/ Taken /\ Resp.declared = Invalid
    BY <1>2, <2>4, FramingFits DEF n
  <2>6. Complete' \/ Resp.declared > HeldBytes \/ (Taken /\ Resp.declared = Invalid)
    BY <2>5 DEF Complete
  <2>7. MessageWhole'
    BY <1>1, <1>2, <1>5, <2>4, <2>6 DEF MessageWhole, n
  <2>8. ClockInv'
    BY <1>1, <1>2, <1>10, <2>1 DEF ClockInv
  <2> QED BY <2>1, <2>7, <2>8 DEF ReplyInv, SendInv, EndInv
<1>13. CASE ~Late /\ piece # k - 1
  <2>1. /\ stage' = "writing" /\ piece' = piece + 1
        /\ wire' = [wire EXCEPT !.bytes = @ \o SubSeq(body, piece * z + 1, piece * z + z),
                                !.ended = FALSE]
    BY <1>1, <1>4, <1>13 DEF WritePiece, k, z
  <2>2. Bytes(piece * z) \o SubSeq(Bytes(n), piece * z + 1, piece * z + z) = Bytes(piece * z + z)
    <3>1. PICK a \in Nat : a = piece * z
      BY <1>7
    <3>2. a + z \in Nat /\ a <= a + z /\ a + z <= n
      BY <1>3, <1>7, <3>1
    <3>3. Bytes(a) \o SubSeq(Bytes(n), a + 1, a + z) = Bytes(a + z)
      BY <1>3, <3>2, PieceExtends
    <3> QED BY <3>1, <3>3
  <2>3. wire' = [status |-> FinalStatus,
                 framing |-> IF Taken THEN ReasonFraming ELSE NetHttpFraming,
                 bytes |-> Bytes(piece' * z), ended |-> FALSE]
    BY <1>2, <1>7, <2>1, <2>2
  <2>4. piece' \in Nat /\ piece' < k
    BY <1>2, <1>3, <1>13, <2>1
  <2>5. DeadlineSet'
    <3>1. piece' * g = waited + g
      BY <1>7, <1>8, <2>1
    <3>2. clock' - (waited + g) - stalled' = clock - waited - stalled
      BY <1>2, <1>3, <1>6
    <3>3. deadline' = IF slack > 0 THEN clock' - piece' * g - stalled' + slack + total ELSE Unset
      BY <1>1, <1>9, <3>1, <3>2
    <3> QED BY <1>1, <1>5, <3>3 DEF DeadlineSet, g, slack, total
  <2>6. SendInv'
    BY <1>1, <1>2, <1>5, <2>1, <2>3, <2>4, <2>5 DEF SendInv, k, z, n
  <2>7. ClockInv'
    BY <1>1, <1>2, <1>10, <2>1, <2>4 DEF ClockInv
  <2> QED BY <2>1, <2>6, <2>7 DEF ReplyInv, EndInv
<1> QED BY <1>11, <1>12, <1>13

(* Every step keeps the invariant. *)
LEMMA ReplyStep ==
  ASSUME CompiledExchanges, ReplyInv, [WriteNext]_writeVars
  PROVE  ReplyInv'
<1>1. CASE UNCHANGED writeVars
  <2>1. /\ Resp' = Resp /\ ToSend' = ToSend /\ Plan' = Plan /\ HeldBytes' = HeldBytes
        /\ Bodyless' = Bodyless /\ Taken' = Taken /\ FinalStatus' = FinalStatus
        /\ ReasonFraming' = ReasonFraming /\ NetHttpFraming' = NetHttpFraming
    BY <1>1 DEF writeVars, Resp, ToSend, HeldBytes, Plan, Bodyless, Informational, FinalStatus, Taken,
           ReasonFraming, NetHttpFraming
  <2>2. ClockInv'
    BY <1>1 DEF writeVars, ReplyInv, ClockInv
  <2>3. SendInv'
    BY <1>1, <2>1 DEF writeVars, ReplyInv, SendInv, DeadlineSet
  <2>4. MessageWhole' <=> MessageWhole
    BY <1>1, <2>1 DEF writeVars, MessageWhole, Complete
  <2>5. EndInv'
    BY <1>1, <2>4 DEF writeVars, ReplyInv, EndInv
  <2> QED BY <2>2, <2>3, <2>5 DEF ReplyInv
<1> QED BY <1>1, AwaitKeeps, FaultKeeps, MissingKeeps, PrepareKeeps, HeadersKeep, PieceKeeps DEF WriteNext

(* Write, dribblePlan, clampToDeclaredLength, writeWithReason and setDeadline: *)
(* for any compiled response, however it is delayed, dribbled, clamped or      *)
(* framed, a client that stays and keeps no write waiting for longer than the  *)
(* slack gets the bytes the stub is to send, all of them and no others, and    *)
(* the message ends where its framing says.                                    *)
THEOREM PatientClientReadsWhole ==
  ASSUME CompiledExchanges
  PROVE  WriteSpec => []WholeMessage
<1>1. WriteInit => ReplyInv
  BY ReplyInit
<1>2. ReplyInv /\ [WriteNext]_writeVars => ReplyInv'
  BY ReplyStep
<1>3. ReplyInv => WholeMessage
  <2> SUFFICES ASSUME ReplyInv, stage = "finished", recorded \notin {0, 500}, ~left,
                      exchange.slack = 0 \/ stalled <= exchange.slack
               PROVE  LET held == IF Resp.template = "renders" THEN Resp.rendered ELSE Resp.size
                          owed == IF exchange.head \/ Bodyless THEN 0
                                  ELSE IF Resp.declared < 0 THEN held ELSE Smaller(Resp.declared, held)
                      IN /\ wire.status = Resp.status \/ Informational
                         /\ wire.bytes = Bytes(owed)
                         /\ Complete \/ Resp.declared > held \/ (Taken /\ Resp.declared = Invalid)
    BY DEF WholeMessage
  <2>1. exchange.slack \in Nat /\ stalled \in Nat
    BY DEF ReplyInv, ClockInv, CompiledExchanges
  <2>2. MessageWhole
    BY <2>1 DEF ReplyInv, EndInv
  <2> QED BY <2>2 DEF MessageWhole, ToSend, HeldBytes, FinalStatus
<1> QED BY <1>1, <1>2, <1>3, PTL DEF WriteSpec
=============================================================================
