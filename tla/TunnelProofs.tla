----------------------------- MODULE TunnelProofs -----------------------------
(***************************************************************************)
(* Proofs about the tunnel: that the gateway goes where it was asked to    *)
(* go, that both directions are channels, and that a session by itself     *)
(* carries whatever its peers write.                                       *)
(*                                                                         *)
(* RInv is inductive by itself: what the gateway has not read yet begins   *)
(* with the request.  CInv adds where the handshakes stand (Order) and     *)
(* that what was sent is, piece by piece, what was received and what is on *)
(* the three connections and in the two sessions (Stream).                 *)
(***************************************************************************)
EXTENDS Tunnel, SequenceTheorems, TLAPS

(* What may be on a connection, and the connections' and sessions' types.  *)
Symbol == SUBSET Nat
LinkType == [down : Seq(Symbol), up : Seq(Symbol), shut : SUBSET {"near", "far"}]
ChainType == [op : {"read", "write", "none"}, data : Seq(Symbol)]

(* A buffer holds something only while it is written; both directions stop *)
(* together.                                                               *)
Chains(c) ==
    /\ c \in [Dirs -> ChainType]
    /\ \A d \in Dirs : c[d].op # "write" => c[d].data = <<>>
    /\ c["down"].op = "none" <=> c["up"].op = "none"

(* What flows from src through data to snk, none of it lost or overtaken.  *)
Flow(src, data, snk, src2, data2, snk2) ==
    /\ src2 \in Seq(Symbol) /\ data2 \in Seq(Symbol) /\ snk2 \in Seq(Symbol)
    /\ \E x \in Seq(Symbol) : snk2 = snk \o x /\ x \o (data2 \o src2) = data \o src

-----------------------------------------------------------------------------
(* Sequences *)

LEMMA Assoc == \A p, q, r \in Seq(Symbol) : (p \o q) \o r = p \o (q \o r)
  OBVIOUS

LEMMA Nothing == ASSUME NEW B, NEW s \in Seq(B) PROVE s \o <<>> = s /\ <<>> \o s = s
  OBVIOUS

(* A sequence cut in two.                                                  *)
LEMMA Cut ==
    ASSUME NEW B, NEW s \in Seq(B), NEW n \in 0 .. Len(s)
    PROVE  /\ SubSeq(s, 1, n) \in Seq(B) /\ SubSeq(s, n + 1, Len(s)) \in Seq(B)
           /\ SubSeq(s, 1, n) \o SubSeq(s, n + 1, Len(s)) = s
<1>1. /\ SubSeq(s, 1, n) \in Seq(B)
      /\ SubSeq(s, n + 1, Len(s)) \in Seq(B)
  OBVIOUS
<1>2. SubSeq(s, 1, n) \o SubSeq(s, n + 1, Len(s)) = SubSeq(s, 1, Len(s))
  <2>1. 1 \in 1 .. Len(s) + 1 /\ n \in 1 - 1 .. Len(s) /\ Len(s) \in n .. Len(s)
    OBVIOUS
  <2> QED BY <2>1, ConcatAdjacentSubSeq, Zenon
<1>3. SubSeq(s, 1, Len(s)) = s
  BY SubSeqFull
<1> QED BY <1>1, <1>2, <1>3

(* A read takes the first bytes of the source, ...                         *)
LEMMA ReadFlow ==
    ASSUME NEW src \in Seq(Symbol), NEW snk \in Seq(Symbol), NEW n \in 0 .. Len(src)
    PROVE  Flow(src, <<>>, snk, SubSeq(src, n + 1, Len(src)), SubSeq(src, 1, n), snk)
<1> DEFINE a == SubSeq(src, 1, n)
           b == SubSeq(src, n + 1, Len(src))
<1>1. a \in Seq(Symbol) /\ b \in Seq(Symbol) /\ a \o b = src
  BY Cut, Zenon
<1> HIDE DEF a, b
<1>2. a \o b \in Seq(Symbol)
  BY <1>1
<1>3. <<>> \in Seq(Symbol) /\ snk \o <<>> = snk /\ <<>> \o (a \o b) = <<>> \o src
  BY <1>1, <1>2, Nothing
<1>4. Flow(src, <<>>, snk, b, a, snk)
  BY <1>1, <1>2, <1>3 DEF Flow
<1> QED BY <1>4 DEF a, b

(* ... a write puts the first bytes of the buffer into the sink, ...       *)
LEMMA WriteFlow ==
    ASSUME NEW src \in Seq(Symbol), NEW data \in Seq(Symbol), NEW snk \in Seq(Symbol),
           NEW n \in 0 .. Len(data)
    PROVE  Flow(src, data, snk, src, SubSeq(data, n + 1, Len(data)), snk \o SubSeq(data, 1, n))
<1> DEFINE a == SubSeq(data, 1, n)
           b == SubSeq(data, n + 1, Len(data))
<1>1. a \in Seq(Symbol) /\ b \in Seq(Symbol) /\ a \o b = data
  BY Cut, Zenon
<1> HIDE DEF a, b
<1>2. a \o (b \o src) = data \o src
  <2>1. (a \o b) \o src = a \o (b \o src)
    <3>1. a \in Seq(Symbol) /\ b \in Seq(Symbol) /\ src \in Seq(Symbol)
      BY <1>1
    <3> QED BY <3>1, Assoc, SMTT(30)
  <2> QED BY <1>1, <2>1
<1>a. snk \o a \in Seq(Symbol)
  BY <1>1
<1>3. Flow(src, data, snk, src, b, snk \o a)
  BY <1>1, <1>2, <1>a DEF Flow
<1> QED BY <1>3 DEF a, b

(* ... and the other direction is left alone.                              *)
LEMMA SameFlow ==
    ASSUME NEW src \in Seq(Symbol), NEW data \in Seq(Symbol), NEW snk \in Seq(Symbol)
    PROVE  Flow(src, data, snk, src, data, snk)
<1>1. <<>> \in Seq(Symbol) /\ snk = snk \o <<>>
  BY Nothing
<1>2. data \o src \in Seq(Symbol) /\ <<>> \o (data \o src) = data \o src
  BY Nothing
<1> QED BY <1>1, <1>2 DEF Flow

-----------------------------------------------------------------------------
(* The steps of the two sessions *)

(* The forward session moves bytes on, or stops and forgets its buffers.   *)
LEMMA ForwardStep ==
    ASSUME asked \in LinkType, middle \in LinkType, Chains(fchain), Forward!Step
    PROVE  /\ asked' \in LinkType /\ middle' \in LinkType /\ Chains(fchain') /\ ~Forward!Stopped
           /\ asked.shut \subseteq asked'.shut /\ middle.shut \subseteq middle'.shut
           /\ \/ /\ Forward!Stopped'
                 /\ asked'.down = asked.down /\ asked'.up = asked.up
                 /\ middle'.down = middle.down /\ middle'.up = middle.up
              \/ /\ ~Forward!Stopped'
                 /\ Flow(asked.down, fchain["down"].data, middle.down, asked'.down,
                         fchain'["down"].data, middle'.down)
                 /\ Flow(middle.up, fchain["up"].data, asked.up, middle'.up, fchain'["up"].data,
                         asked'.up)
<1> DEFINE R == /\ asked' \in LinkType /\ middle' \in LinkType /\ Chains(fchain') /\ ~Forward!Stopped
                /\ asked.shut \subseteq asked'.shut /\ middle.shut \subseteq middle'.shut
                /\ \/ /\ Forward!Stopped'
                      /\ asked'.down = asked.down /\ asked'.up = asked.up
                      /\ middle'.down = middle.down /\ middle'.up = middle.up
                   \/ /\ ~Forward!Stopped'
                      /\ Flow(asked.down, fchain["down"].data, middle.down, asked'.down,
                              fchain'["down"].data, middle'.down)
                      /\ Flow(middle.up, fchain["up"].data, asked.up, middle'.up,
                              fchain'["up"].data, asked'.up)
<1>1. /\ Dirs = {"down", "up"} /\ Forward!Dirs = Dirs
      /\ asked = [down |-> asked.down, up |-> asked.up, shut |-> asked.shut]
      /\ middle = [down |-> middle.down, up |-> middle.up, shut |-> middle.shut]
      /\ asked.down \in Seq(Symbol) /\ asked.up \in Seq(Symbol) /\ middle.down \in Seq(Symbol)
      /\ middle.up \in Seq(Symbol)
  BY DEF Dirs, Forward!Dirs, Forward!Dirs, LinkType
<1>2. /\ fchain \in [Dirs -> ChainType]
      /\ fchain["down"] \in ChainType /\ fchain["up"] \in ChainType
      /\ fchain["down"].data \in Seq(Symbol) /\ fchain["up"].data \in Seq(Symbol)
      /\ fchain["down"].op # "write" => fchain["down"].data = <<>>
      /\ fchain["up"].op # "write" => fchain["up"].data = <<>>
      /\ fchain["down"].op = "none" <=> fchain["up"].op = "none"
  BY <1>1 DEF Chains, ChainType
<1>3. ASSUME NEW n \in 1 .. BufferSize, Forward!ReadSome("down", n) PROVE R
  <2>1. /\ fchain["down"].op = "read" /\ n \in 0 .. Len(asked.down) /\ middle' = middle
        /\ asked' = [asked EXCEPT !.down = SubSeq(asked.down, n + 1, Len(asked.down))]
        /\ fchain' = [fchain EXCEPT !["down"] = [op |-> "write", data |-> SubSeq(asked.down, 1, n)]]
    BY <1>1, <1>3 DEF Forward!ReadSome, Forward!Source, Forward!Drop, Forward!Writing
  <2>2. Flow(asked.down, <<>>, middle.down, SubSeq(asked.down, n + 1, Len(asked.down)),
             SubSeq(asked.down, 1, n), middle.down)
    BY <1>1, <2>1, ReadFlow
  <2>3. /\ SubSeq(asked.down, n + 1, Len(asked.down)) \in Seq(Symbol)
        /\ SubSeq(asked.down, 1, n) \in Seq(Symbol)
    BY <1>1, <2>1, Cut
  <2>4. /\ asked'.down = SubSeq(asked.down, n + 1, Len(asked.down)) /\ asked'.up = asked.up
        /\ asked'.shut = asked.shut
        /\ asked' \in LinkType
    BY <2>1, <2>3 DEF LinkType
  <2>5. /\ fchain'["down"] = [op |-> "write", data |-> SubSeq(asked.down, 1, n)]
        /\ fchain'["up"] = fchain["up"]
        /\ Chains(fchain')
    BY <1>1, <1>2, <2>1, <2>3 DEF Chains, ChainType
  <2>6. Flow(middle.up, fchain["up"].data, asked.up, middle.up, fchain["up"].data, asked.up)
    BY <1>1, <1>2, SameFlow
  <2> QED BY <1>2, <2>1, <2>2, <2>4, <2>5, <2>6 DEF Forward!Stopped
<1>4. ASSUME NEW n \in 1 .. BufferSize, Forward!ReadSome("up", n) PROVE R
  <2>1. /\ fchain["up"].op = "read" /\ n \in 0 .. Len(middle.up) /\ asked' = asked
        /\ middle' = [middle EXCEPT !.up = SubSeq(middle.up, n + 1, Len(middle.up))]
        /\ fchain' = [fchain EXCEPT !["up"] = [op |-> "write", data |-> SubSeq(middle.up, 1, n)]]
    BY <1>1, <1>4 DEF Forward!ReadSome, Forward!Source, Forward!Drop, Forward!Writing
  <2>2. Flow(middle.up, <<>>, asked.up, SubSeq(middle.up, n + 1, Len(middle.up)),
             SubSeq(middle.up, 1, n), asked.up)
    BY <1>1, <2>1, ReadFlow
  <2>3. /\ SubSeq(middle.up, n + 1, Len(middle.up)) \in Seq(Symbol)
        /\ SubSeq(middle.up, 1, n) \in Seq(Symbol)
    BY <1>1, <2>1, Cut
  <2>4. /\ middle'.up = SubSeq(middle.up, n + 1, Len(middle.up)) /\ middle'.down = middle.down
        /\ middle'.shut = middle.shut
        /\ middle' \in LinkType
    BY <2>1, <2>3 DEF LinkType
  <2>5. /\ fchain'["up"] = [op |-> "write", data |-> SubSeq(middle.up, 1, n)]
        /\ fchain'["down"] = fchain["down"]
        /\ Chains(fchain')
    BY <1>1, <1>2, <2>1, <2>3 DEF Chains, ChainType
  <2>6. Flow(asked.down, fchain["down"].data, middle.down, asked.down, fchain["down"].data,
             middle.down)
    BY <1>1, <1>2, SameFlow
  <2> QED BY <1>2, <2>1, <2>2, <2>4, <2>5, <2>6 DEF Forward!Stopped
<1>5. ASSUME NEW n \in 1 .. BufferSize, Forward!WriteSome("down", n) PROVE R
  <2> DEFINE data == fchain["down"].data
             rest == SubSeq(data, n + 1, Len(data))
             next == IF rest = <<>> THEN [op |-> "read", data |-> <<>>]
                                    ELSE [op |-> "write", data |-> rest]
  <2>1. /\ fchain["down"].op = "write" /\ n \in 0 .. Len(data) /\ asked' = asked
        /\ middle' = [middle EXCEPT !.down = middle.down \o SubSeq(data, 1, n)]
        /\ fchain' = [fchain EXCEPT !["down"] = next]
    BY <1>1, <1>5 DEF Forward!WriteSome, Forward!Sink, Forward!Put, Forward!Writing, Forward!Reading
  <2>2. Flow(asked.down, data, middle.down, asked.down, rest, middle.down \o SubSeq(data, 1, n))
    BY <1>1, <1>2, <2>1, WriteFlow
  <2>3. rest \in Seq(Symbol) /\ middle.down \o SubSeq(data, 1, n) \in Seq(Symbol)
    <3>1. rest \in Seq(Symbol) /\ SubSeq(data, 1, n) \in Seq(Symbol)
      BY <1>2, <2>1, Cut
    <3> QED BY <1>1, <3>1
  <2>4. /\ middle'.down = middle.down \o SubSeq(data, 1, n) /\ middle'.up = middle.up
        /\ middle'.shut = middle.shut
        /\ middle' \in LinkType
    BY <2>1, <2>3 DEF LinkType
  <2> HIDE DEF rest
  <2>5. next.data = rest /\ next.op \in {"read", "write"} /\ (next.op # "write" => rest = <<>>)
        /\ next \in ChainType
    BY <2>3 DEF ChainType
  <2> HIDE DEF next
  <2>6. /\ fchain'["down"] = next /\ fchain'["up"] = fchain["up"]
        /\ Chains(fchain')
    BY <1>1, <1>2, <2>1, <2>5 DEF Chains, ChainType
  <2>7. Flow(middle.up, fchain["up"].data, asked.up, middle.up, fchain["up"].data, asked.up)
    BY <1>1, <1>2, SameFlow
  <2> QED BY <1>2, <2>1, <2>2, <2>4, <2>5, <2>6, <2>7 DEF Forward!Stopped
<1>6. ASSUME NEW n \in 1 .. BufferSize, Forward!WriteSome("up", n) PROVE R
  <2> DEFINE data == fchain["up"].data
             rest == SubSeq(data, n + 1, Len(data))
             next == IF rest = <<>> THEN [op |-> "read", data |-> <<>>]
                                    ELSE [op |-> "write", data |-> rest]
  <2>1. /\ fchain["up"].op = "write" /\ n \in 0 .. Len(data) /\ middle' = middle
        /\ asked' = [asked EXCEPT !.up = asked.up \o SubSeq(data, 1, n)]
        /\ fchain' = [fchain EXCEPT !["up"] = next]
    BY <1>1, <1>6 DEF Forward!WriteSome, Forward!Sink, Forward!Put, Forward!Writing, Forward!Reading
  <2>2. Flow(middle.up, data, asked.up, middle.up, rest, asked.up \o SubSeq(data, 1, n))
    BY <1>1, <1>2, <2>1, WriteFlow
  <2>3. rest \in Seq(Symbol) /\ asked.up \o SubSeq(data, 1, n) \in Seq(Symbol)
    <3>1. rest \in Seq(Symbol) /\ SubSeq(data, 1, n) \in Seq(Symbol)
      BY <1>2, <2>1, Cut
    <3> QED BY <1>1, <3>1
  <2>4. /\ asked'.up = asked.up \o SubSeq(data, 1, n) /\ asked'.down = asked.down
        /\ asked'.shut = asked.shut
        /\ asked' \in LinkType
    BY <2>1, <2>3 DEF LinkType
  <2> HIDE DEF rest
  <2>5. next.data = rest /\ next.op \in {"read", "write"} /\ (next.op # "write" => rest = <<>>)
        /\ next \in ChainType
    BY <2>3 DEF ChainType
  <2> HIDE DEF next
  <2>6. /\ fchain'["up"] = next /\ fchain'["down"] = fchain["down"]
        /\ Chains(fchain')
    BY <1>1, <1>2, <2>1, <2>5 DEF Chains, ChainType
  <2>7. Flow(asked.down, fchain["down"].data, middle.down, asked.down, fchain["down"].data,
             middle.down)
    BY <1>1, <1>2, SameFlow
  <2> QED BY <1>2, <2>1, <2>2, <2>4, <2>5, <2>6, <2>7 DEF Forward!Stopped
<1>7. ASSUME Forward!Stop PROVE R
  <2>1. /\ fchain' = [d \in Dirs |-> [op |-> "none", data |-> <<>>]]
        /\ asked' = [asked EXCEPT !.shut = @ \cup {"far"}]
        /\ middle' = [middle EXCEPT !.shut = @ \cup {"near"}]
    BY <1>1, <1>7 DEF Forward!Stop, Forward!Idle, Forward!Shut
  <2>2. PICK d \in Dirs : fchain[d].op # "none"
    BY <1>1, <1>7 DEF Forward!Stop, Forward!Fails
  <2>3. ~Forward!Stopped
    BY <1>1, <1>2, <2>2 DEF Forward!Stopped
  <2>4. Chains(fchain') /\ Forward!Stopped'
    BY <1>1, <2>1 DEF Chains, ChainType, Forward!Stopped
  <2> QED BY <1>1, <2>1, <2>3, <2>4 DEF LinkType
<1> HIDE DEF R
<1>8. R
  BY <1>1, <1>3, <1>4, <1>5, <1>6, <1>7 DEF Forward!Step
<1> QED BY <1>8 DEF R

(* So does the gateway's session.                                          *)
LEMMA GatewayStep ==
    ASSUME middle \in LinkType, last \in LinkType, Chains(gchain), Gateway!Step
    PROVE  /\ middle' \in LinkType /\ last' \in LinkType /\ Chains(gchain') /\ ~Gateway!Stopped
           /\ middle.shut \subseteq middle'.shut /\ last.shut \subseteq last'.shut
           /\ \/ /\ Gateway!Stopped'
                 /\ middle'.down = middle.down /\ middle'.up = middle.up
                 /\ last'.down = last.down /\ last'.up = last.up
              \/ /\ ~Gateway!Stopped'
                 /\ Flow(middle.down, gchain["down"].data, last.down, middle'.down,
                         gchain'["down"].data, last'.down)
                 /\ Flow(last.up, gchain["up"].data, middle.up, last'.up, gchain'["up"].data,
                         middle'.up)
<1> DEFINE R == /\ middle' \in LinkType /\ last' \in LinkType /\ Chains(gchain') /\ ~Gateway!Stopped
                /\ middle.shut \subseteq middle'.shut /\ last.shut \subseteq last'.shut
                /\ \/ /\ Gateway!Stopped'
                      /\ middle'.down = middle.down /\ middle'.up = middle.up
                      /\ last'.down = last.down /\ last'.up = last.up
                   \/ /\ ~Gateway!Stopped'
                      /\ Flow(middle.down, gchain["down"].data, last.down, middle'.down,
                              gchain'["down"].data, last'.down)
                      /\ Flow(last.up, gchain["up"].data, middle.up, last'.up, gchain'["up"].data,
                              middle'.up)
<1>1. /\ Dirs = {"down", "up"} /\ Gateway!Dirs = Dirs
      /\ middle = [down |-> middle.down, up |-> middle.up, shut |-> middle.shut]
      /\ last = [down |-> last.down, up |-> last.up, shut |-> last.shut]
      /\ middle.down \in Seq(Symbol) /\ middle.up \in Seq(Symbol) /\ last.down \in Seq(Symbol)
      /\ last.up \in Seq(Symbol)
  BY DEF Dirs, Forward!Dirs, Gateway!Dirs, LinkType
<1>2. /\ gchain \in [Dirs -> ChainType]
      /\ gchain["down"] \in ChainType /\ gchain["up"] \in ChainType
      /\ gchain["down"].data \in Seq(Symbol) /\ gchain["up"].data \in Seq(Symbol)
      /\ gchain["down"].op # "write" => gchain["down"].data = <<>>
      /\ gchain["up"].op # "write" => gchain["up"].data = <<>>
      /\ gchain["down"].op = "none" <=> gchain["up"].op = "none"
  BY <1>1 DEF Chains, ChainType
<1>3. ASSUME NEW n \in 1 .. BufferSize, Gateway!ReadSome("down", n) PROVE R
  <2>1. /\ gchain["down"].op = "read" /\ n \in 0 .. Len(middle.down) /\ last' = last
        /\ middle' = [middle EXCEPT !.down = SubSeq(middle.down, n + 1, Len(middle.down))]
        /\ gchain' = [gchain EXCEPT !["down"] = [op |-> "write",
                                                 data |-> SubSeq(middle.down, 1, n)]]
    BY <1>1, <1>3 DEF Gateway!ReadSome, Gateway!Source, Gateway!Drop, Gateway!Writing
  <2>2. Flow(middle.down, <<>>, last.down, SubSeq(middle.down, n + 1, Len(middle.down)),
             SubSeq(middle.down, 1, n), last.down)
    BY <1>1, <2>1, ReadFlow
  <2>3. /\ SubSeq(middle.down, n + 1, Len(middle.down)) \in Seq(Symbol)
        /\ SubSeq(middle.down, 1, n) \in Seq(Symbol)
    BY <1>1, <2>1, Cut
  <2>4. /\ middle'.down = SubSeq(middle.down, n + 1, Len(middle.down)) /\ middle'.up = middle.up
        /\ middle'.shut = middle.shut
        /\ middle' \in LinkType
    BY <2>1, <2>3 DEF LinkType
  <2>5. /\ gchain'["down"] = [op |-> "write", data |-> SubSeq(middle.down, 1, n)]
        /\ gchain'["up"] = gchain["up"]
        /\ Chains(gchain')
    BY <1>1, <1>2, <2>1, <2>3 DEF Chains, ChainType
  <2>6. Flow(last.up, gchain["up"].data, middle.up, last.up, gchain["up"].data, middle.up)
    BY <1>1, <1>2, SameFlow
  <2> QED BY <1>2, <2>1, <2>2, <2>4, <2>5, <2>6 DEF Gateway!Stopped
<1>4. ASSUME NEW n \in 1 .. BufferSize, Gateway!ReadSome("up", n) PROVE R
  <2>1. /\ gchain["up"].op = "read" /\ n \in 0 .. Len(last.up) /\ middle' = middle
        /\ last' = [last EXCEPT !.up = SubSeq(last.up, n + 1, Len(last.up))]
        /\ gchain' = [gchain EXCEPT !["up"] = [op |-> "write", data |-> SubSeq(last.up, 1, n)]]
    BY <1>1, <1>4 DEF Gateway!ReadSome, Gateway!Source, Gateway!Drop, Gateway!Writing
  <2>2. Flow(last.up, <<>>, middle.up, SubSeq(last.up, n + 1, Len(last.up)), SubSeq(last.up, 1, n),
             middle.up)
    BY <1>1, <2>1, ReadFlow
  <2>3. /\ SubSeq(last.up, n + 1, Len(last.up)) \in Seq(Symbol)
        /\ SubSeq(last.up, 1, n) \in Seq(Symbol)
    BY <1>1, <2>1, Cut
  <2>4. /\ last'.up = SubSeq(last.up, n + 1, Len(last.up)) /\ last'.down = last.down
        /\ last'.shut = last.shut
        /\ last' \in LinkType
    BY <2>1, <2>3 DEF LinkType
  <2>5. /\ gchain'["up"] = [op |-> "write", data |-> SubSeq(last.up, 1, n)]
        /\ gchain'["down"] = gchain["down"]
        /\ Chains(gchain')
    BY <1>1, <1>2, <2>1, <2>3 DEF Chains, ChainType
  <2>6. Flow(middle.down, gchain["down"].data, last.down, middle.down, gchain["down"].data,
             last.down)
    BY <1>1, <1>2, SameFlow
  <2> QED BY <1>2, <2>1, <2>2, <2>4, <2>5, <2>6 DEF Gateway!Stopped
<1>5. ASSUME NEW n \in 1 .. BufferSize, Gateway!WriteSome("down", n) PROVE R
  <2> DEFINE data == gchain["down"].data
             rest == SubSeq(data, n + 1, Len(data))
             next == IF rest = <<>> THEN [op |-> "read", data |-> <<>>]
                                    ELSE [op |-> "write", data |-> rest]
  <2>1. /\ gchain["down"].op = "write" /\ n \in 0 .. Len(data) /\ middle' = middle
        /\ last' = [last EXCEPT !.down = last.down \o SubSeq(data, 1, n)]
        /\ gchain' = [gchain EXCEPT !["down"] = next]
    BY <1>1, <1>5 DEF Gateway!WriteSome, Gateway!Sink, Gateway!Put, Gateway!Writing, Gateway!Reading
  <2>2. Flow(middle.down, data, last.down, middle.down, rest, last.down \o SubSeq(data, 1, n))
    BY <1>1, <1>2, <2>1, WriteFlow
  <2>3. rest \in Seq(Symbol) /\ last.down \o SubSeq(data, 1, n) \in Seq(Symbol)
    <3>1. rest \in Seq(Symbol) /\ SubSeq(data, 1, n) \in Seq(Symbol)
      BY <1>2, <2>1, Cut
    <3> QED BY <1>1, <3>1
  <2>4. /\ last'.down = last.down \o SubSeq(data, 1, n) /\ last'.up = last.up
        /\ last'.shut = last.shut
        /\ last' \in LinkType
    BY <2>1, <2>3 DEF LinkType
  <2> HIDE DEF rest
  <2>5. next.data = rest /\ next.op \in {"read", "write"} /\ (next.op # "write" => rest = <<>>)
        /\ next \in ChainType
    BY <2>3 DEF ChainType
  <2> HIDE DEF next
  <2>6. /\ gchain'["down"] = next /\ gchain'["up"] = gchain["up"]
        /\ Chains(gchain')
    BY <1>1, <1>2, <2>1, <2>5 DEF Chains, ChainType
  <2>7. Flow(last.up, gchain["up"].data, middle.up, last.up, gchain["up"].data, middle.up)
    BY <1>1, <1>2, SameFlow
  <2> QED BY <1>2, <2>1, <2>2, <2>4, <2>5, <2>6, <2>7 DEF Gateway!Stopped
<1>6. ASSUME NEW n \in 1 .. BufferSize, Gateway!WriteSome("up", n) PROVE R
  <2> DEFINE data == gchain["up"].data
             rest == SubSeq(data, n + 1, Len(data))
             next == IF rest = <<>> THEN [op |-> "read", data |-> <<>>]
                                    ELSE [op |-> "write", data |-> rest]
  <2>1. /\ gchain["up"].op = "write" /\ n \in 0 .. Len(data) /\ last' = last
        /\ middle' = [middle EXCEPT !.up = middle.up \o SubSeq(data, 1, n)]
        /\ gchain' = [gchain EXCEPT !["up"] = next]
    BY <1>1, <1>6 DEF Gateway!WriteSome, Gateway!Sink, Gateway!Put, Gateway!Writing, Gateway!Reading
  <2>2. Flow(last.up, data, middle.up, last.up, rest, middle.up \o SubSeq(data, 1, n))
    BY <1>1, <1>2, <2>1, WriteFlow
  <2>3. rest \in Seq(Symbol) /\ middle.up \o SubSeq(data, 1, n) \in Seq(Symbol)
    <3>1. rest \in Seq(Symbol) /\ SubSeq(data, 1, n) \in Seq(Symbol)
      BY <1>2, <2>1, Cut
    <3> QED BY <1>1, <3>1
  <2>4. /\ middle'.up = middle.up \o SubSeq(data, 1, n) /\ middle'.down = middle.down
        /\ middle'.shut = middle.shut
        /\ middle' \in LinkType
    BY <2>1, <2>3 DEF LinkType
  <2> HIDE DEF rest
  <2>5. next.data = rest /\ next.op \in {"read", "write"} /\ (next.op # "write" => rest = <<>>)
        /\ next \in ChainType
    BY <2>3 DEF ChainType
  <2> HIDE DEF next
  <2>6. /\ gchain'["up"] = next /\ gchain'["down"] = gchain["down"]
        /\ Chains(gchain')
    BY <1>1, <1>2, <2>1, <2>5 DEF Chains, ChainType
  <2>7. Flow(middle.down, gchain["down"].data, last.down, middle.down, gchain["down"].data,
             last.down)
    BY <1>1, <1>2, SameFlow
  <2> QED BY <1>2, <2>1, <2>2, <2>4, <2>5, <2>6, <2>7 DEF Gateway!Stopped
<1>7. ASSUME Gateway!Stop PROVE R
  <2>1. /\ gchain' = [d \in Dirs |-> [op |-> "none", data |-> <<>>]]
        /\ middle' = [middle EXCEPT !.shut = @ \cup {"far"}]
        /\ last' = [last EXCEPT !.shut = @ \cup {"near"}]
    BY <1>1, <1>7 DEF Gateway!Stop, Gateway!Idle, Gateway!Shut
  <2>2. PICK d \in Dirs : gchain[d].op # "none"
    BY <1>1, <1>7 DEF Gateway!Stop, Gateway!Fails
  <2>3. ~Gateway!Stopped
    BY <1>1, <1>2, <2>2 DEF Gateway!Stopped
  <2>4. Chains(gchain') /\ Gateway!Stopped'
    BY <1>1, <2>1 DEF Chains, ChainType, Gateway!Stopped
  <2> QED BY <1>1, <2>1, <2>3, <2>4 DEF LinkType
<1> HIDE DEF R
<1>8. R
  BY <1>1, <1>3, <1>4, <1>5, <1>6, <1>7 DEF Gateway!Step
<1> QED BY <1>8 DEF R

-----------------------------------------------------------------------------
(* Types *)

NearStage == {"none", "connecting", "request", "answer", "session", "dead"}
GatewayStage == {"none", "backlog", "deaf", "head", "body", "yes", "no", "connecting", "session",
                 "dead"}

(* The types, as long as the gateway was written nothing but the request.  *)
Typed ==
    /\ stray = FALSE
    /\ mode \in Modes /\ mode \in {"forward", "client"}
    /\ key \in Byte /\ target \in Byte \X Byte
    /\ asked \in LinkType /\ middle \in LinkType /\ last \in LinkType
    /\ Chains(fchain) /\ Chains(gchain)
    /\ fstage \in NearStage /\ gstage \in GatewayStage
    /\ left \in [1 .. 2 -> Seq(Symbol)]
    /\ sent \in [Dirs -> Seq(Symbol)] /\ got \in [Dirs -> Seq(Symbol)]

LEMMA DirsAre == Dirs = {"down", "up"}
  BY DEF Dirs, Forward!Dirs

LEMMA ByteIsSymbol == Byte \subseteq Symbol /\ Byte # {} /\ Zero \in Byte
<1>1. Width \in Nat
  BY TunnelAssumption
<1>2. 1 .. Width \subseteq Nat
  BY <1>1
<1> QED BY <1>2, Zenon DEF Byte, Symbol, Zero

(* What is on a connection after bytes have come or gone, and after one of *)
(* its ends was closed.                                                    *)
LEMMA PutFields ==
    ASSUME NEW link \in LinkType, NEW data \in Seq(Symbol)
    PROVE  /\ Forward!Put(link, "down", data) \in LinkType
           /\ Forward!Put(link, "down", data).down = link.down \o data
           /\ Forward!Put(link, "down", data).up = link.up
           /\ Forward!Put(link, "down", data).shut = link.shut
           /\ Forward!Put(link, "up", data) \in LinkType
           /\ Forward!Put(link, "up", data).up = link.up \o data
           /\ Forward!Put(link, "up", data).down = link.down
           /\ Forward!Put(link, "up", data).shut = link.shut
<1>1. link.down \o data \in Seq(Symbol) /\ link.up \o data \in Seq(Symbol)
  BY DEF LinkType
<1> QED BY <1>1 DEF LinkType, Forward!Put

LEMMA DropFields ==
    ASSUME NEW link \in LinkType
    PROVE  /\ \A n \in 0 .. Len(link.down) :
                /\ Forward!Drop(link, "down", n) \in LinkType
                /\ Forward!Drop(link, "down", n).down = SubSeq(link.down, n + 1, Len(link.down))
                /\ Forward!Drop(link, "down", n).up = link.up
                /\ Forward!Drop(link, "down", n).shut = link.shut
           /\ \A n \in 0 .. Len(link.up) :
                /\ Forward!Drop(link, "up", n) \in LinkType
                /\ Forward!Drop(link, "up", n).up = SubSeq(link.up, n + 1, Len(link.up))
                /\ Forward!Drop(link, "up", n).down = link.down
                /\ Forward!Drop(link, "up", n).shut = link.shut
<1>1. link.down \in Seq(Symbol) /\ link.up \in Seq(Symbol)
  BY DEF LinkType
<1>2. ASSUME NEW n \in 0 .. Len(link.down)
      PROVE  SubSeq(link.down, n + 1, Len(link.down)) \in Seq(Symbol)
  BY <1>1
<1>3. ASSUME NEW n \in 0 .. Len(link.up)
      PROVE  SubSeq(link.up, n + 1, Len(link.up)) \in Seq(Symbol)
  BY <1>1
<1> QED BY <1>2, <1>3 DEF LinkType, Forward!Drop

LEMMA ShutFields ==
    ASSUME NEW link \in LinkType, NEW end \in {"near", "far"}
    PROVE  /\ Forward!Shut(link, end) \in LinkType
           /\ Forward!Shut(link, end).down = link.down /\ Forward!Shut(link, end).up = link.up
           /\ link.shut \subseteq Forward!Shut(link, end).shut
  BY DEF LinkType, Forward!Shut

LEMMA NoChainIs ==
    /\ Chains(NoChain) /\ NoChain["down"].op = "none" /\ NoChain["up"].op = "none"
    /\ NoChain["down"].data = <<>> /\ NoChain["up"].data = <<>>
  BY DEF NoChain, Chains, ChainType, Dirs, Forward!Dirs, Forward!Idle

LEMMA StartedIs ==
    /\ Forward!Started = Gateway!Started
    /\ Chains(Forward!Started) /\ Forward!Started["down"].op = "read"
    /\ Forward!Started["down"].data = <<>> /\ Forward!Started["up"].data = <<>>
  BY DEF Chains, ChainType, Dirs, Forward!Dirs, Gateway!Dirs, Forward!Started, Gateway!Started,
         Forward!Reading, Gateway!Reading

(* Requests and answers.                                                   *)
LEMMA RequestTyped ==
    ASSUME Typed
    PROVE  /\ Request \in Seq(Symbol) /\ Body(target) \in Seq(Symbol) /\ Len(Body(target)) = 3
           /\ mode = "forward" => Len(Request) = 3
           /\ mode = "client" => Len(Request) = 6
           /\ Len(Request) >= 3
<1>1. target[1] \in Byte /\ target[2] \in Byte /\ key \in Byte /\ mode \in {"forward", "client"}
  BY DEF Typed
<1>2. \A a, b \in Byte : Xor(a, b) \in Byte
  BY DEF Xor, Byte
<1>3. /\ Byte \subseteq Symbol /\ Blank \in Symbol /\ LetterC \in Symbol /\ {2} \in Symbol
      /\ {1, 2} \in Symbol
  BY TunnelAssumption DEF Byte, Symbol, Blank, LetterC
<1>4. Body(target) \in Seq(Symbol) /\ Len(Body(target)) = 3
  BY <1>1, <1>3 DEF Body
<1>5. MakeForwardMessage(key, target) \in Seq(Symbol) /\ Len(MakeForwardMessage(key, target)) = 3
  <2>1. key \in Symbol /\ Xor(key, target[1]) \in Symbol /\ Xor(key, target[2]) \in Symbol
    BY <1>1, <1>2, <1>3
  <2> QED BY <2>1 DEF MakeForwardMessage
<1>6. Connect \in Seq(Symbol) /\ Len(Connect) = 3
  BY <1>3 DEF Connect
<1>7. Connect \o Body(target) \in Seq(Symbol) /\ Len(Connect \o Body(target)) = 6
  <2>1. \A p, q \in Seq(Symbol) : p \o q \in Seq(Symbol) /\ Len(p \o q) = Len(p) + Len(q)
    OBVIOUS
  <2> HIDE DEF Connect, Body
  <2> DEFINE b == Body(target)
  <2>2. b \in Seq(Symbol) /\ Len(b) = 3
    BY <1>4
  <2> HIDE DEF b
  <2>3. Connect \o b \in Seq(Symbol) /\ Len(Connect \o b) = Len(Connect) + Len(b)
    BY <1>6, <2>1, <2>2, Zenon
  <2>4. Connect \o b \in Seq(Symbol) /\ Len(Connect \o b) = 6
    BY <1>6, <2>2, <2>3
  <2> QED BY <2>4 DEF b
<1>8. CASE mode = "forward"
  <2>1. Request = MakeForwardMessage(key, target)
    BY <1>8 DEF Request
  <2>2. Request \in Seq(Symbol) /\ Len(Request) = 3
    BY <1>5, <2>1
  <2>3. Len(Request) >= 3
    BY <2>2
  <2> QED BY <1>4, <1>8, <2>2, <2>3
<1>9. CASE mode = "client"
  <2>1. Request = Connect \o Body(target)
    BY <1>9 DEF Request
  <2>2. Request \in Seq(Symbol) /\ Len(Request) = 6
    BY <1>7, <2>1, Zenon
  <2>3. Len(Request) >= 3
    BY <2>2
  <2> QED BY <1>4, <1>9, <2>2, <2>3
<1> QED BY <1>1, <1>8, <1>9

LEMMA AnswerTyped ==
    ASSUME NEW m, NEW r
    PROVE  /\ Answer(m, r) \in Seq(Symbol) /\ Answer(m, r) # <<>>
           /\ Len(Answer(m, r)) = IF m = "forward" THEN 1 ELSE 2
           /\ Answer(m, r)[1] \in {{1}, {2}}
<1>1. Blank \in Symbol /\ {1} \in Symbol /\ {2} \in Symbol
  BY TunnelAssumption DEF Symbol, Blank
<1>2. PICK s : s = (IF r = "yes" THEN {1} ELSE {2}) /\ s \in Symbol /\ s \in {{1}, {2}}
  BY <1>1
<1>3. Answer(m, r) = IF m = "forward" THEN <<s>> ELSE <<s, Blank>>
  BY <1>2 DEF Answer
<1> QED BY <1>1, <1>2, <1>3

LEMMA Pair == \A s, t \in Seq(Symbol) : <<s, t>> \in [1 .. 2 -> Seq(Symbol)]
<1> SUFFICES ASSUME NEW s \in Seq(Symbol), NEW t \in Seq(Symbol)
             PROVE  <<s, t>> \in [1 .. 2 -> Seq(Symbol)]
  OBVIOUS
<1> DEFINE both == <<s, t>>
<1>1. DOMAIN both = 1 .. 2 /\ both[1] = s /\ both[2] = t
  OBVIOUS
<1>2. both = [i \in 1 .. 2 |-> both[i]]
  OBVIOUS
<1> QED BY <1>1, <1>2

LEMMA InitTyped == Init => Typed
<1> SUFFICES ASSUME Init PROVE Typed
  OBVIOUS
<1>1. mode \in Modes /\ mode \in {"forward", "client"} /\ target \in Byte \X Byte
  BY TunnelAssumption DEF Init, Byte
<1>2. <<>> \in Seq(Symbol)
  OBVIOUS
<1>3. Forward!NewLink \in LinkType
  BY <1>2 DEF LinkType, Forward!NewLink, Forward!Link
<1>4. left \in [1 .. 2 -> Seq(Symbol)]
  BY <1>2, Pair DEF Init
<1>5. sent \in [Dirs -> Seq(Symbol)] /\ got \in [Dirs -> Seq(Symbol)]
  BY <1>2 DEF Init
<1> QED BY <1>1, <1>3, <1>4, <1>5, NoChainIs, ByteIsSymbol DEF Init, Typed, NearStage, GatewayStage

(* Nothing is read or written.                                             *)
SameData ==
    /\ asked'.down = asked.down /\ asked'.up = asked.up
    /\ middle'.down = middle.down /\ middle'.up = middle.up
    /\ last'.down = last.down /\ last'.up = last.up
    /\ UNCHANGED <<sent, got>>
ShutGrows ==
    asked.shut \subseteq asked'.shut /\ middle.shut \subseteq middle'.shut /\ last.shut \subseteq last'.shut

SameShut ==
    asked'.shut = asked.shut /\ middle'.shut = middle.shut /\ last'.shut = last.shut

LEMMA NearGoneKeeps ==
    ASSUME Typed, NearGone
    PROVE  /\ asked' \in LinkType /\ middle' \in LinkType /\ fchain' = NoChain /\ fstage' = "dead"
           /\ asked'.down = asked.down /\ asked'.up = asked.up
           /\ middle'.down = middle.down /\ middle'.up = middle.up
           /\ asked.shut \subseteq asked'.shut /\ middle.shut \subseteq middle'.shut
<1>1. asked \in LinkType /\ middle \in LinkType
  BY DEF Typed
<1> QED BY <1>1, ShutFields DEF NearGone

LEMMA GatewayGoneKeeps ==
    ASSUME Typed, GatewayGone
    PROVE  /\ middle' \in LinkType /\ last' \in LinkType /\ gchain' = NoChain /\ gstage' = "dead"
           /\ middle'.down = middle.down /\ middle'.up = middle.up
           /\ last'.down = last.down /\ last'.up = last.up
           /\ middle.shut \subseteq middle'.shut /\ last.shut \subseteq last'.shut
<1>1. middle \in LinkType /\ last \in LinkType
  BY DEF Typed
<1> QED BY <1>1, ShutFields DEF GatewayGone

(* The connection with the gateway is there, and the request is written.   *)
Connected ==
    /\ fstage = "connecting" /\ fstage' = "request" /\ gstage' = "backlog"
    /\ left' = [left EXCEPT ![1] = Request]
    /\ UNCHANGED <<setup, links, fchain, gchain, reached, port, history>>

LEMMA NearConnectedIs == ASSUME Typed, NearConnected, ~stray' PROVE Connected
<1>1. Request # <<>>
  <2>1. Request \in Seq(Symbol) /\ Len(Request) >= 3
    BY RequestTyped
  <2>2. Len(<<>>) = 0
    OBVIOUS
  <2> QED BY <2>1, <2>2
<1>2. PICK message :
         /\ left' = [left EXCEPT ![1] = message]
         /\ fstage' = IF message = <<>> THEN "answer" ELSE "request"
         /\ stray' = (stray \/ message # Request)
  BY DEF NearConnected
<1>3. message = Request
  BY <1>2
<1>4. stray' = stray
  BY <1>2, <1>3 DEF Typed
<1> QED BY <1>1, <1>2, <1>3, <1>4 DEF NearConnected, Connected, history

Quiet ==
    \/ Acquire \/ Begin \/ AcceptFails \/ Release \/ AcceptCancelled \/ Connected
    \/ NearFails \/ NearExit \/ Crash
    \/ GatewayAccept \/ GatewayConnected \/ GatewayFails \/ GatewayExit
    \/ NearFinishes \/ TargetFinishes \/ MiddleBreaks \/ UNCHANGED vars

LEMMA QuietKeeps ==
    ASSUME Typed, Quiet
    PROVE  Typed' /\ SameData /\ ShutGrows
<1> USE DEF Typed, SameData, ShutGrows, links, stages, setup, acceptor, history
<1>1. CASE Acquire \/ Begin \/ AcceptFails \/ Release \/ AcceptCancelled
  BY <1>1 DEF Acquire, Begin, AcceptFails, Release, AcceptCancelled, Keys, NearStage
<1>2. CASE Connected
  <2>1. left' \in [1 .. 2 -> Seq(Symbol)]
    BY <1>2, RequestTyped DEF Connected
  <2> QED BY <1>2, <2>1 DEF Connected, NearStage, GatewayStage
<1>3. CASE NearFails
  BY <1>3, NearGoneKeeps, NoChainIs DEF NearFails, NearStage
<1>4. CASE NearExit
  BY <1>4, NearGoneKeeps, NoChainIs DEF NearExit, NearStage
<1>5. CASE Crash
  BY <1>5, NearGoneKeeps, NoChainIs DEF Crash, NearStage
<1>6. CASE GatewayAccept
  BY <1>6 DEF GatewayAccept, GatewayStage
<1>7. CASE GatewayConnected
  BY <1>7, StartedIs DEF GatewayConnected, GatewayStage
<1>8. CASE GatewayFails
  BY <1>8, GatewayGoneKeeps, NoChainIs DEF GatewayFails, GatewayStage
<1>9. CASE GatewayExit
  BY <1>9, GatewayGoneKeeps, NoChainIs DEF GatewayExit, GatewayStage
<1>10. CASE NearFinishes
  BY <1>10, ShutFields DEF NearFinishes
<1>11. CASE TargetFinishes
  BY <1>11, ShutFields DEF TargetFinishes
<1>12. CASE MiddleBreaks
  <2> DEFINE m == Forward!Shut(middle, "near")
  <2>1. m \in LinkType /\ m.down = middle.down /\ m.up = middle.up /\ middle.shut \subseteq m.shut
    BY ShutFields
  <2> HIDE DEF m
  <2>2. middle' = Forward!Shut(m, "far")
    BY <1>12 DEF MiddleBreaks, m
  <2>3. /\ middle' \in LinkType /\ middle'.down = m.down /\ middle'.up = m.up
        /\ m.shut \subseteq middle'.shut
    BY <2>1, <2>2, ShutFields
  <2> QED BY <1>12, <2>1, <2>3 DEF MiddleBreaks
<1>13. CASE UNCHANGED vars
  BY <1>13 DEF vars
<1> QED BY <1>1, <1>2, <1>3, <1>4, <1>5, <1>6, <1>7, <1>8, <1>9, <1>10, <1>11, <1>12, <1>13
           DEF Quiet

-----------------------------------------------------------------------------
(* What the other actions do to the connections *)

Asking == middle.down \o left[1]

LEMMA Joined == \A p, q \in Seq(Symbol) : p \o q \in Seq(Symbol) /\ Len(p \o q) = Len(p) + Len(q)
  OBVIOUS

(* The two parts of a sequence cut after n.                                *)
LEMMA Parts ==
    ASSUME NEW s \in Seq(Symbol), NEW n \in 0 .. Len(s)
    PROVE  /\ SubSeq(s, n + 1, Len(s)) \in Seq(Symbol) /\ SubSeq(s, 1, n) \in Seq(Symbol)
           /\ Len(SubSeq(s, n + 1, Len(s))) = Len(s) - n /\ Len(SubSeq(s, 1, n)) = n
           /\ \A i \in 1 .. n : SubSeq(s, 1, n)[i] = s[i]
           /\ \A i \in 1 .. Len(s) - n : SubSeq(s, n + 1, Len(s))[i] = s[n + i]
           /\ SubSeq(s, n + 1, Len(s)) = <<>> <=> n = Len(s)
<1>1. /\ Len(SubSeq(s, n + 1, Len(s))) = Len(s) - n /\ Len(SubSeq(s, 1, n)) = n
      /\ SubSeq(s, n + 1, Len(s)) \in Seq(Symbol) /\ SubSeq(s, 1, n) \in Seq(Symbol)
  OBVIOUS
<1>2. ASSUME NEW i \in 1 .. n PROVE SubSeq(s, 1, n)[i] = s[i]
  OBVIOUS
<1>3. ASSUME NEW i \in 1 .. Len(s) - n PROVE SubSeq(s, n + 1, Len(s))[i] = s[n + i]
  OBVIOUS
<1>4. \A r \in Seq(Symbol) : r = <<>> <=> Len(r) = 0
  OBVIOUS
<1>5. SubSeq(s, n + 1, Len(s)) = <<>> <=> Len(s) - n = 0
  BY <1>1, <1>4
<1>6. Len(s) - n = 0 <=> n = Len(s)
  OBVIOUS
<1> QED BY <1>1, <1>2, <1>3, <1>5, <1>6, Zenon

LEMMA TypedSeqs ==
    ASSUME Typed
    PROVE  /\ asked.down \in Seq(Symbol) /\ asked.up \in Seq(Symbol)
           /\ middle.down \in Seq(Symbol) /\ middle.up \in Seq(Symbol)
           /\ last.down \in Seq(Symbol) /\ last.up \in Seq(Symbol)
           /\ left[1] \in Seq(Symbol) /\ left[2] \in Seq(Symbol)
           /\ sent["down"] \in Seq(Symbol) /\ sent["up"] \in Seq(Symbol)
           /\ got["down"] \in Seq(Symbol) /\ got["up"] \in Seq(Symbol)
           /\ Asking \in Seq(Symbol)
<1>1. asked \in LinkType /\ middle \in LinkType /\ last \in LinkType
      /\ left \in [1 .. 2 -> Seq(Symbol)]
      /\ sent \in [Dirs -> Seq(Symbol)] /\ got \in [Dirs -> Seq(Symbol)]
  BY DEF Typed
<1>2. /\ asked.down \in Seq(Symbol) /\ asked.up \in Seq(Symbol)
      /\ middle.down \in Seq(Symbol) /\ middle.up \in Seq(Symbol)
      /\ last.down \in Seq(Symbol) /\ last.up \in Seq(Symbol)
  BY <1>1 DEF LinkType
<1>3. left[1] \in Seq(Symbol) /\ left[2] \in Seq(Symbol)
  BY <1>1
<1>4. Asking \in Seq(Symbol)
  BY <1>2, <1>3, Joined DEF Asking
<1> QED BY <1>1, <1>2, <1>3, <1>4, DirsAre

LEMMA WriteRequestKeeps ==
    ASSUME Typed, NEW n, WriteRequest(n)
    PROVE  /\ Typed' /\ Asking' = Asking /\ ShutGrows
           /\ middle'.up = middle.up /\ left'[2] = left[2]
           /\ UNCHANGED <<mode, key, target, asked, last, fchain, gchain, gstage, reached, port,
                          stray, sent, got>>
           /\ fstage = "request" /\ fstage' \in {"request", "answer"}
           /\ fstage' = "answer" <=> left'[1] = <<>>
<1> DEFINE a == SubSeq(left[1], 1, n)
           b == SubSeq(left[1], n + 1, Len(left[1]))
<1>1. /\ fstage = "request" /\ n \in 1 .. Len(left[1])
      /\ middle' = Forward!Put(middle, "down", a)
      /\ left' = [left EXCEPT ![1] = b]
      /\ fstage' = IF n = Len(left[1]) THEN "answer" ELSE "request"
      /\ UNCHANGED <<mode, key, target, asked, last, fchain, gchain, gstage, reached, port,
                     stray, sent, got>>
  BY DEF WriteRequest, setup, history
<1>2. left[1] \in Seq(Symbol) /\ left[2] \in Seq(Symbol) /\ middle.down \in Seq(Symbol)
      /\ left \in [1 .. 2 -> Seq(Symbol)] /\ middle \in LinkType
  BY TypedSeqs DEF Typed
<1>3. a \in Seq(Symbol) /\ b \in Seq(Symbol) /\ a \o b = left[1]
  <2>1. n \in 0 .. Len(left[1])
    BY <1>1, <1>2
  <2> QED BY <1>2, <2>1, Cut, Zenon
<1>4. b = <<>> <=> n = Len(left[1])
  BY <1>1, <1>2, Parts
<1> HIDE DEF a, b
<1>5. /\ middle' \in LinkType /\ middle'.down = middle.down \o a
      /\ middle'.up = middle.up /\ middle'.shut = middle.shut
  BY <1>1, <1>2, <1>3, PutFields
<1>6. left' \in [1 .. 2 -> Seq(Symbol)] /\ left'[1] = b /\ left'[2] = left[2]
  BY <1>1, <1>2, <1>3
<1>7. Asking' = Asking
  <2>1. (middle.down \o a) \o b = middle.down \o (a \o b)
    BY <1>2, <1>3, Assoc, Zenon
  <2> QED BY <1>3, <1>5, <1>6, <2>1 DEF Asking
<1>8. Typed'
  BY <1>1, <1>5, <1>6 DEF Typed, NearStage
<1> QED BY <1>1, <1>4, <1>5, <1>6, <1>7, <1>8 DEF ShutGrows

LEMMA ReadAnswerKeeps ==
    ASSUME Typed, NEW n, ReadAnswer(n)
    PROVE  /\ Typed' /\ Asking' = Asking /\ ShutGrows
           /\ n \in 1 .. Len(middle.up) /\ n \in AnswerEnds
           /\ middle'.down = middle.down
           /\ middle'.up = SubSeq(middle.up, n + 1, Len(middle.up))
           /\ UNCHANGED <<mode, key, target, asked, last, left, gchain, gstage, reached, port,
                          stray, sent, got>>
           /\ fstage = "answer" /\ fstage' = "session"
           /\ fchain' = IF mode = "forward" THEN Forward!Started ELSE NoChain
<1>1. /\ fstage = "answer" /\ fstage' = "session" /\ n \in AnswerEnds /\ n <= Len(middle.up)
      /\ middle' = Forward!Drop(middle, "up", n)
      /\ fchain' = IF mode = "forward" THEN Forward!Started ELSE NoChain
      /\ UNCHANGED <<mode, key, target, asked, last, left, gchain, gstage, reached, port,
                     stray, sent, got>>
  BY DEF ReadAnswer, setup, history
<1>2. n \in 1 .. Len(middle.up)
  BY <1>1, TypedSeqs DEF AnswerEnds
<1>3. middle \in LinkType
  BY DEF Typed
<1>4. n \in 0 .. Len(middle.up)
  BY <1>2
<1>5. /\ middle' \in LinkType /\ middle'.up = SubSeq(middle.up, n + 1, Len(middle.up))
      /\ middle'.down = middle.down /\ middle'.shut = middle.shut
  BY <1>1, <1>3, <1>4, DropFields
<1>6. Typed'
  BY <1>1, <1>5, StartedIs, NoChainIs DEF Typed, NearStage
<1> QED BY <1>1, <1>2, <1>5, <1>6 DEF Asking, ShutGrows

LEMMA GatewayHeadKeeps ==
    ASSUME Typed, GatewayHead
    PROVE  /\ Typed' /\ ShutGrows /\ Len(middle.down) >= 3
           /\ middle'.down = SubSeq(middle.down, 4, Len(middle.down)) /\ middle'.up = middle.up
           /\ left'[1] = left[1]
           /\ gstage = "head"
           /\ UNCHANGED <<mode, key, target, asked, last, fchain, gchain, fstage, port, dangling,
                          stray, sent, got>>
           /\ LET head == SubSeq(middle.down, 1, 3)
              IN  IF head = Connect
                  THEN gstage' = "body" /\ UNCHANGED <<left, reached>>
                  ELSE /\ gstage' \in {"yes", "no"} /\ reached' = Decode(head)
                       /\ left'[2] = Answer("forward", gstage')
<1> DEFINE head == SubSeq(middle.down, 1, 3)
           answer == Answer("forward", gstage')
<1>1. /\ gstage = "head" /\ Len(middle.down) >= 3
      /\ middle' = Forward!Drop(middle, "down", 3)
      /\ UNCHANGED <<mode, key, target, asked, last, fchain, gchain, fstage, port, dangling,
                     stray, sent, got>>
      /\ IF head = Connect
         THEN gstage' = "body" /\ UNCHANGED <<left, reached>>
         ELSE /\ gstage' \in {"yes", "no"} /\ reached' = Decode(head)
              /\ left' = [left EXCEPT ![2] = answer]
  BY DEF GatewayHead, HeadSize, setup, acceptor, history
<1>2. answer \in Seq(Symbol)
  BY AnswerTyped
<1>3. middle \in LinkType /\ 3 \in 0 .. Len(middle.down) /\ left \in [1 .. 2 -> Seq(Symbol)]
  BY <1>1, TypedSeqs DEF Typed
<1>4. /\ middle' \in LinkType /\ middle'.down = SubSeq(middle.down, 4, Len(middle.down))
      /\ middle'.up = middle.up /\ middle'.shut = middle.shut
  BY <1>1, <1>3, DropFields
<1> HIDE DEF head, answer
<1>5. left' \in [1 .. 2 -> Seq(Symbol)] /\ left'[1] = left[1] /\ (head # Connect => left'[2] = answer)
  BY <1>1, <1>2, <1>3
<1>6. Typed'
  BY <1>1, <1>4, <1>5 DEF Typed, GatewayStage
<1>7. ShutGrows
  BY <1>1, <1>4 DEF ShutGrows
<1> QED BY <1>1, <1>4, <1>5, <1>6, <1>7 DEF head, answer

LEMMA GatewayBodyKeeps ==
    ASSUME Typed, NEW n, GatewayBody(n)
    PROVE  /\ Typed' /\ ShutGrows
           /\ n \in 1 .. Len(middle.down) /\ \E i \in 1 .. n : middle.down[i] = Blank
           /\ middle'.down = SubSeq(middle.down, n + 1, Len(middle.down)) /\ middle'.up = middle.up
           /\ left'[1] = left[1] /\ left'[2] = Answer("client", gstage')
           /\ gstage = "body" /\ gstage' \in {"yes", "no"} /\ reached' = SubSeq(middle.down, 1, 2)
           /\ UNCHANGED <<mode, key, target, asked, last, fchain, gchain, fstage, port, dangling,
                          stray, sent, got>>
<1> DEFINE answer == Answer("client", gstage')
<1>1. /\ gstage = "body" /\ n \in 1 .. Len(middle.down) /\ \E i \in 1 .. n : middle.down[i] = Blank
      /\ middle' = Forward!Drop(middle, "down", n)
      /\ gstage' \in {"yes", "no"} /\ reached' = SubSeq(middle.down, 1, 2)
      /\ left' = [left EXCEPT ![2] = answer]
      /\ UNCHANGED <<mode, key, target, asked, last, fchain, gchain, fstage, port, dangling,
                     stray, sent, got>>
  BY DEF GatewayBody, setup, acceptor, history
<1>2. answer \in Seq(Symbol)
  BY AnswerTyped
<1>3. middle \in LinkType /\ n \in 0 .. Len(middle.down) /\ left \in [1 .. 2 -> Seq(Symbol)]
  BY <1>1, TypedSeqs DEF Typed
<1>4. /\ middle' \in LinkType /\ middle'.down = SubSeq(middle.down, n + 1, Len(middle.down))
      /\ middle'.up = middle.up /\ middle'.shut = middle.shut
  BY <1>1, <1>3, DropFields
<1> HIDE DEF answer
<1>5. left' \in [1 .. 2 -> Seq(Symbol)] /\ left'[1] = left[1] /\ left'[2] = answer
  BY <1>1, <1>2, <1>3
<1>6. Typed'
  BY <1>1, <1>4, <1>5 DEF Typed, GatewayStage
<1>7. ShutGrows
  BY <1>1, <1>4 DEF ShutGrows
<1> QED BY <1>1, <1>4, <1>5, <1>6, <1>7 DEF answer

(* The answer is on its way, and when all of it is, the gateway goes on.   *)
LEMMA GatewayAnswerKeeps ==
    ASSUME Typed, NEW n, GatewayAnswer(n)
    PROVE  /\ Typed' /\ ShutGrows /\ Asking' = Asking
           /\ n \in 1 .. Len(left[2])
           /\ middle'.down = middle.down
           /\ middle'.up = middle.up \o SubSeq(left[2], 1, n)
           /\ left'[1] = left[1] /\ left'[2] = SubSeq(left[2], n + 1, Len(left[2]))
           /\ gstage \in {"yes", "no"}
           /\ IF left'[2] # <<>> THEN gstage' = gstage ELSE gstage' \in {"connecting", "dead"}
           /\ UNCHANGED <<mode, key, target, asked, last, fchain, gchain, fstage, reached, port,
                          dangling, stray, sent, got>>
<1> DEFINE a == SubSeq(left[2], 1, n)
           b == SubSeq(left[2], n + 1, Len(left[2]))
           wrote == Forward!Put(middle, "up", a)
<1>1. /\ gstage \in {"yes", "no"} /\ n \in 1 .. Len(left[2])
      /\ left' = [left EXCEPT ![2] = b]
      /\ \/ n < Len(left[2]) /\ middle' = wrote /\ gstage' = gstage
         \/ n = Len(left[2]) /\ middle' = wrote /\ gstage' = "connecting"
         \/ n = Len(left[2]) /\ middle' = Forward!Shut(wrote, "far") /\ gstage' = "dead"
      /\ UNCHANGED <<mode, key, target, asked, last, fchain, gchain, fstage, reached, port,
                     dangling, stray, sent, got>>
  BY TypedSeqs, SMTT(30) DEF GatewayAnswer, setup, acceptor, history
<1>2. left[1] \in Seq(Symbol) /\ left[2] \in Seq(Symbol) /\ middle.down \in Seq(Symbol)
      /\ left \in [1 .. 2 -> Seq(Symbol)] /\ middle \in LinkType
  BY TypedSeqs DEF Typed
<1>3. a \in Seq(Symbol) /\ b \in Seq(Symbol)
  BY <1>1, <1>2
<1>4. b = <<>> <=> n = Len(left[2])
  BY <1>1, <1>2, Parts
<1> HIDE DEF a, b
<1>5. /\ wrote \in LinkType /\ wrote.up = middle.up \o a
      /\ wrote.down = middle.down /\ wrote.shut = middle.shut
  BY <1>2, <1>3, PutFields
<1> HIDE DEF wrote
<1>6. /\ Forward!Shut(wrote, "far") \in LinkType
      /\ Forward!Shut(wrote, "far").down = wrote.down /\ Forward!Shut(wrote, "far").up = wrote.up
      /\ wrote.shut \subseteq Forward!Shut(wrote, "far").shut
  BY <1>5, ShutFields
<1>7. /\ middle' \in LinkType /\ middle'.down = middle.down /\ middle'.up = middle.up \o a
      /\ middle.shut \subseteq middle'.shut
  BY <1>1, <1>5, <1>6
<1>8. left' \in [1 .. 2 -> Seq(Symbol)] /\ left'[1] = left[1] /\ left'[2] = b
  BY <1>1, <1>2, <1>3
<1>9. Typed'
  BY <1>1, <1>7, <1>8 DEF Typed, GatewayStage
<1>10. Asking' = Asking /\ ShutGrows
  BY <1>1, <1>7, <1>8 DEF Asking, ShutGrows
<1>11. IF left'[2] # <<>> THEN gstage' = gstage ELSE gstage' \in {"connecting", "dead"}
  BY <1>1, <1>4, <1>8
<1> QED BY <1>1, <1>7, <1>8, <1>9, <1>10, <1>11 DEF a, b

LEMMA ForwardRelaysKeeps ==
    ASSUME Typed, ForwardRelays
    PROVE  /\ Typed' /\ ShutGrows /\ mode = "forward" /\ fstage = "session" /\ ~Forward!Stopped
           /\ \E x \in Seq(Symbol) : middle'.down = middle.down \o x
           /\ UNCHANGED <<mode, key, target, last, gchain, fstage, gstage, left, reached, port,
                          dangling, stray, sent, got>>
           /\ \/ /\ Forward!Stopped'
                 /\ asked'.down = asked.down /\ asked'.up = asked.up
                 /\ middle'.down = middle.down /\ middle'.up = middle.up
              \/ /\ ~Forward!Stopped'
                 /\ Flow(asked.down, fchain["down"].data, middle.down,
                         asked'.down, fchain'["down"].data, middle'.down)
                 /\ Flow(middle.up, fchain["up"].data, asked.up,
                         middle'.up, fchain'["up"].data, asked'.up)
<1>1. /\ mode = "forward" /\ fstage = "session" /\ Forward!Step
      /\ UNCHANGED <<mode, key, target, last, gchain, fstage, gstage, left, reached, port, dangling,
                     stray, sent, got>>
  BY DEF ForwardRelays, setup, stages, acceptor, history
<1>2. asked \in LinkType /\ middle \in LinkType /\ Chains(fchain)
  BY DEF Typed
<1>3. /\ asked' \in LinkType /\ middle' \in LinkType /\ Chains(fchain') /\ ~Forward!Stopped
      /\ asked.shut \subseteq asked'.shut /\ middle.shut \subseteq middle'.shut
      /\ \/ /\ Forward!Stopped'
            /\ asked'.down = asked.down /\ asked'.up = asked.up
            /\ middle'.down = middle.down /\ middle'.up = middle.up
         \/ /\ ~Forward!Stopped'
            /\ Flow(asked.down, fchain["down"].data, middle.down,
                    asked'.down, fchain'["down"].data, middle'.down)
            /\ Flow(middle.up, fchain["up"].data, asked.up,
                    middle'.up, fchain'["up"].data, asked'.up)
  BY <1>1, <1>2, ForwardStep, Zenon
<1>4. Typed'
  BY <1>1, <1>3 DEF Typed
<1>5. ShutGrows
  BY <1>1, <1>3 DEF ShutGrows
<1>6. \E x \in Seq(Symbol) : middle'.down = middle.down \o x
  <2>1. CASE middle'.down = middle.down
    <3>1. <<>> \in Seq(Symbol) /\ middle.down \o <<>> = middle.down
      BY Nothing, TypedSeqs
    <3> QED BY <2>1, <3>1
  <2>2. CASE Flow(asked.down, fchain["down"].data, middle.down,
                  asked'.down, fchain'["down"].data, middle'.down)
    BY <2>2 DEF Flow
  <2> QED BY <1>3, <2>1, <2>2
<1> QED BY <1>1, <1>3, <1>4, <1>5, <1>6, Zenon

LEMMA GatewayRelaysKeeps ==
    ASSUME Typed, GatewayRelays
    PROVE  /\ Typed' /\ ShutGrows /\ gstage = "session" /\ ~Gateway!Stopped
           /\ UNCHANGED <<mode, key, target, asked, fchain, fstage, gstage, left, reached, port,
                          dangling, stray, sent, got>>
           /\ \/ /\ Gateway!Stopped'
                 /\ middle'.down = middle.down /\ middle'.up = middle.up
                 /\ last'.down = last.down /\ last'.up = last.up
              \/ /\ ~Gateway!Stopped'
                 /\ Flow(middle.down, gchain["down"].data, last.down,
                         middle'.down, gchain'["down"].data, last'.down)
                 /\ Flow(last.up, gchain["up"].data, middle.up,
                         last'.up, gchain'["up"].data, middle'.up)
<1>1. /\ gstage = "session" /\ Gateway!Step
      /\ UNCHANGED <<mode, key, target, asked, fchain, fstage, gstage, left, reached, port,
                     dangling, stray, sent, got>>
  BY DEF GatewayRelays, setup, stages, acceptor, history
<1>2. middle \in LinkType /\ last \in LinkType /\ Chains(gchain)
  BY DEF Typed
<1>3. /\ middle' \in LinkType /\ last' \in LinkType /\ Chains(gchain') /\ ~Gateway!Stopped
      /\ middle.shut \subseteq middle'.shut /\ last.shut \subseteq last'.shut
      /\ \/ /\ Gateway!Stopped'
            /\ middle'.down = middle.down /\ middle'.up = middle.up
            /\ last'.down = last.down /\ last'.up = last.up
         \/ /\ ~Gateway!Stopped'
            /\ Flow(middle.down, gchain["down"].data, last.down,
                    middle'.down, gchain'["down"].data, last'.down)
            /\ Flow(last.up, gchain["up"].data, middle.up,
                    last'.up, gchain'["up"].data, middle'.up)
  BY <1>1, <1>2, GatewayStep, Zenon
<1>4. Typed'
  BY <1>1, <1>3 DEF Typed
<1>5. ShutGrows
  BY <1>1, <1>3 DEF ShutGrows
<1> QED BY <1>1, <1>3, <1>4, <1>5, Zenon

(* What the ends send and get.                                             *)
LEMMA PayloadTyped ==
    ASSUME Typed, NEW d \in Dirs
    PROVE  NextByte(d) \in Symbol /\ <<NextByte(d)>> \in Seq(Symbol)
<1>1. Len(sent[d]) \in Nat
  BY DEF Typed
<1>2. \A n \in Nat : {n} \in Symbol
  BY DEF Symbol
<1>3. Width + 2 + Len(sent[d]) + (IF d = "down" THEN 0 ELSE MaxBytes) \in Nat
  <2>1. \A w, l, m \in Nat : w + 2 + l + 0 \in Nat /\ w + 2 + l + m \in Nat
    OBVIOUS
  <2>2. Width \in Nat /\ MaxBytes \in Nat
    BY TunnelAssumption
  <2> QED BY <1>1, <2>1, <2>2
<1>4. NextByte(d) \in Symbol
  BY <1>2, <1>3 DEF NextByte, Payload
<1> QED BY <1>4

LEMMA Appended ==
    \A s \in Seq(Symbol), c \in Symbol : Append(s, c) \in Seq(Symbol) /\ Append(s, c) = s \o <<c>>
  OBVIOUS

LEMMA First ==
    \A s \in Seq(Symbol) : s # <<>> => Head(s) \in Symbol /\ SubSeq(s, 1, 1) = <<Head(s)>>
<1> SUFFICES ASSUME NEW s \in Seq(Symbol), s # <<>>
             PROVE  Head(s) \in Symbol /\ SubSeq(s, 1, 1) = <<Head(s)>>
  OBVIOUS
<1>1. Head(s) = s[1] /\ 1 \in 1 .. Len(s) /\ s[1] \in Symbol
  OBVIOUS
<1> DEFINE f == SubSeq(s, 1, 1)
<1>2. Len(f) = 1 /\ f \in Seq(Symbol) /\ f[1] = s[1]
  BY <1>1
<1> HIDE DEF f
<1>3. f = <<f[1]>>
  BY <1>2
<1> QED BY <1>1, <1>2, <1>3 DEF f

LEMMA SendsKeeps ==
    ASSUME Typed, NEW d \in Dirs, Sends(d)
    PROVE  /\ sent' \in [Dirs -> Seq(Symbol)] /\ UNCHANGED <<stray, got>>
           /\ sent'[d] = sent[d] \o <<NextByte(d)>>
           /\ \A e \in Dirs \ {d} : sent'[e] = sent[e]
<1> DEFINE c == NextByte(d)
<1>1. c \in Symbol /\ sent \in [Dirs -> Seq(Symbol)]
  BY PayloadTyped DEF Typed
<1>2. sent' = [sent EXCEPT ![d] = Append(sent[d], c)] /\ UNCHANGED <<stray, got>>
  BY DEF Sends
<1> HIDE DEF c
<1>3. Append(sent[d], c) \in Seq(Symbol) /\ Append(sent[d], c) = sent[d] \o <<c>>
  BY <1>1, Appended
<1>4. sent' \in [Dirs -> Seq(Symbol)] /\ sent'[d] = sent[d] \o <<c>>
      /\ \A e \in Dirs \ {d} : sent'[e] = sent[e]
  BY <1>1, <1>2, <1>3
<1> QED BY <1>2, <1>4 DEF c

LEMMA GetsKeeps ==
    ASSUME Typed, NEW d \in Dirs, NEW link \in LinkType, link[d] \in Seq(Symbol), link[d] # <<>>,
           Gets(link, d)
    PROVE  /\ got' \in [Dirs -> Seq(Symbol)] /\ UNCHANGED <<stray, sent>>
           /\ got'[d] = got[d] \o SubSeq(link[d], 1, 1)
           /\ \A e \in Dirs \ {d} : got'[e] = got[e]
<1> DEFINE c == Head(link[d])
<1>1. c \in Symbol /\ got \in [Dirs -> Seq(Symbol)] /\ SubSeq(link[d], 1, 1) = <<c>>
  BY First DEF Typed
<1>2. got' = [got EXCEPT ![d] = Append(got[d], c)] /\ UNCHANGED <<stray, sent>>
  BY DEF Gets, Typed
<1> HIDE DEF c
<1>3. Append(got[d], c) \in Seq(Symbol) /\ Append(got[d], c) = got[d] \o <<c>>
  BY <1>1, Appended
<1>4. got' \in [Dirs -> Seq(Symbol)] /\ got'[d] = got[d] \o <<c>>
      /\ \A e \in Dirs \ {d} : got'[e] = got[e]
  BY <1>1, <1>2, <1>3
<1> QED BY <1>1, <1>2, <1>4

LEMMA NearSendsKeeps ==
    ASSUME Typed, NearSends
    PROVE  /\ Typed' /\ SameShut /\ NearUp
           /\ sent'["down"] = sent["down"] \o <<NextByte("down")>> /\ sent'["up"] = sent["up"]
           /\ Len(sent["down"]) < MaxBytes
           /\ asked'.up = asked.up /\ middle'.up = middle.up
           /\ IF mode = "forward"
              THEN asked'.down = asked.down \o <<NextByte("down")>> /\ middle' = middle
              ELSE middle'.down = middle.down \o <<NextByte("down")>> /\ asked' = asked
           /\ UNCHANGED <<mode, key, target, last, fchain, gchain, fstage, gstage, left, reached,
                          port, dangling, got>>
<1> DEFINE c == NextByte("down")
<1>1. /\ <<c>> \in Seq(Symbol) /\ asked \in LinkType /\ middle \in LinkType /\ "down" \in Dirs
      /\ "up" \in Dirs
  BY PayloadTyped, DirsAre DEF Typed
<1>2. /\ NearUp /\ Sends("down") /\ Len(sent["down"]) < MaxBytes
      /\ IF mode = "forward" THEN asked' = Forward!Put(asked, "down", <<c>>) /\ middle' = middle
                             ELSE middle' = Forward!Put(middle, "down", <<c>>) /\ asked' = asked
      /\ UNCHANGED <<mode, key, target, last, fchain, gchain, fstage, gstage, left, reached, port,
                     dangling>>
  BY DEF NearSends, SendOn, setup, stages, acceptor
<1>3. /\ sent' \in [Dirs -> Seq(Symbol)] /\ UNCHANGED <<stray, got>>
      /\ sent'["down"] = sent["down"] \o <<c>> /\ sent'["up"] = sent["up"]
  BY <1>1, <1>2, SendsKeeps
<1> HIDE DEF c
<1>4. /\ asked' \in LinkType /\ middle' \in LinkType
      /\ asked'.up = asked.up /\ middle'.up = middle.up
      /\ asked'.shut = asked.shut /\ middle'.shut = middle.shut
      /\ IF mode = "forward" THEN asked'.down = asked.down \o <<c>> /\ middle' = middle
                             ELSE middle'.down = middle.down \o <<c>> /\ asked' = asked
  <2>1. CASE mode = "forward"
    <3>1. asked' = Forward!Put(asked, "down", <<c>>) /\ middle' = middle
      BY <1>2, <2>1
    <3> QED BY <1>1, <2>1, <3>1, PutFields
  <2>2. CASE mode # "forward"
    <3>1. middle' = Forward!Put(middle, "down", <<c>>) /\ asked' = asked
      BY <1>2, <2>2
    <3> QED BY <1>1, <2>2, <3>1, PutFields
  <2> QED BY <2>1, <2>2
<1>5. Typed'
  BY <1>2, <1>3, <1>4 DEF Typed
<1>6. SameShut
  BY <1>2, <1>4 DEF SameShut
<1> QED BY <1>2, <1>3, <1>4, <1>5, <1>6 DEF c

LEMMA NearGetsKeeps ==
    ASSUME Typed, NearGets
    PROVE  /\ Typed' /\ SameShut /\ (mode = "client" => fstage = "session")
           /\ got'["down"] = got["down"]
           /\ asked'.down = asked.down /\ middle'.down = middle.down
           /\ LET link == IF mode = "forward" THEN asked.up ELSE middle.up
                  next == IF mode = "forward" THEN asked'.up ELSE middle'.up
              IN  /\ link # <<>> /\ next = SubSeq(link, 2, Len(link))
                  /\ got'["up"] = got["up"] \o SubSeq(link, 1, 1)
           /\ IF mode = "forward" THEN middle' = middle ELSE asked' = asked
           /\ UNCHANGED <<mode, key, target, last, fchain, gchain, fstage, gstage, left, reached,
                          port, dangling, sent>>
<1>1. /\ asked.up \in Seq(Symbol) /\ middle.up \in Seq(Symbol)
  BY TypedSeqs
<1>2. UNCHANGED <<mode, key, target, last, fchain, gchain, fstage, gstage, left, reached, port,
                  dangling>>
  BY DEF NearGets, setup, stages, acceptor
<1>5. /\ asked \in LinkType /\ middle \in LinkType /\ "down" \in Dirs /\ "up" \in Dirs
      /\ mode \in {"forward", "client"}
  BY DirsAre DEF Typed
<1>3. CASE mode = "forward"
  <2>1. /\ asked.up # <<>> /\ Gets(asked, "up")
        /\ asked' = Forward!Drop(asked, "up", 1) /\ middle' = middle
    BY <1>3 DEF NearGets
  <2>2. /\ got' \in [Dirs -> Seq(Symbol)] /\ UNCHANGED <<stray, sent>>
        /\ got'["up"] = got["up"] \o SubSeq(asked.up, 1, 1) /\ got'["down"] = got["down"]
    BY <1>1, <1>5, <2>1, GetsKeeps
  <2>3. 1 \in 0 .. Len(asked.up)
    BY <1>1, <2>1
  <2>4. /\ asked' \in LinkType /\ asked'.up = SubSeq(asked.up, 2, Len(asked.up))
        /\ asked'.down = asked.down /\ asked'.shut = asked.shut
    <3>1. LET next == Forward!Drop(asked, "up", 1)
          IN  /\ next \in LinkType /\ next.up = SubSeq(asked.up, 1 + 1, Len(asked.up))
              /\ next.down = asked.down /\ next.shut = asked.shut
      BY <1>5, <2>3, DropFields, Zenon
    <3> QED BY <2>1, <3>1
  <2>5. Typed'
    BY <1>2, <2>1, <2>2, <2>4 DEF Typed
  <2>6. SameShut
    BY <1>2, <2>1, <2>4 DEF SameShut
  <2> QED BY <1>2, <1>3, <2>1, <2>2, <2>4, <2>5, <2>6
<1>4. CASE mode = "client"
  <2>1. /\ fstage = "session" /\ middle.up # <<>> /\ Gets(middle, "up")
        /\ middle' = Forward!Drop(middle, "up", 1) /\ asked' = asked
    BY <1>4 DEF NearGets
  <2>2. /\ got' \in [Dirs -> Seq(Symbol)] /\ UNCHANGED <<stray, sent>>
        /\ got'["up"] = got["up"] \o SubSeq(middle.up, 1, 1) /\ got'["down"] = got["down"]
    BY <1>1, <1>5, <2>1, GetsKeeps
  <2>3. 1 \in 0 .. Len(middle.up)
    BY <1>1, <2>1
  <2>4. /\ middle' \in LinkType /\ middle'.up = SubSeq(middle.up, 2, Len(middle.up))
        /\ middle'.down = middle.down /\ middle'.shut = middle.shut
    <3>1. LET next == Forward!Drop(middle, "up", 1)
          IN  /\ next \in LinkType /\ next.up = SubSeq(middle.up, 1 + 1, Len(middle.up))
              /\ next.down = middle.down /\ next.shut = middle.shut
      BY <1>5, <2>3, DropFields, Zenon
    <3> QED BY <2>1, <3>1
  <2>5. Typed'
    BY <1>2, <2>1, <2>2, <2>4 DEF Typed
  <2>6. SameShut
    BY <1>2, <2>1, <2>4 DEF SameShut
  <2> QED BY <1>2, <1>4, <2>1, <2>2, <2>4, <2>5, <2>6
<1> QED BY <1>5, <1>3, <1>4

LEMMA TargetSendsKeeps ==
    ASSUME Typed, TargetSends
    PROVE  /\ Typed' /\ SameShut /\ gstage = "session" /\ (mode \in Patient => got["down"] # <<>>)
           /\ sent'["up"] = sent["up"] \o <<NextByte("up")>> /\ sent'["down"] = sent["down"]
           /\ Len(sent["up"]) < MaxBytes
           /\ last'.up = last.up \o <<NextByte("up")>> /\ last'.down = last.down
           /\ UNCHANGED <<mode, key, target, asked, middle, fchain, gchain, fstage, gstage, left,
                          reached, port, dangling, got>>
<1> DEFINE c == NextByte("up")
<1>1. <<c>> \in Seq(Symbol) /\ last \in LinkType /\ "down" \in Dirs /\ "up" \in Dirs
  BY PayloadTyped, DirsAre DEF Typed
<1>2. /\ gstage = "session" /\ (mode \in Patient => got["down"] # <<>>)
      /\ Sends("up") /\ Len(sent["up"]) < MaxBytes
      /\ last' = Forward!Put(last, "up", <<c>>)
      /\ UNCHANGED <<mode, key, target, asked, middle, fchain, gchain, fstage, gstage, left,
                     reached, port, dangling>>
  BY DEF TargetSends, SendOn, setup, stages, acceptor
<1>3. /\ sent' \in [Dirs -> Seq(Symbol)] /\ UNCHANGED <<stray, got>>
      /\ sent'["up"] = sent["up"] \o <<c>> /\ sent'["down"] = sent["down"]
  BY <1>1, <1>2, SendsKeeps
<1> HIDE DEF c
<1>4. /\ last' \in LinkType /\ last'.up = last.up \o <<c>> /\ last'.down = last.down
      /\ last'.shut = last.shut
  BY <1>1, <1>2, PutFields
<1>5. Typed'
  BY <1>2, <1>3, <1>4 DEF Typed
<1>6. SameShut
  BY <1>2, <1>4 DEF SameShut
<1> QED BY <1>2, <1>3, <1>4, <1>5, <1>6 DEF c

LEMMA TargetGetsKeeps ==
    ASSUME Typed, TargetGets
    PROVE  /\ Typed' /\ SameShut
           /\ last.down # <<>> /\ last'.down = SubSeq(last.down, 2, Len(last.down))
           /\ last'.up = last.up
           /\ got'["down"] = got["down"] \o SubSeq(last.down, 1, 1) /\ got'["up"] = got["up"]
           /\ UNCHANGED <<mode, key, target, asked, middle, fchain, gchain, fstage, gstage, left,
                          reached, port, dangling, sent>>
<1>1. last \in LinkType /\ last.down \in Seq(Symbol) /\ "down" \in Dirs /\ "up" \in Dirs
  BY DirsAre, TypedSeqs DEF Typed
<1>2. /\ last.down # <<>> /\ Gets(last, "down") /\ last' = Forward!Drop(last, "down", 1)
      /\ UNCHANGED <<mode, key, target, asked, middle, fchain, gchain, fstage, gstage, left,
                     reached, port, dangling>>
  BY DEF TargetGets, setup, stages, acceptor
<1>3. /\ got' \in [Dirs -> Seq(Symbol)] /\ UNCHANGED <<stray, sent>>
      /\ got'["down"] = got["down"] \o SubSeq(last.down, 1, 1) /\ got'["up"] = got["up"]
  BY <1>1, <1>2, GetsKeeps
<1>4. 1 \in 0 .. Len(last.down)
  BY <1>1, <1>2
<1>5. /\ last' \in LinkType /\ last'.down = SubSeq(last.down, 2, Len(last.down))
      /\ last'.up = last.up /\ last'.shut = last.shut
  BY <1>1, <1>2, <1>4, DropFields
<1>6. Typed'
  BY <1>2, <1>3, <1>5 DEF Typed
<1>7. SameShut
  BY <1>2, <1>5 DEF SameShut
<1> QED BY <1>2, <1>3, <1>5, <1>6, <1>7

LEMMA NextIs ==
    ASSUME Typed, [Next]_vars, ~stray'
    PROVE  \/ Quiet \/ ForwardRelays \/ GatewayRelays \/ GatewayHead
           \/ NearSends \/ NearGets \/ TargetSends \/ TargetGets
           \/ \E n \in 1 .. Capacity :
                WriteRequest(n) \/ ReadAnswer(n) \/ GatewayBody(n) \/ GatewayAnswer(n)
<1>1. ~Overwritten
  BY DEF Overwritten
<1>2. NearConnected => Quiet
  BY NearConnectedIs DEF Quiet
<1> QED BY <1>1, <1>2 DEF Next, NearThread, GatewayThread, Quiet

-----------------------------------------------------------------------------
(* Where the gateway goes *)

Leads(p, s) == Len(p) <= Len(s) /\ \A i \in 1 .. Len(p) : s[i] = p[i]

(* The key is drawn before anybody is accepted.                            *)
Keyed ==
    mode = "forward" =>
        IF port = "none" THEN fstage = "none" /\ dangling = FALSE ELSE key \in Keys

(* What the gateway has not read yet starts with the request, or, once the *)
(* head is gone, with the body.                                            *)
Asked ==
    /\ fstage \in {"none", "connecting"} => gstage = "none" /\ middle.down = <<>>
    /\ fstage \in {"answer", "session"} => left[1] = <<>>
    /\ gstage \in {"backlog", "head"} => Leads(Request, Asking)
    /\ gstage = "body" => mode = "client" /\ Leads(Body(target), Asking)

(* Where it went, it was to go.                                            *)
Reaches == reached # <<>> => reached = target

RInv == Keyed /\ Asked /\ Reaches

(* The elements of a concatenation, and of one whose first bytes are gone. *)
LEMMA Concatenated ==
    ASSUME NEW p \in Seq(Symbol), NEW q \in Seq(Symbol)
    PROVE  /\ Len(p) \in Nat /\ Len(q) \in Nat /\ Len(p \o q) = Len(p) + Len(q)
           /\ \A i \in 1 .. Len(p) : (p \o q)[i] = p[i]
           /\ \A i \in 1 .. Len(q) : (p \o q)[i + Len(p)] = q[i]
<1>1. Len(p) \in Nat /\ Len(q) \in Nat /\ Len(p \o q) = Len(p) + Len(q)
  OBVIOUS
<1>2. ASSUME NEW i \in 1 .. Len(p) PROVE (p \o q)[i] = p[i]
  OBVIOUS
<1>3. ASSUME NEW i \in 1 .. Len(q) PROVE (p \o q)[i + Len(p)] = q[i]
  OBVIOUS
<1> QED BY <1>1, <1>2, <1>3

LEMMA HeadGone ==
    ASSUME NEW p \in Seq(Symbol), NEW q \in Seq(Symbol), NEW n \in 0 .. Len(p)
    PROVE  LET rest == SubSeq(p, n + 1, Len(p))
           IN  /\ Len(rest \o q) = Len(p \o q) - n
               /\ \A i \in 1 .. Len(p \o q) - n : (rest \o q)[i] = (p \o q)[i + n]
<1> DEFINE rest == SubSeq(p, n + 1, Len(p))
<1>1. /\ rest \in Seq(Symbol) /\ Len(rest) = Len(p) - n
      /\ \A i \in 1 .. Len(p) - n : rest[i] = p[n + i]
  BY Parts
<1> HIDE DEF rest
<1>2. /\ Len(p) \in Nat /\ Len(q) \in Nat /\ n \in Nat /\ n <= Len(p)
      /\ Len(p \o q) = Len(p) + Len(q) /\ Len(rest \o q) = Len(p) - n + Len(q)
  <2>1. Len(p \o q) = Len(p) + Len(q) /\ Len(rest \o q) = Len(rest) + Len(q)
    BY <1>1, Concatenated, Zenon
  <2>2. Len(p) \in Nat /\ Len(q) \in Nat /\ n \in Nat /\ n <= Len(p)
    OBVIOUS
  <2> QED BY <1>1, <2>1, <2>2
<1>3. ASSUME NEW i \in 1 .. Len(p \o q) - n PROVE (rest \o q)[i] = (p \o q)[i + n]
  <2>1. CASE i <= Len(p) - n
    <3>1. i \in 1 .. Len(rest) /\ i + n \in 1 .. Len(p) /\ n + i = i + n
      BY <1>1, <1>2, <2>1
    <3>2. (rest \o q)[i] = rest[i] /\ (p \o q)[i + n] = p[i + n]
      BY <1>1, <3>1, Concatenated
    <3> QED BY <1>1, <3>1, <3>2
  <2>2. CASE i > Len(p) - n
    <3> DEFINE j == i - (Len(p) - n)
    <3>1. j \in 1 .. Len(q) /\ i = j + Len(rest) /\ i + n = j + Len(p)
      BY <1>1, <1>2, <2>2
    <3> HIDE DEF j
    <3>2. (rest \o q)[j + Len(rest)] = q[j] /\ (p \o q)[j + Len(p)] = q[j]
      BY <1>1, <3>1, Concatenated
    <3> QED BY <3>1, <3>2
  <2> QED BY <1>2, <2>1, <2>2
<1> QED BY <1>2, <1>3 DEF rest

(* The encoding is undone with its own key.                                *)
LEMMA XorTwice == \A a, b : Xor(a, Xor(a, b)) = b
  BY DEF Xor

LEMMA DecodeMessage ==
    ASSUME Typed, NEW head, Len(head) = 3,
           \A i \in 1 .. 3 : head[i] = MakeForwardMessage(key, target)[i]
    PROVE  Decode(head) = target /\ (key \in Keys => head # Connect)
<1>1. head[1] = key /\ head[2] = Xor(key, target[1]) /\ head[3] = Xor(key, target[2])
  BY DEF MakeForwardMessage
<1>2. target = <<target[1], target[2]>>
  BY DEF Typed
<1>3. Decode(head) = target
  BY <1>1, <1>2, XorTwice DEF Decode
<1>4. ASSUME key \in Keys, head = Connect PROVE FALSE
  <2>1. key = LetterC
    BY <1>1, <1>4 DEF Connect
  <2> QED BY <1>4, <2>1 DEF Keys
<1> QED BY <1>3, <1>4

LEMMA LeadsGrows ==
    ASSUME NEW p \in Seq(Symbol), NEW s \in Seq(Symbol), NEW x \in Seq(Symbol), Leads(p, s)
    PROVE  Leads(p, s \o x)
<1>1. Len(s \o x) = Len(s) + Len(x) /\ \A i \in 1 .. Len(s) : (s \o x)[i] = s[i]
  OBVIOUS
<1> QED BY <1>1 DEF Leads

(* What only appends to what is asked keeps the invariant.                 *)
LEMMA AskedGrows ==
    ASSUME Typed, Typed', Asked, NEW x \in Seq(Symbol), Asking' = Asking \o x,
           UNCHANGED <<mode, target, key, gstage>>,
           fstage' \in {"none", "connecting"} => fstage' = fstage /\ middle'.down = middle.down,
           fstage' \in {"answer", "session"} => left'[1] = <<>>
    PROVE  Asked'
<1>1. Request' = Request /\ Body(target)' = Body(target)
  BY DEF Request
<1>2. Asking \in Seq(Symbol) /\ Request \in Seq(Symbol) /\ Body(target) \in Seq(Symbol)
  BY TypedSeqs, RequestTyped
<1>3. gstage' \in {"backlog", "head"} => Leads(Request, Asking)'
  <2>1. ASSUME gstage' \in {"backlog", "head"} PROVE Leads(Request, Asking \o x)
    BY <1>2, <2>1, LeadsGrows DEF Asked
  <2>2. Leads(Request, Asking \o x) => Leads(Request, Asking)'
    BY <1>1 DEF Leads
  <2> QED BY <2>1, <2>2
<1>4. gstage' = "body" => Leads(Body(target), Asking)'
  <2>1. ASSUME gstage' = "body" PROVE Leads(Body(target), Asking \o x)
    BY <1>2, <2>1, LeadsGrows DEF Asked
  <2>2. Leads(Body(target), Asking \o x) => Leads(Body(target), Asking)'
    BY <1>1 DEF Leads
  <2> QED BY <2>1, <2>2
<1> QED BY <1>3, <1>4 DEF Asked

(* Bytes at the other end, and connections that are closed.                *)
LEMMA AskedSame ==
    ASSUME Typed, Typed', Asked, Asking' = Asking, middle'.down = middle.down \/ fstage = "request",
           UNCHANGED <<mode, target, key, gstage>>,
           fstage' \in {"none", "connecting"} => fstage' = fstage,
           fstage' \in {"answer", "session"} => left'[1] = <<>>
    PROVE  Asked'
<1>1. <<>> \in Seq(Symbol) /\ Asking' = Asking \o <<>>
  BY Nothing, TypedSeqs
<1>2. fstage' \in {"none", "connecting"} => fstage' = fstage /\ middle'.down = middle.down
  OBVIOUS
<1> QED BY <1>1, <1>2, AskedGrows

LEMMA InitR == Init => RInv
<1> SUFFICES ASSUME Init PROVE RInv
  OBVIOUS
<1>1. gstage = "none" /\ fstage = "none" /\ port = "none" /\ reached = <<>> /\ middle.down = <<>>
      /\ dangling = FALSE
  BY DEF Init, Forward!NewLink, Forward!Link
<1> QED BY <1>1 DEF RInv, Keyed, Asked, Reaches

LEMMA QuietR == ASSUME Typed, RInv, Quiet PROVE RInv'
<1>1. Typed' /\ SameData
  BY QuietKeeps
<1>2. Reaches'
  <2>1. UNCHANGED <<reached, target>>
    BY DEF Quiet, Acquire, Begin, AcceptFails, Release, AcceptCancelled, Connected, NearFails,
           NearExit, Crash, GatewayAccept, GatewayConnected, GatewayFails, GatewayExit, NearFinishes,
           TargetFinishes, MiddleBreaks, vars, stages, setup
  <2> QED BY <2>1 DEF RInv, Reaches
<1>3. Keyed'
  <2>1. CASE Acquire
    BY <2>1 DEF Acquire, Keyed
  <2>2. CASE Begin \/ AcceptFails \/ Release \/ AcceptCancelled
    <3>1. UNCHANGED <<mode, key>> /\ (mode = "forward" => port # "none" /\ port' # "none")
      BY <2>2 DEF Begin, AcceptFails, Release, AcceptCancelled, setup, acceptor, stages
    <3> QED BY <3>1 DEF RInv, Keyed
  <2>3. CASE Connected \/ NearFails \/ NearExit \/ Crash
    <3>1. UNCHANGED <<mode, key>> /\ (port' # "none" \/ port' = port)
          /\ (fstage # "none" \/ dangling)
      <4>1. CASE Connected
        BY <4>1 DEF Connected, setup
      <4>2. CASE NearFails
        BY <4>2 DEF NearFails, setup
      <4>3. CASE NearExit
        BY <4>3 DEF NearExit, setup
      <4>4. CASE Crash
        BY <4>4 DEF Crash, setup, acceptor
      <4> QED BY <2>3, <4>1, <4>2, <4>3, <4>4
    <3> QED BY <3>1 DEF RInv, Keyed
  <2>4. CASE GatewayAccept \/ GatewayConnected \/ GatewayFails \/ GatewayExit
    <3>1. UNCHANGED <<mode, key, port, dangling, fstage>>
      BY <2>4 DEF GatewayAccept, GatewayConnected, GatewayFails, GatewayExit, setup, acceptor
    <3> QED BY <3>1 DEF RInv, Keyed
  <2>5. CASE NearFinishes \/ TargetFinishes \/ MiddleBreaks \/ UNCHANGED vars
    <3>1. UNCHANGED <<mode, key, port, dangling, fstage>>
      BY <2>5 DEF NearFinishes, TargetFinishes, MiddleBreaks, vars, stages, setup, acceptor
    <3> QED BY <3>1 DEF RInv, Keyed
  <2> QED BY <2>1, <2>2, <2>3, <2>4, <2>5 DEF Quiet
<1>4. Asked'
  <2>1. CASE Connected
    <3>1. /\ fstage = "connecting" /\ fstage' = "request" /\ gstage' = "backlog"
          /\ left' = [left EXCEPT ![1] = Request]
          /\ UNCHANGED <<mode, target, key>>
      BY <2>1 DEF Connected, setup
    <3>2. middle.down = <<>> /\ middle'.down = <<>>
      BY <1>1, <3>1 DEF RInv, Asked, SameData
    <3>3. left'[1] = Request /\ Request \in Seq(Symbol)
      <4>1. left \in [1 .. 2 -> Seq(Symbol)]
        BY DEF Typed
      <4> QED BY <3>1, <4>1, RequestTyped
    <3>4. Asking' = Request /\ Request' = Request
      BY <3>1, <3>2, <3>3, Nothing DEF Asking, Request
    <3>5. Leads(Request, Asking)'
      BY <3>3, <3>4 DEF Leads
    <3> QED BY <3>1, <3>5 DEF Asked
  <2>2. CASE Acquire
    <3>1. /\ port = "none" /\ mode = "forward"
          /\ UNCHANGED <<mode, target, middle, left, fstage, gstage>>
      BY <2>2 DEF Acquire, links, stages
    <3>2. fstage' = "none" /\ gstage' = "none" /\ middle'.down = <<>>
      BY <3>1 DEF RInv, Keyed, Asked
    <3> QED BY <3>2 DEF Asked
  <2>3. CASE GatewayAccept \/ GatewayConnected \/ GatewayFails \/ GatewayExit
    <3>1. UNCHANGED <<mode, target, key, fstage, left>> /\ middle'.down = middle.down
          /\ gstage # "none" /\ (gstage' \in {"backlog", "head"} => gstage = "backlog")
          /\ gstage' # "body"
      BY <1>1, <2>3 DEF GatewayAccept, GatewayConnected, GatewayFails, GatewayExit, GatewayGone,
                        setup,
                        stages, SameData
    <3>2. Asking' = Asking /\ Request' = Request
      BY <3>1 DEF Asking, Request
    <3>3. Leads(Request, Asking) => Leads(Request, Asking)'
      BY <3>2 DEF Leads
    <3> QED BY <3>1, <3>3 DEF RInv, Asked
  <2>4. CASE ~(Connected \/ Acquire \/ GatewayAccept \/ GatewayConnected \/ GatewayFails
               \/ GatewayExit)
    <3>1. UNCHANGED <<mode, target, key, gstage, left>>
          /\ (fstage' = fstage \/ fstage' = "dead" \/ (fstage = "none" /\ fstage' = "connecting"))
      <4>1. CASE Begin \/ AcceptFails \/ Release \/ AcceptCancelled
        BY <4>1 DEF Begin, AcceptFails, Release, AcceptCancelled, setup, stages
      <4>2. CASE NearFails
        BY <4>2 DEF NearFails, NearGone, setup
      <4>3. CASE NearExit \/ Crash
        BY <4>3 DEF NearExit, Crash, NearGone, setup
      <4>4. CASE NearFinishes \/ TargetFinishes \/ MiddleBreaks \/ UNCHANGED vars
        BY <4>4 DEF NearFinishes, TargetFinishes, MiddleBreaks, vars, stages, setup
      <4> QED BY <2>4, <4>1, <4>2, <4>3, <4>4 DEF Quiet
    <3>a. middle'.down = middle.down
      BY <1>1 DEF SameData
    <3>2. Asking' = Asking /\ Request' = Request
      BY <3>1, <3>a DEF Asking, Request
    <3>3. Leads(Request, Asking) => Leads(Request, Asking)'
      BY <3>2 DEF Leads
    <3>4. Leads(Body(target), Asking) => Leads(Body(target), Asking)'
      BY <3>1, <3>2 DEF Leads
    <3> QED BY <3>1, <3>a, <3>3, <3>4 DEF RInv, Asked
  <2> QED BY <2>1, <2>2, <2>3, <2>4
<1> QED BY <1>2, <1>3, <1>4 DEF RInv

LEMMA GatewayHeadR ==
    ASSUME Typed, RInv, GatewayHead
    PROVE  /\ RInv'
           /\ mode = "forward" => gstage' \in {"yes", "no"}
           /\ mode = "client" => gstage' = "body"
<1> DEFINE head == SubSeq(middle.down, 1, 3)
<1>1. /\ Typed' /\ Len(middle.down) >= 3 /\ gstage = "head" /\ left'[1] = left[1]
      /\ middle'.down = SubSeq(middle.down, 4, Len(middle.down))
      /\ UNCHANGED <<mode, key, target, fstage, port, dangling>>
      /\ IF head = Connect THEN gstage' = "body" /\ reached' = reached
                           ELSE gstage' \in {"yes", "no"} /\ reached' = Decode(head)
  BY GatewayHeadKeeps
<1>2. Leads(Request, Asking) /\ fstage \notin {"none", "connecting"}
  BY <1>1 DEF RInv, Asked
<1>3. middle.down \in Seq(Symbol) /\ left[1] \in Seq(Symbol) /\ 3 \in 0 .. Len(middle.down)
      /\ Request \in Seq(Symbol) /\ Len(Request) >= 3
      /\ Body(target) \in Seq(Symbol) /\ Len(Body(target)) = 3
      /\ mode \in {"forward", "client"}
  <2>1. middle.down \in Seq(Symbol) /\ left[1] \in Seq(Symbol) /\ mode \in {"forward", "client"}
    BY TypedSeqs DEF Typed
  <2>2. /\ Request \in Seq(Symbol) /\ Len(Request) >= 3
        /\ Body(target) \in Seq(Symbol) /\ Len(Body(target)) = 3
    BY <2>1, RequestTyped
  <2>3. 3 \in 0 .. Len(middle.down)
    BY <1>1, <2>1
  <2> QED BY <2>1, <2>2, <2>3, Zenon
<1>4. \A i \in 1 .. 3 : Asking[i] = middle.down[i]
  <2>1. \A i \in 1 .. Len(middle.down) : Asking[i] = middle.down[i]
    BY <1>3, Concatenated DEF Asking
  <2>2. \A i \in 1 .. 3 : i \in 1 .. Len(middle.down)
    BY <1>1, <1>3
  <2> QED BY <2>1, <2>2
<1>5. Len(head) = 3 /\ \A i \in 1 .. 3 : head[i] = middle.down[i]
  BY <1>3, Parts
<1>6. \A i \in 1 .. 3 : head[i] = Request[i]
  BY <1>2, <1>3, <1>4, <1>5 DEF Leads
<1> HIDE DEF head
<1>7. CASE mode = "forward"
  <2>1. key \in Keys
    BY <1>2, <1>7 DEF RInv, Keyed
  <2>2. Decode(head) = target /\ head # Connect
    BY <1>5, <1>6, <1>7, <2>1, DecodeMessage DEF Request
  <2>3. reached' = target' /\ gstage' \in {"yes", "no"}
    BY <1>1, <2>2
  <2> QED BY <1>1, <1>2, <1>7, <2>3 DEF RInv, Keyed, Asked, Reaches
<1>8. CASE mode = "client"
  <2>1. Request = Connect \o Body(target)
    BY <1>8 DEF Request
  <2>2. Connect \in Seq(Symbol) /\ Len(Connect) = 3
    <3>1. LetterC \in Symbol /\ {2} \in Symbol /\ {1, 2} \in Symbol
      BY DEF Symbol, LetterC
    <3> QED BY <3>1 DEF Connect
  <2> HIDE DEF Connect
  <2> DEFINE b == Body(target)
  <2>a. b \in Seq(Symbol) /\ Len(b) = 3
    BY <1>3
  <2> HIDE DEF b
  <2>3. /\ Len(Connect \o b) = 6
        /\ \A i \in 1 .. 3 : (Connect \o b)[i] = Connect[i] /\ (Connect \o b)[i + 3] = b[i]
    <3>1. Len(Connect \o b) = Len(Connect) + Len(b)
      BY <2>2, <2>a, Concatenated, Zenon
    <3>2. \A i \in 1 .. Len(Connect) : (Connect \o b)[i] = Connect[i]
      BY <2>2, <2>a, Concatenated, Zenon
    <3>3. \A i \in 1 .. Len(b) : (Connect \o b)[i + Len(Connect)] = b[i]
      BY <2>2, <2>a, Concatenated, Zenon
    <3> QED BY <2>2, <2>a, <3>1, <3>2, <3>3
  <2>4. head = Connect
    <3>1. \A i \in 1 .. 3 : head[i] = Connect[i]
      BY <1>6, <2>1, <2>3 DEF b
    <3>2. head \in Seq(Symbol)
      BY <1>3, Parts DEF head
    <3> QED BY <1>5, <2>2, <3>1, <3>2
  <2>5. gstage' = "body" /\ reached' = reached
    BY <1>1, <2>4
  <2> DEFINE rest == SubSeq(middle.down, 3 + 1, Len(middle.down))
  <2>6. /\ rest \in Seq(Symbol) /\ Len(rest) = Len(middle.down) - 3
        /\ \A i \in 1 .. Len(middle.down) - 3 : rest[i] = middle.down[3 + i]
        /\ middle'.down = rest
    BY <1>1, <1>3, Parts
  <2> HIDE DEF rest
  <2>9. /\ Len(rest \o left[1]) = Len(Asking) - 3
        /\ \A i \in 1 .. Len(Asking) - 3 : (rest \o left[1])[i] = Asking[i + 3]
    BY <1>3, HeadGone DEF Asking, rest
  <2>10. Asking' = rest \o left[1]
    BY <1>1, <2>6 DEF Asking
  <2>11. Leads(b, rest \o left[1])
    <3>1. Len(Asking) >= 6 /\ \A i \in 1 .. 3 : Asking[i + 3] = b[i]
      BY <1>2, <2>1, <2>3, SMTT(30) DEF Leads, b
    <3>2. Len(Asking) \in Nat
      BY TypedSeqs
    <3>3. \A i \in 1 .. 3 : i \in 1 .. Len(Asking) - 3
      BY <3>1, <3>2
    <3>4. Len(b) <= Len(rest \o left[1])
      BY <2>9, <2>a, <3>1, <3>2
    <3>5. \A i \in 1 .. 3 : (rest \o left[1])[i] = b[i]
      BY <2>9, <3>1, <3>3
    <3> QED BY <2>a, <3>4, <3>5 DEF Leads
  <2>12. Leads(Body(target), Asking)'
    BY <1>1, <2>10, <2>11 DEF b
  <2> QED BY <1>1, <1>8, <1>2, <2>5, <2>12 DEF RInv, Keyed, Asked, Reaches
<1> QED BY <1>3, <1>7, <1>8

LEMMA GatewayBodyR == ASSUME Typed, RInv, NEW n, GatewayBody(n) PROVE RInv'
<1>1. /\ Typed' /\ n \in 1 .. Len(middle.down) /\ left'[1] = left[1]
      /\ \E i \in 1 .. n : middle.down[i] = Blank
      /\ gstage = "body" /\ gstage' \in {"yes", "no"} /\ reached' = SubSeq(middle.down, 1, 2)
      /\ UNCHANGED <<mode, key, target, fstage, port, dangling>>
  BY GatewayBodyKeeps
<1>2. Leads(Body(target), Asking) /\ fstage \notin {"none", "connecting"}
  BY <1>1 DEF RInv, Asked
<1>3. middle.down \in Seq(Symbol) /\ left[1] \in Seq(Symbol)
      /\ target \in Byte \X Byte /\ target = <<target[1], target[2]>>
  <2>1. target \in Byte \X Byte
    BY DEF Typed
  <2> QED BY <2>1, TypedSeqs
<1>4. Asking[1] = target[1] /\ Asking[2] = target[2]
  <2>1. Len(Body(target)) = 3 /\ Body(target)[1] = target[1] /\ Body(target)[2] = target[2]
    BY DEF Body
  <2> QED BY <1>2, <2>1 DEF Leads
<1>5. \A i \in 1 .. Len(middle.down) : Asking[i] = middle.down[i]
  BY <1>3, Concatenated DEF Asking
<1>6. target[1] # Blank /\ target[2] # Blank
  <2>1. Width \in Nat /\ target[1] \in Byte /\ target[2] \in Byte
    BY <1>3, TunnelAssumption
  <2>2. \A b \in Byte : Width + 1 \notin b
    BY <2>1 DEF Byte
  <2> QED BY <2>1, <2>2 DEF Blank
<1>7. 2 \in 0 .. Len(middle.down)
  <2>1. PICK i \in 1 .. n : middle.down[i] = Blank
    BY <1>1
  <2>2. i \in 1 .. Len(middle.down) /\ i # 1 /\ i # 2
    BY <1>1, <1>3, <1>4, <1>5, <1>6, <2>1
  <2> QED BY <1>3, <2>2
<1> DEFINE name == SubSeq(middle.down, 1, 2)
<1>8. name \in Seq(Symbol) /\ Len(name) = 2 /\ \A i \in 1 .. 2 : name[i] = middle.down[i]
  BY <1>3, <1>7, Parts
<1> HIDE DEF name
<1>9. name[1] = target[1] /\ name[2] = target[2]
  BY <1>4, <1>5, <1>7, <1>8
<1>10. name = target
  <2>1. name = <<name[1], name[2]>>
    BY <1>8
  <2> QED BY <1>3, <1>9, <2>1
<1>11. reached' = target'
  BY <1>1, <1>10 DEF name
<1> QED BY <1>1, <1>2, <1>11 DEF RInv, Keyed, Asked, Reaches

(* The others read nothing that the gateway's handshake reads.             *)
LEMMA OthersR ==
    ASSUME Typed, Typed', RInv, UNCHANGED <<mode, key, target, port, reached>>,
           dangling' = dangling \/ fstage \in {"request", "answer"},
           \/ fstage' = fstage
           \/ /\ fstage \in {"request", "answer"}
              /\ fstage' \in {"request", "answer", "session"},
           Asked'
    PROVE  RInv'
  BY DEF RInv, Keyed, Reaches

(* A tunnel goes astray after its port was released, and stays so, and     *)
(* nothing is recorded of what its ends send and get.                      *)
LEMMA StrayStays ==
    ASSUME [Next]_vars, stray \/ stray'
    PROVE  stray' /\ (stray \/ Gone) /\ UNCHANGED <<sent, got>>
<1>1. CASE NearConnected \/ Overwritten
  BY <1>1 DEF NearConnected, Overwritten
<1>2. CASE NearSends \/ TargetSends
  BY <1>2 DEF NearSends, TargetSends, Sends
<1>3. CASE NearGets \/ TargetGets
  BY <1>3 DEF NearGets, TargetGets, Gets
<1>4. CASE UNCHANGED history
  BY <1>4 DEF history
<1>5. CASE Acquire \/ Begin \/ AcceptFails \/ Release \/ AcceptCancelled \/ NearFails \/ NearExit
           \/ Crash
  BY <1>4, <1>5 DEF Acquire, Begin, AcceptFails, Release, AcceptCancelled, NearFails, NearExit, Crash
<1>6. CASE GatewayAccept \/ GatewayHead \/ GatewayConnected \/ GatewayFails \/ GatewayExit
  BY <1>4, <1>6 DEF GatewayAccept, GatewayHead, GatewayConnected, GatewayFails, GatewayExit
<1>7. CASE ForwardRelays \/ GatewayRelays \/ NearFinishes \/ TargetFinishes \/ MiddleBreaks
  BY <1>4, <1>7 DEF ForwardRelays, GatewayRelays, NearFinishes, TargetFinishes, MiddleBreaks
<1>8. ASSUME NEW n, WriteRequest(n) \/ ReadAnswer(n) \/ GatewayBody(n) \/ GatewayAnswer(n)
      PROVE  UNCHANGED history
  BY <1>8 DEF WriteRequest, ReadAnswer, GatewayBody, GatewayAnswer
<1>9. CASE UNCHANGED vars
  BY <1>4, <1>9 DEF vars
<1> QED BY <1>1, <1>2, <1>3, <1>4, <1>5, <1>6, <1>7, <1>8, <1>9 DEF Next, NearThread, GatewayThread

(* A deleted acceptor does not come back.                                  *)
LEMMA GoneStays == ASSUME [Next]_vars, Gone PROVE Gone'
<1>1. CASE UNCHANGED <<mode, port>>
  BY <1>1 DEF Gone
<1>2. CASE Acquire \/ AcceptFails \/ Release
  BY <1>2 DEF Acquire, AcceptFails, Release, Gone
<1>3. CASE Begin \/ AcceptCancelled \/ NearExit
  BY <1>3 DEF Begin, AcceptCancelled, NearExit, Gone, setup
<1>4. CASE NearConnected \/ Overwritten \/ NearFails \/ Crash
  BY <1>1, <1>4 DEF NearConnected, Overwritten, NearFails, Crash, setup, acceptor
<1>5. CASE GatewayAccept \/ GatewayHead \/ GatewayConnected \/ GatewayFails \/ GatewayExit
  BY <1>1, <1>5 DEF GatewayAccept, GatewayHead, GatewayConnected, GatewayFails, GatewayExit,
                    setup, acceptor
<1>6. CASE ForwardRelays \/ GatewayRelays \/ NearFinishes \/ TargetFinishes \/ MiddleBreaks
  BY <1>1, <1>6 DEF ForwardRelays, GatewayRelays, NearFinishes, TargetFinishes, MiddleBreaks,
                    setup, acceptor
<1>7. CASE NearSends \/ NearGets \/ TargetSends \/ TargetGets
  BY <1>1, <1>7 DEF NearSends, NearGets, TargetSends, TargetGets, setup, acceptor
<1>8. ASSUME NEW n, WriteRequest(n) \/ ReadAnswer(n) \/ GatewayBody(n) \/ GatewayAnswer(n)
      PROVE  UNCHANGED <<mode, port>>
  BY <1>8 DEF WriteRequest, ReadAnswer, GatewayBody, GatewayAnswer, setup, acceptor
<1>9. CASE UNCHANGED vars
  BY <1>1, <1>9 DEF vars, setup, acceptor
<1> QED BY <1>1, <1>2, <1>3, <1>4, <1>5, <1>6, <1>7, <1>8, <1>9 DEF Next, NearThread, GatewayThread

LEMMA NextR == ASSUME Typed, RInv, [Next]_vars, ~stray' PROVE Typed' /\ RInv'
<1>1. CASE Quiet
  BY <1>1, QuietKeeps, QuietR
<1>2. CASE GatewayHead
  BY <1>2, GatewayHeadKeeps, GatewayHeadR
<1>3. ASSUME NEW n, GatewayBody(n) PROVE Typed' /\ RInv'
  BY <1>3, GatewayBodyKeeps, GatewayBodyR
<1>4. ASSUME NEW n, WriteRequest(n) PROVE Typed' /\ RInv'
  <2>1. /\ Typed' /\ Asking' = Asking /\ fstage = "request" /\ fstage' \in {"request", "answer"}
        /\ fstage' = "answer" <=> left'[1] = <<>>
        /\ UNCHANGED <<mode, key, target, port, reached, gstage>>
    BY <1>4, WriteRequestKeeps
  <2>2. Asked'
    BY <2>1, AskedSame DEF RInv
  <2> QED BY <2>1, <2>2, OthersR
<1>5. ASSUME NEW n, ReadAnswer(n) PROVE Typed' /\ RInv'
  <2>1. /\ Typed' /\ Asking' = Asking /\ fstage = "answer" /\ fstage' = "session"
        /\ UNCHANGED <<mode, key, target, port, reached, gstage, left>>
        /\ middle'.down = middle.down
    BY <1>5, ReadAnswerKeeps
  <2>2. Asked'
    BY <2>1, AskedSame DEF RInv, Asked
  <2> QED BY <2>1, <2>2, OthersR
<1>6. ASSUME NEW n, GatewayAnswer(n) PROVE Typed' /\ RInv'
  <2>1. /\ Typed' /\ gstage \in {"yes", "no"} /\ gstage' \in {"yes", "no", "connecting", "dead"}
        /\ UNCHANGED <<mode, key, target, port, dangling, reached, fstage>>
        /\ middle'.down = middle.down
        /\ left'[1] = left[1]
    BY <1>6, GatewayAnswerKeeps
  <2>2. Asked'
    BY <2>1 DEF RInv, Asked
  <2> QED BY <2>1, <2>2, OthersR
<1>7. CASE ForwardRelays
  <2>1. /\ Typed' /\ fstage = "session" /\ \E x \in Seq(Symbol) : middle'.down = middle.down \o x
        /\ UNCHANGED <<mode, key, target, port, dangling, reached, fstage, gstage, left>>
    BY <1>7, ForwardRelaysKeeps
  <2>2. PICK x \in Seq(Symbol) : middle'.down = middle.down \o x
    BY <2>1
  <2>3. left[1] = <<>>
    BY <2>1 DEF RInv, Asked
  <2>4. Asking' = Asking \o x
    <3>1. Asking = middle.down /\ Asking' = middle'.down
      <4>1. middle.down \in Seq(Symbol) /\ middle'.down \in Seq(Symbol)
        BY <2>1 DEF Typed, LinkType
      <4> QED BY <2>1, <2>3, <4>1, Nothing DEF Asking
    <3> QED BY <2>2, <3>1
  <2>5. Asked'
    BY <2>1, <2>3, <2>4, AskedGrows DEF RInv
  <2> QED BY <2>1, <2>5, OthersR
<1>8. CASE GatewayRelays
  <2>1. /\ Typed' /\ gstage = "session"
        /\ UNCHANGED <<mode, key, target, port, dangling, reached, fstage, gstage, left>>
    BY <1>8, GatewayRelaysKeeps
  <2>2. Asked'
    BY <2>1 DEF RInv, Asked
  <2> QED BY <2>1, <2>2, OthersR
<1>9. CASE NearSends
  <2> DEFINE x == <<NextByte("down")>>
  <2>1. /\ Typed' /\ NearUp
        /\ IF mode = "forward" THEN middle' = middle ELSE middle'.down = middle.down \o x
        /\ UNCHANGED <<mode, key, target, port, dangling, reached, fstage, gstage, left>>
    BY <1>9, NearSendsKeeps
  <2>2. x \in Seq(Symbol)
    BY PayloadTyped, DirsAre
  <2> HIDE DEF x
  <2>3. CASE mode = "forward"
    <3>1. Asking' = Asking
      BY <2>1, <2>3 DEF Asking
    <3>2. Asked'
      BY <2>1, <2>3, <3>1, AskedSame DEF RInv, Asked
    <3> QED BY <2>1, <3>2, OthersR
  <2>4. CASE mode # "forward"
    <3>1. fstage \in {"answer", "session"} /\ left[1] = <<>>
      BY <2>1, <2>4 DEF NearUp, RInv, Asked
    <3>2. Asking = middle.down /\ Asking' = middle'.down
      <4>1. middle.down \in Seq(Symbol) /\ middle'.down \in Seq(Symbol)
        BY <2>1 DEF Typed, LinkType
      <4> QED BY <2>1, <3>1, <4>1, Nothing DEF Asking
    <3>3. Asked'
      BY <2>1, <2>2, <2>4, <3>1, <3>2, AskedGrows DEF RInv
    <3> QED BY <2>1, <3>3, OthersR
  <2> QED BY <2>3, <2>4
<1>10. CASE NearGets \/ TargetSends \/ TargetGets
  <2>1. /\ Typed' /\ middle'.down = middle.down
        /\ UNCHANGED <<mode, key, target, port, dangling, reached, fstage, gstage, left>>
    BY <1>10, NearGetsKeeps, TargetSendsKeeps, TargetGetsKeeps
  <2>2. Asking' = Asking
    BY <2>1 DEF Asking
  <2>3. Asked'
    BY <2>1, <2>2, AskedSame DEF RInv, Asked
  <2> QED BY <2>1, <2>3, OthersR
<1> QED BY <1>1, <1>2, <1>3, <1>4, <1>5, <1>6, <1>7, <1>8, <1>9, <1>10, NextIs

(* The gateway goes where it was asked to go, for every key and target,    *)
(* whoever asks, however the bytes of the request are cut up, and however  *)
(* early the one who asks starts to send (do_recv_head(), do_recv_body()   *)
(* and make_forward_message()), unless the port was released and the       *)
(* memory of its acceptor's message overwritten before it was all written  *)
(* (release_local_forward_port(); the freed bytes may be any: Freed).      *)
THEOREM AlwaysRightTarget == Spec => []RightTarget
<1> DEFINE Inv == (stray /\ Gone) \/ (Typed /\ RInv)
<1>1. Init => Inv
  BY InitTyped, InitR
<1>2. Inv /\ [Next]_vars => Inv'
  <2> SUFFICES ASSUME Inv, [Next]_vars PROVE (stray /\ Gone)' \/ (Typed' /\ RInv')
    OBVIOUS
  <2>1. CASE stray
    BY <2>1, StrayStays, GoneStays DEF Typed
  <2>2. CASE ~stray /\ stray'
    BY <2>2, StrayStays, GoneStays
  <2>3. CASE ~stray /\ ~stray'
    BY <2>3, NextR
  <2> QED BY <2>1, <2>2, <2>3
<1>3. Inv => RightTarget
  BY DEF RInv, Reaches, RightTarget
<1> QED BY <1>1, <1>2, <1>3, PTL DEF Spec

-----------------------------------------------------------------------------
(* The handshakes, when clients wait *)

Careful == mode \in Patient \/ mode = "forward"

AnswerSize == IF mode = "forward" THEN 1 ELSE 2

(* The near side is where the answers it has read put it.                  *)
Stages ==
    /\ gstage = "none" => fstage \in {"none", "connecting", "dead"}
    /\ fstage \in {"none", "connecting"} => left[1] = <<>>
    /\ fstage = "request" =>
           left[1] # <<>> /\ gstage \in {"backlog", "deaf", "head", "body", "dead"}
    /\ fstage = "session" => gstage \in {"connecting", "session", "dead"}
    /\ ~(mode = "forward" /\ fstage = "session") => fchain = NoChain
    /\ gstage # "session" => gchain = NoChain
    /\ mode = "client" => asked.down = <<>> /\ asked.up = <<>>

(* The gateway reads the request to its end, and nothing that follows.     *)
Taken ==
    /\ gstage = "none" => Asking = <<>>
    /\ gstage \in {"backlog", "head"} => Len(Asking) = Len(Request)
    /\ gstage = "body" => Len(Asking) = 3
    /\ gstage \in {"yes", "no"} => Asking = <<>>
    /\ gstage \in {"connecting", "session"} => left[1] = <<>>

(* The answer is the first thing that the gateway writes, and the near     *)
(* side's session starts after its last byte.                              *)
Answered ==
    /\ gstage \in {"none", "backlog", "deaf", "head", "body"} => middle.up = <<>>
    /\ gstage \in {"yes", "no"} =>
         /\ left[2] # <<>> /\ Len(middle.up) + Len(left[2]) = AnswerSize
         /\ mode = "client" => (middle.up \o left[2])[1] # Blank
    /\ fstage = "request" => middle.up = <<>>
    /\ fstage = "answer" /\ gstage \in {"connecting", "session"} => Len(middle.up) >= AnswerSize
    /\ fstage = "answer" /\ mode = "client" /\ middle.up # <<>> => middle.up[1] # Blank

Waiting ==
    /\ mode \in Patient /\ got["down"] = <<>> => sent["up"] = <<>>
    /\ mode = "client" /\ fstage \notin {"session", "dead"} => sent["down"] = <<>>

Order == Stages /\ Taken /\ Answered /\ Waiting

LEMMA InitOrder == Init => Order
<1> SUFFICES ASSUME Init PROVE Order
  OBVIOUS
<1>1. /\ gstage = "none" /\ fstage = "none" /\ fchain = NoChain /\ gchain = NoChain
      /\ left[1] = <<>> /\ middle.down = <<>> /\ middle.up = <<>>
      /\ asked.down = <<>> /\ asked.up = <<>>
  BY DEF Init, Forward!NewLink, Forward!Link
<1>2. sent["down"] = <<>> /\ sent["up"] = <<>>
  BY DirsAre DEF Init
<1>3. Asking = <<>>
  BY <1>1 DEF Asking
<1> QED BY <1>1, <1>2, <1>3 DEF Order, Stages, Taken, Answered, Waiting

(* The steps that read and write nothing, by what they do to the stages.   *)
Idles ==
    /\ UNCHANGED <<gstage, fchain, gchain, left>>
    /\ fstage' = fstage \/ (fstage = "none" /\ fstage' = "connecting")
    /\ UNCHANGED key \/ gstage = "none"
Connects ==
    /\ fstage = "connecting" /\ fstage' = "request" /\ gstage' = "backlog"
    /\ left'[1] = Request /\ UNCHANGED <<key, fchain, gchain>>
NearLeaves ==
    fstage' = "dead" /\ fchain' = NoChain /\ UNCHANGED <<key, gstage, gchain, left>>
GatewayTakes ==
    /\ \/ gstage = "backlog" /\ gstage' \in {"head", "deaf"} /\ gchain' = gchain
       \/ gstage = "connecting" /\ gstage' = "session" /\ gchain' = Gateway!Started
    /\ UNCHANGED <<key, fstage, fchain, left>>
GatewayLeaves ==
    /\ gstage # "none" /\ gstage' = "dead" /\ gchain' = NoChain
    /\ UNCHANGED <<key, fstage, fchain, left>>

LEMMA QuietDoes ==
    ASSUME Typed, RInv, Quiet
    PROVE  /\ UNCHANGED <<mode, target>>
           /\ Idles \/ Connects \/ NearLeaves \/ GatewayTakes \/ GatewayLeaves
<1> USE DEF setup, stages, acceptor
<1>1. CASE Acquire
  <2>1. /\ port = "none" /\ mode = "forward"
        /\ UNCHANGED <<mode, target, fstage, gstage, fchain, gchain, left>>
    BY <1>1 DEF Acquire
  <2>2. gstage = "none"
    BY <2>1 DEF RInv, Keyed, Asked
  <2> QED BY <2>1, <2>2 DEF Idles
<1>2. CASE Begin \/ AcceptFails \/ Release \/ AcceptCancelled
  BY <1>2 DEF Begin, AcceptFails, Release, AcceptCancelled, Idles
<1>3. CASE Connected
  <2>1. left'[1] = Request
    BY <1>3 DEF Connected, Typed
  <2> QED BY <1>3, <2>1 DEF Connected, Connects
<1>4. CASE NearFails
  BY <1>4 DEF NearFails, NearGone, NearLeaves
<1>5. CASE NearExit
  BY <1>5 DEF NearExit, NearGone, NearLeaves
<1>6. CASE Crash
  BY <1>6 DEF Crash, NearGone, NearLeaves
<1>7. CASE GatewayAccept
  BY <1>7 DEF GatewayAccept, GatewayTakes
<1>8. CASE GatewayConnected
  BY <1>8 DEF GatewayConnected, GatewayTakes
<1>9. CASE GatewayFails
  BY <1>9 DEF GatewayFails, GatewayGone, GatewayLeaves
<1>10. CASE GatewayExit
  BY <1>10 DEF GatewayExit, GatewayGone, GatewayLeaves
<1>11. CASE NearFinishes \/ TargetFinishes \/ MiddleBreaks
  BY <1>11 DEF NearFinishes, TargetFinishes, MiddleBreaks, Idles
<1>12. CASE UNCHANGED vars
  BY <1>12 DEF vars, Idles
<1> QED BY <1>1, <1>2, <1>3, <1>4, <1>5, <1>6, <1>7, <1>8, <1>9, <1>10, <1>11, <1>12 DEF Quiet

LEMMA QuietOrder == ASSUME Typed, RInv, Order, Quiet PROVE Order'
<1>1. SameData /\ UNCHANGED <<mode, target>>
  BY QuietKeeps, QuietDoes
<1>2. /\ asked'.down = asked.down /\ asked'.up = asked.up /\ middle'.down = middle.down
      /\ middle'.up = middle.up /\ UNCHANGED <<sent, got, mode, target>> /\ AnswerSize' = AnswerSize
      /\ UNCHANGED key => Request' = Request
  BY <1>1 DEF SameData, AnswerSize, Request
<1>3. CASE Idles
  <2>1. Asking' = Asking
    BY <1>2, <1>3 DEF Idles, Asking
  <2>2. Stages'
    BY <1>2, <1>3 DEF Idles, Order, Stages, NoChain
  <2>3. Taken'
    BY <1>2, <1>3, <2>1 DEF Idles, Order, Taken
  <2>4. Answered'
    BY <1>2, <1>3 DEF Idles, Order, Answered
  <2>5. Waiting'
    BY <1>2, <1>3 DEF Idles, Order, Waiting
  <2> QED BY <2>2, <2>3, <2>4, <2>5 DEF Order
<1>4. CASE Connects
  <2>1. gstage = "none" /\ middle.down = <<>> /\ middle.up = <<>>
    BY <1>4 DEF Connects, RInv, Asked, Order, Answered
  <2>2. Request' = Request /\ Request \in Seq(Symbol) /\ Len(Request) >= 3
    BY <1>2, <1>4, RequestTyped DEF Connects
  <2>3. Asking' = Request
    BY <1>2, <1>4, <2>1, <2>2, Nothing DEF Connects, Asking
  <2>4. Request # <<>>
    BY <2>2
  <2>5. Stages'
    BY <1>2, <1>4, <2>1, <2>4 DEF Connects, Order, Stages, NoChain
  <2>6. Taken'
    BY <1>4, <2>2, <2>3 DEF Connects, Taken
  <2>7. Answered'
    BY <1>2, <1>4, <2>1 DEF Connects, Answered
  <2>8. Waiting'
    BY <1>2, <1>4 DEF Connects, Order, Waiting
  <2> QED BY <2>5, <2>6, <2>7, <2>8 DEF Order
<1>5. CASE NearLeaves
  <2>1. Asking' = Asking /\ Request' = Request
    BY <1>2, <1>5 DEF NearLeaves, Asking
  <2>2. Stages'
    BY <1>2, <1>5 DEF NearLeaves, Order, Stages, NoChain
  <2>3. Taken'
    BY <1>2, <1>5, <2>1 DEF NearLeaves, Order, Taken
  <2>4. Answered'
    BY <1>2, <1>5 DEF NearLeaves, Order, Answered
  <2>5. Waiting'
    BY <1>2, <1>5 DEF NearLeaves, Order, Waiting
  <2> QED BY <2>2, <2>3, <2>4, <2>5 DEF Order
<1>6. CASE GatewayTakes
  <2>1. Asking' = Asking /\ Request' = Request
    BY <1>2, <1>6 DEF GatewayTakes, Asking
  <2>2. Stages'
    BY <1>2, <1>6 DEF GatewayTakes, Order, Stages, NoChain
  <2>3. Taken'
    BY <1>2, <1>6, <2>1 DEF GatewayTakes, Order, Taken
  <2>4. Answered'
    BY <1>2, <1>6 DEF GatewayTakes, Order, Answered
  <2>5. Waiting'
    BY <1>2, <1>6 DEF GatewayTakes, Order, Waiting
  <2> QED BY <2>2, <2>3, <2>4, <2>5 DEF Order
<1>7. CASE GatewayLeaves
  <2>2. Stages'
    BY <1>2, <1>7 DEF GatewayLeaves, Order, Stages, NoChain
  <2>3. Taken'
    BY <1>7 DEF GatewayLeaves, Taken
  <2>4. Answered'
    BY <1>2, <1>7 DEF GatewayLeaves, Order, Answered
  <2>5. Waiting'
    BY <1>2, <1>7 DEF GatewayLeaves, Order, Waiting
  <2> QED BY <2>2, <2>3, <2>4, <2>5 DEF Order
<1> QED BY <1>3, <1>4, <1>5, <1>6, <1>7, QuietDoes

LEMMA NothingJoined == \A p, q \in Seq(Symbol) : p \o q = <<>> => p = <<>> /\ q = <<>>
<1> SUFFICES ASSUME NEW p \in Seq(Symbol), NEW q \in Seq(Symbol), p \o q = <<>>
             PROVE  p = <<>> /\ q = <<>>
  OBVIOUS
<1>1. Len(p) \in Nat /\ Len(q) \in Nat /\ Len(p) + Len(q) = 0
  BY Concatenated
<1>2. Len(p) = 0 /\ Len(q) = 0
  BY <1>1
<1> QED BY <1>2

LEMMA WriteRequestOrder == ASSUME Typed, RInv, Order, NEW n, WriteRequest(n) PROVE Order'
<1>1. /\ Asking' = Asking /\ middle'.up = middle.up
      /\ UNCHANGED <<mode, key, target, asked, fchain, gchain, gstage, sent, got>>
      /\ fstage = "request" /\ fstage' \in {"request", "answer"}
      /\ fstage' = "answer" <=> left'[1] = <<>>
  BY WriteRequestKeeps
<1>2. gstage \in {"backlog", "deaf", "head", "body", "dead"} /\ middle.up = <<>>
  BY <1>1 DEF Order, Stages, Answered
<1>3. Stages'
  BY <1>1, <1>2 DEF Order, Stages, NoChain
<1>4. Taken'
  <2>1. Request' = Request
    BY <1>1 DEF Request
  <2> QED BY <1>1, <1>2, <2>1 DEF Order, Taken
<1>5. Answered'
  BY <1>1, <1>2 DEF Answered
<1>6. Waiting'
  BY <1>1 DEF Order, Waiting
<1> QED BY <1>3, <1>4, <1>5, <1>6 DEF Order

(* What the near side takes for an answer is one.                          *)
LEMMA ReadAnswerWhole ==
    ASSUME Typed, RInv, Order, NEW n, ReadAnswer(n)
    PROVE  /\ gstage \in {"connecting", "session", "dead"}
           /\ AnswerSize \in 0 .. Len(middle.up) /\ n >= AnswerSize
           /\ mode = "forward" => n = AnswerSize
<1>1. n \in 1 .. Len(middle.up) /\ n \in AnswerEnds /\ fstage = "answer"
  BY ReadAnswerKeeps
<1>2. middle.up \in Seq(Symbol) /\ left[2] \in Seq(Symbol) /\ mode \in {"forward", "client"}
      /\ gstage \in GatewayStage
  BY TypedSeqs DEF Typed
<1>3. middle.up # <<>> /\ Len(middle.up) \in Nat
  BY <1>1, <1>2
<1>4. gstage \notin {"none", "backlog", "deaf", "head", "body"}
  BY <1>3 DEF Order, Answered
<1>5. CASE mode = "forward"
  <2>1. n = 1 /\ AnswerSize = 1
    BY <1>1, <1>5 DEF AnswerEnds, AnswerSize
  <2>2. gstage \notin {"yes", "no"}
    <3>1. ASSUME gstage \in {"yes", "no"} PROVE FALSE
      <4>1. left[2] # <<>> /\ Len(middle.up) + Len(left[2]) = 1
        BY <2>1, <3>1 DEF Order, Answered
      <4>2. Len(left[2]) # 0 /\ Len(left[2]) \in Nat
        BY <1>2, <4>1
      <4>3. \A a, b \in Nat : a + b = 1 /\ b # 0 => a = 0
        OBVIOUS
      <4>4. Len(middle.up) = 0
        BY <1>3, <4>1, <4>2, <4>3, Zenon
      <4> QED BY <1>1, <4>4
    <3> QED BY <3>1
  <2> QED BY <1>1, <1>2, <1>4, <2>1, <2>2 DEF GatewayStage
<1>6. CASE mode = "client"
  <2>1. middle.up[1] # Blank
    BY <1>1, <1>3, <1>6 DEF Order, Answered
  <2>2. PICK i \in 1 .. n : middle.up[i] = Blank
    BY <1>1, <1>6 DEF AnswerEnds
  <2>3. n >= 2 /\ AnswerSize = 2
    <3>1. i # 1
      BY <2>1, <2>2
    <3> QED BY <1>1, <1>6, <3>1 DEF AnswerSize
  <2>4. gstage \notin {"yes", "no"}
    <3>1. ASSUME gstage \in {"yes", "no"} PROVE FALSE
      <4>1. left[2] # <<>> /\ Len(middle.up) + Len(left[2]) = 2
        BY <2>3, <3>1 DEF Order, Answered
      <4>2. Len(left[2]) # 0 /\ Len(left[2]) \in Nat
        BY <1>2, <4>1
      <4>3. \A a, b \in Nat : a + b = 2 /\ b # 0 => a = 0 \/ a = 1
        OBVIOUS
      <4>4. Len(middle.up) = 0 \/ Len(middle.up) = 1
        BY <1>3, <4>1, <4>2, <4>3, Zenon
      <4>5. \A l \in Nat : \A k \in 1 .. l : k >= 2 => l # 0 /\ l # 1
        OBVIOUS
      <4>6. Len(middle.up) # 0 /\ Len(middle.up) # 1
        BY <1>1, <1>3, <2>3, <4>5, Zenon
      <4> QED BY <4>4, <4>6
    <3> QED BY <3>1
  <2> QED BY <1>1, <1>2, <1>4, <1>6, <2>3, <2>4 DEF GatewayStage
<1> QED BY <1>2, <1>5, <1>6

LEMMA ReadAnswerOrder == ASSUME Typed, RInv, Order, NEW n, ReadAnswer(n) PROVE Order'
<1>1. /\ Asking' = Asking /\ UNCHANGED <<mode, key, target, asked, left, gchain, gstage, sent, got>>
      /\ fstage = "answer" /\ fstage' = "session"
      /\ fchain' = IF mode = "forward" THEN Forward!Started ELSE NoChain
  BY ReadAnswerKeeps
<1>2. gstage \in {"connecting", "session", "dead"}
  BY ReadAnswerWhole
<1>3. Stages'
  BY <1>1, <1>2 DEF Order, Stages, NoChain
<1>4. Taken'
  BY <1>1, <1>2 DEF Order, Taken
<1>5. Answered'
  BY <1>1, <1>2 DEF Answered
<1>6. Waiting'
  BY <1>1 DEF Order, Waiting
<1> QED BY <1>3, <1>4, <1>5, <1>6 DEF Order

LEMMA GatewayHeadOrder == ASSUME Typed, RInv, Order, GatewayHead PROVE Order'
<1>1. /\ Typed' /\ Len(middle.down) >= 3 /\ gstage = "head" /\ left'[1] = left[1]
      /\ middle'.down = SubSeq(middle.down, 4, Len(middle.down)) /\ middle'.up = middle.up
      /\ UNCHANGED <<mode, key, target, asked, fchain, gchain, fstage, sent, got>>
      /\ gstage' \in {"yes", "no"} => left'[2] = Answer("forward", gstage')
      /\ gstage' \in {"yes", "no", "body"}
  BY GatewayHeadKeeps
<1>2. /\ mode = "forward" => gstage' \in {"yes", "no"}
      /\ mode = "client" => gstage' = "body"
      /\ mode \in {"forward", "client"}
  BY GatewayHeadR DEF Typed
<1>3. middle.up = <<>> /\ Len(Asking) = Len(Request) /\ fstage \notin {"none", "connecting"}
  BY <1>1 DEF Order, Answered, Taken, RInv, Asked
<1>4. Len(Asking') = Len(Asking) - 3
  <2>1. middle.down \in Seq(Symbol) /\ left[1] \in Seq(Symbol) /\ 3 \in 0 .. Len(middle.down)
    BY <1>1, TypedSeqs
  <2>2. Asking' = SubSeq(middle.down, 3 + 1, Len(middle.down)) \o left[1]
    BY <1>1 DEF Asking
  <2> DEFINE rest == SubSeq(middle.down, 3 + 1, Len(middle.down))
  <2>3. Len(rest \o left[1]) = Len(middle.down \o left[1]) - 3
    BY <2>1, HeadGone
  <2> HIDE DEF rest
  <2>4. Asking' = rest \o left[1]
    BY <2>2 DEF rest
  <2> QED BY <2>3, <2>4 DEF Asking
<1>5. Stages' /\ Taken' /\ Answered'
  <2>1. CASE mode = "forward"
    <3>1. Asking' = <<>>
      <4>1. Len(Request) = 3
        BY <2>1, RequestTyped
      <4>2. Asking' \in Seq(Symbol)
        <5>1. middle'.down \in Seq(Symbol) /\ left'[1] \in Seq(Symbol)
          BY <1>1, SMTT(30) DEF Typed, LinkType
        <5> QED BY <5>1, Joined DEF Asking
      <4> QED BY <1>3, <1>4, <4>1, <4>2
    <3>2. left'[2] # <<>> /\ Len(left'[2]) = 1 /\ AnswerSize' = 1
      BY <1>1, <1>2, <2>1, AnswerTyped DEF AnswerSize
    <3>3. Taken'
      BY <1>2, <2>1, <3>1 DEF Taken
    <3>4. fstage' # "request" \/ middle'.up = <<>>
      BY <1>1, <1>3
    <3>5. Len(middle'.up) = 0 /\ middle'.up = <<>>
      BY <1>1, <1>3
    <3>6. Len(middle'.up) + Len(left'[2]) = AnswerSize'
      BY <3>2, <3>5
    <3>7. Answered'
      BY <1>1, <1>2, <2>1, <3>2, <3>5, <3>6 DEF Answered
    <3>8. left[1] = <<>>
      <4>1. middle'.down \in Seq(Symbol) /\ left'[1] \in Seq(Symbol)
        BY <1>1, SMTT(30) DEF Typed, LinkType
      <4>2. middle'.down \o left'[1] = <<>>
        BY <3>1 DEF Asking
      <4> QED BY <1>1, <4>1, <4>2, NothingJoined
    <3>9. Stages'
      BY <1>1, <1>2, <1>3, <2>1, <3>8 DEF Order, Stages, NoChain
    <3> QED BY <3>3, <3>7, <3>9
  <2>2. CASE mode = "client"
    <3>1. Len(Request) = 6
      BY <2>2, RequestTyped
    <3>2. Len(Asking') = 3
      BY <1>3, <1>4, <3>1
    <3>3. Stages'
      BY <1>1, <1>2, <1>3, <2>2 DEF Order, Stages, NoChain
    <3> QED BY <1>1, <1>2, <1>3, <2>2, <3>2, <3>3 DEF Taken, Answered
  <2> QED BY <1>2, <2>1, <2>2
<1>7. Waiting'
  BY <1>1 DEF Order, Waiting
<1> QED BY <1>5, <1>7 DEF Order

LEMMA GatewayBodyOrder == ASSUME Typed, RInv, Order, NEW n, GatewayBody(n) PROVE Order'
<1>1. /\ Typed' /\ n \in 1 .. Len(middle.down) /\ \E i \in 1 .. n : middle.down[i] = Blank
      /\ middle'.down = SubSeq(middle.down, n + 1, Len(middle.down)) /\ middle'.up = middle.up
      /\ left'[1] = left[1] /\ left'[2] = Answer("client", gstage')
      /\ gstage = "body" /\ gstage' \in {"yes", "no"}
      /\ UNCHANGED <<mode, key, target, asked, fchain, gchain, fstage, sent, got>>
  BY GatewayBodyKeeps
<1>2. /\ mode = "client" /\ Leads(Body(target), Asking) /\ fstage \notin {"none", "connecting"}
      /\ Len(Asking) = 3 /\ middle.up = <<>>
  BY <1>1 DEF RInv, Asked, Order, Taken, Answered
<1>3. middle.down \in Seq(Symbol) /\ left[1] \in Seq(Symbol)
      /\ target[1] # Blank /\ target[2] # Blank
  <2>1. Width \in Nat /\ target[1] \in Byte /\ target[2] \in Byte
    BY TunnelAssumption DEF Typed
  <2>2. \A b \in Byte : Width + 1 \notin b
    BY <2>1 DEF Byte
  <2> QED BY <2>1, <2>2, TypedSeqs DEF Blank
<1>4. n >= 3
  <2>1. PICK i \in 1 .. n : middle.down[i] = Blank
    BY <1>1
  <2>2. i \in 1 .. Len(middle.down)
    BY <1>1, <1>3, <2>1
  <2>3. Asking[i] = Blank
    BY <1>3, <2>1, <2>2, Concatenated DEF Asking
  <2>4. Asking[1] = target[1] /\ Asking[2] = target[2]
    BY <1>2 DEF Leads, Body
  <2>5. i # 1 /\ i # 2
    BY <1>3, <2>3, <2>4
  <2> QED BY <1>1, <2>1, <2>5
<1>5. Asking' = <<>>
  <2>1. n \in 0 .. Len(middle.down) /\ n \in Nat
    BY <1>1, <1>3
  <2>2. Asking' = SubSeq(middle.down, n + 1, Len(middle.down)) \o left[1]
    BY <1>1 DEF Asking
  <2> DEFINE rest == SubSeq(middle.down, n + 1, Len(middle.down))
  <2>a. Len(rest \o left[1]) = Len(middle.down \o left[1]) - n
    BY <1>3, <2>1, HeadGone
  <2>b. Len(middle.down \o left[1]) = 3
    BY <1>2 DEF Asking
  <2> HIDE DEF rest
  <2>c. Asking' = rest \o left[1]
    BY <2>2 DEF rest
  <2>3. Len(Asking') = 3 - n
    BY <2>a, <2>b, <2>c
  <2>4. Asking' \in Seq(Symbol)
    <3>1. middle'.down \in Seq(Symbol) /\ left'[1] \in Seq(Symbol)
      BY <1>1, SMTT(30) DEF Typed, LinkType
    <3> QED BY <3>1, Joined DEF Asking
  <2>5. Len(Asking') \in Nat
    BY <2>4
  <2>6. Len(Asking') = 0
    BY <1>4, <2>1, <2>3, <2>5
  <2> QED BY <2>4, <2>6
<1>6. Stages'
  <2>1. left[1] = <<>>
    <3>1. middle'.down \in Seq(Symbol) /\ left'[1] \in Seq(Symbol)
      BY <1>1, SMTT(30) DEF Typed, LinkType
    <3>2. middle'.down \o left'[1] = <<>>
      BY <1>5 DEF Asking
    <3> QED BY <1>1, <3>1, <3>2, NothingJoined
  <2> QED BY <1>1, <1>2, <2>1 DEF Order, Stages, NoChain
<1>7. Taken'
  BY <1>1, <1>5 DEF Taken
<1>8. Answered'
  <2>1. /\ left'[2] # <<>> /\ Len(left'[2]) = 2 /\ left'[2][1] \in {{1}, {2}}
        /\ left'[2] \in Seq(Symbol)
    BY <1>1, AnswerTyped
  <2>2. Blank # {1} /\ Blank # {2}
    <3>1. Width + 1 # 1 /\ Width + 1 # 2
      BY TunnelAssumption
    <3>2. \A a, b : {a} = {b} => a = b
      OBVIOUS
    <3> QED BY <3>1, <3>2, Zenon DEF Blank
  <2>3. middle'.up \o left'[2] = left'[2] /\ middle'.up = <<>> /\ Len(middle'.up) = 0
    BY <1>1, <1>2, <2>1, Nothing
  <2>4. AnswerSize' = 2
    BY <1>1, <1>2 DEF AnswerSize
  <2>5. (middle'.up \o left'[2])[1] # Blank
    BY <2>1, <2>2, <2>3
  <2>6. Len(middle'.up) + Len(left'[2]) = AnswerSize'
    BY <2>1, <2>3, <2>4
  <2> QED BY <1>1, <1>2, <2>1, <2>3, <2>5, <2>6 DEF Answered
<1>9. Waiting'
  BY <1>1 DEF Order, Waiting
<1> QED BY <1>6, <1>7, <1>8, <1>9 DEF Order

LEMMA GatewayAnswerOrder == ASSUME Typed, RInv, Order, NEW n, GatewayAnswer(n) PROVE Order'
<1> DEFINE u == SubSeq(left[2], 1, n)
           v == SubSeq(left[2], n + 1, Len(left[2]))
<1>1. /\ Typed' /\ Asking' = Asking /\ n \in 1 .. Len(left[2])
      /\ middle'.up = middle.up \o u /\ middle'.down = middle.down
      /\ left'[1] = left[1] /\ left'[2] = v
      /\ gstage \in {"yes", "no"} /\ gstage' \in {"yes", "no", "connecting", "dead"}
      /\ gstage' \in {"yes", "no"} => left'[2] # <<>>
      /\ gstage' = "connecting" => left'[2] = <<>>
      /\ UNCHANGED <<mode, key, target, asked, fchain, gchain, fstage, sent, got>>
  BY GatewayAnswerKeeps
<1>2. /\ fstage \in {"answer", "dead"} /\ Asking = <<>>
      /\ left[2] # <<>> /\ Len(middle.up) + Len(left[2]) = AnswerSize
      /\ mode = "client" => (middle.up \o left[2])[1] # Blank
  <2>1. fstage \notin {"none", "connecting", "request", "session"}
    BY <1>1 DEF RInv, Asked, Order, Stages
  <2> QED BY <1>1, <2>1 DEF Typed, NearStage, Order, Taken, Answered
<1>3. middle.up \in Seq(Symbol) /\ left[2] \in Seq(Symbol) /\ middle.down \in Seq(Symbol)
      /\ left[1] \in Seq(Symbol) /\ n \in 0 .. Len(left[2])
  BY <1>1, TypedSeqs
<1>4. u \in Seq(Symbol) /\ v \in Seq(Symbol) /\ u \o v = left[2] /\ Len(u) = n
  BY <1>3, Cut, Parts
<1> HIDE DEF u, v
<1>5. middle'.up \o left'[2] = middle.up \o left[2]
  <2>1. (middle.up \o u) \o v = middle.up \o (u \o v)
    BY <1>3, <1>4, Assoc, SMTT(30), ZenonT(30)
  <2> QED BY <1>1, <1>4, <2>1
<1>6. middle'.up \in Seq(Symbol) /\ left'[2] \in Seq(Symbol)
  BY <1>1, <1>3, <1>4, Joined
<1>7. Len(middle'.up) + Len(left'[2]) = AnswerSize
  <2>1. Len(middle'.up \o left'[2]) = Len(middle'.up) + Len(left'[2])
    BY <1>6, Joined, Zenon
  <2>2. Len(middle.up \o left[2]) = Len(middle.up) + Len(left[2])
    BY <1>3, Joined, Zenon
  <2> QED BY <1>2, <1>5, <2>1, <2>2
<1>8. Stages'
  BY <1>1, <1>2 DEF Order, Stages, NoChain
<1>9. Taken'
  <2>1. left[1] = <<>>
    BY <1>2, <1>3, NothingJoined DEF Asking
  <2> QED BY <1>1, <1>2, <2>1 DEF Taken
<1>10. AnswerSize' = AnswerSize
  BY <1>1 DEF AnswerSize
<1>11. Answered'
  <2>1. gstage' \in {"yes", "no"} /\ mode' = "client" => (middle'.up \o left'[2])[1] # Blank
    BY <1>1, <1>2, <1>5
  <2>2. gstage' = "connecting" => Len(middle'.up) >= AnswerSize'
    <3>1. ASSUME left'[2] = <<>> PROVE Len(middle'.up) = AnswerSize
      <4>1. Len(left'[2]) = 0 /\ Len(middle'.up) \in Nat
        BY <1>6, <3>1
      <4> QED BY <1>7, <4>1
    <3>2. AnswerSize \in Nat
      BY DEF AnswerSize
    <3> QED BY <1>1, <1>10, <3>1, <3>2
  <2>3. mode' = "client" => middle'.up[1] # Blank
    <3>1. middle'.up # <<>>
      <4>1. Len(middle.up \o u) = Len(middle.up) + Len(u) /\ Len(middle.up) \in Nat
        BY <1>3, <1>4, Concatenated
      <4>2. Len(middle'.up) # 0
        BY <1>1, <1>3, <1>4, <4>1
      <4> QED BY <4>2
    <3>2. 1 \in 1 .. Len(middle'.up)
      BY <1>6, <3>1
    <3>3. (middle'.up \o left'[2])[1] = middle'.up[1]
      BY <1>6, <3>2, Concatenated
    <3> QED BY <1>1, <1>2, <1>5, <3>3
  <2> QED BY <1>1, <1>2, <1>7, <1>10, <2>1, <2>2, <2>3 DEF Answered
<1>12. Waiting'
  BY <1>1 DEF Order, Waiting
<1> QED BY <1>8, <1>9, <1>11, <1>12 DEF Order

LEMMA ForwardRelaysOrder == ASSUME Typed, RInv, Order, ForwardRelays PROVE Order'
<1>1. /\ mode = "forward" /\ fstage = "session"
      /\ UNCHANGED <<mode, key, target, gchain, fstage, gstage, left, sent, got>>
  BY ForwardRelaysKeeps
<1>2. gstage \in {"connecting", "session", "dead"}
  BY <1>1 DEF Order, Stages
<1>3. Stages'
  BY <1>1, <1>2 DEF Order, Stages, NoChain
<1>4. Taken'
  BY <1>1, <1>2 DEF Order, Taken
<1>5. Answered'
  BY <1>1, <1>2 DEF Answered
<1>6. Waiting'
  BY <1>1 DEF Order, Waiting
<1> QED BY <1>3, <1>4, <1>5, <1>6 DEF Order

LEMMA GatewayRelaysOrder == ASSUME Typed, RInv, Order, GatewayRelays PROVE Order'
<1>1. /\ gstage = "session" /\ Typed'
      /\ UNCHANGED <<mode, key, target, asked, fchain, fstage, gstage, left, sent, got>>
      /\ middle'.up = middle.up \/ \E x \in Seq(Symbol) : middle'.up = middle.up \o x
  BY GatewayRelaysKeeps DEF Flow
<1>2. fstage \notin {"none", "connecting", "request"}
  BY <1>1 DEF Order, Stages, RInv, Asked
<1>3. Stages'
  BY <1>1, <1>2 DEF Order, Stages, NoChain
<1>4. Taken'
  BY <1>1, <1>2 DEF Order, Taken
<1>5. Answered'
  <2>1. middle.up \in Seq(Symbol) /\ AnswerSize \in {1, 2} /\ AnswerSize' = AnswerSize
    BY <1>1, TypedSeqs DEF AnswerSize
  <2>2. ASSUME fstage = "answer"
        PROVE  /\ Len(middle'.up) >= AnswerSize
               /\ mode = "client" => middle'.up[1] # Blank
    <3>1. Len(middle.up) >= AnswerSize /\ Len(middle.up) \in Nat
      BY <1>1, <2>1, <2>2 DEF Order, Answered
    <3>2. middle.up # <<>> /\ 1 \in 1 .. Len(middle.up)
      BY <2>1, <3>1
    <3>3. mode = "client" => middle.up[1] # Blank
      BY <2>2, <3>2 DEF Order, Answered
    <3>4. CASE middle'.up = middle.up
      BY <3>1, <3>3, <3>4
    <3>5. ASSUME NEW x \in Seq(Symbol), middle'.up = middle.up \o x
          PROVE  Len(middle'.up) >= AnswerSize /\ middle'.up[1] = middle.up[1]
      <4>1. Len(middle'.up) = Len(middle.up) + Len(x) /\ Len(x) \in Nat
        BY <2>1, <3>5, Concatenated
      <4>2. middle'.up[1] = middle.up[1]
        BY <2>1, <3>2, <3>5, Concatenated
      <4> QED BY <2>1, <3>1, <4>1, <4>2
    <3> QED BY <1>1, <3>3, <3>4, <3>5
  <2> QED BY <1>1, <1>2, <2>1, <2>2 DEF Answered
<1>6. Waiting'
  BY <1>1 DEF Order, Waiting
<1> QED BY <1>3, <1>4, <1>5, <1>6 DEF Order

LEMMA NearSendsOrder ==
    ASSUME Typed, RInv, Order, Careful, NearSends
    PROVE  /\ Order'
           /\ mode # "forward" =>
                  fstage = "session" /\ gstage \in {"connecting", "session", "dead"}
<1>1. /\ sent'["up"] = sent["up"] /\ NearUp
      /\ asked'.up = asked.up /\ middle'.up = middle.up
      /\ mode # "forward" => asked' = asked
      /\ mode = "forward" => middle' = middle
      /\ UNCHANGED <<mode, key, target, fchain, gchain, fstage, gstage, left, got>>
  BY NearSendsKeeps
<1>2. mode # "forward" => fstage = "session" /\ gstage \in {"connecting", "session", "dead"}
  BY <1>1 DEF Careful, NearUp, Order, Stages
<1>3. Stages'
  BY <1>1 DEF Order, Stages, NoChain
<1>4. Taken'
  <2>1. CASE mode = "forward"
    <3>1. Asking' = Asking /\ Request' = Request
      BY <1>1, <2>1 DEF Asking, Request
    <3> QED BY <1>1, <3>1 DEF Order, Taken
  <2>2. CASE mode # "forward"
    BY <1>1, <1>2, <2>2 DEF Order, Taken
  <2> QED BY <2>1, <2>2
<1>5. Answered'
  <2>1. AnswerSize' = AnswerSize
    BY <1>1 DEF AnswerSize
  <2> QED BY <1>1, <2>1 DEF Order, Answered
<1>6. Waiting'
  BY <1>1, <1>2 DEF Order, Waiting
<1> QED BY <1>2, <1>3, <1>4, <1>5, <1>6 DEF Order

LEMMA NearGetsOrder == ASSUME Typed, RInv, Order, NearGets PROVE Order'
<1>1. /\ (mode = "client" => fstage = "session") /\ got'["down"] = got["down"]
      /\ asked'.down = asked.down /\ middle'.down = middle.down
      /\ mode = "forward" => middle' = middle
      /\ mode # "forward" => asked' = asked
      /\ UNCHANGED <<mode, key, target, fchain, gchain, fstage, gstage, left, sent>>
      /\ mode \in {"forward", "client"}
  BY NearGetsKeeps DEF Typed
<1>2. Stages'
  BY <1>1 DEF Order, Stages, NoChain
<1>3. Taken'
  <2>1. Asking' = Asking /\ Request' = Request
    BY <1>1 DEF Asking, Request
  <2> QED BY <1>1, <2>1 DEF Order, Taken
<1>4. Answered'
  <2>1. CASE mode = "forward"
    <3>1. AnswerSize' = AnswerSize
      BY <1>1 DEF AnswerSize
    <3> QED BY <1>1, <2>1, <3>1 DEF Order, Answered
  <2>2. CASE mode = "client"
    <3>1. fstage = "session" /\ gstage \in {"connecting", "session", "dead"}
      BY <1>1, <2>2 DEF Order, Stages
    <3> QED BY <1>1, <3>1 DEF Answered
  <2> QED BY <1>1, <2>1, <2>2
<1>5. Waiting'
  BY <1>1 DEF Order, Waiting
<1> QED BY <1>2, <1>3, <1>4, <1>5 DEF Order

LEMMA TargetOrder == ASSUME Typed, RInv, Order, TargetSends \/ TargetGets PROVE Order'
<1>1. UNCHANGED <<mode, key, target, asked, middle, fchain, gchain, fstage, gstage, left>>
  BY TargetSendsKeeps, TargetGetsKeeps
<1>2. Asking' = Asking /\ Request' = Request /\ AnswerSize' = AnswerSize
  BY <1>1 DEF Asking, Request, AnswerSize
<1>3. Stages'
  BY <1>1 DEF Order, Stages, NoChain
<1>4. Taken'
  BY <1>1, <1>2 DEF Order, Taken
<1>5. Answered'
  BY <1>1, <1>2 DEF Order, Answered
<1>6. Waiting'
  <2>1. CASE TargetSends
    BY <1>1, <2>1, TargetSendsKeeps DEF Order, Waiting
  <2>2. CASE TargetGets
    <3>1. sent' = sent /\ got'["down"] = got["down"] \o SubSeq(last.down, 1, 1) /\ last.down # <<>>
      BY <2>2, TargetGetsKeeps
    <3>2. got["down"] \in Seq(Symbol) /\ last.down \in Seq(Symbol)
      BY TypedSeqs
    <3>3. got'["down"] # <<>>
      <4>1. SubSeq(last.down, 1, 1) = <<Head(last.down)>> /\ Head(last.down) \in Symbol
        BY <3>1, <3>2, First
      <4>2. Len(<<Head(last.down)>>) = 1 /\ <<Head(last.down)>> \in Seq(Symbol)
        BY <4>1
      <4>3. Len(got'["down"]) = Len(got["down"]) + 1 /\ Len(got["down"]) \in Nat
        BY <3>1, <3>2, <4>1, <4>2, Concatenated
      <4>4. Len(got'["down"]) # 0
        BY <4>3
      <4> QED BY <4>4
    <3> QED BY <1>1, <3>1, <3>3 DEF Order, Waiting
  <2> QED BY <2>1, <2>2
<1> QED BY <1>3, <1>4, <1>5, <1>6 DEF Order

-----------------------------------------------------------------------------
(* The two streams *)

(* A part that has let its sockets go loses what is in it.                 *)
GatewayCut == gstage \in {"dead", "deaf"} \/ (gstage = "session" /\ Gateway!Stopped)
NearCut == fstage = "dead" \/ (mode = "forward" /\ fstage = "session" /\ Forward!Stopped)

(* What is on the middle connection, without requests and answers.         *)
MidDown == IF gstage \in {"connecting", "session"} THEN middle.down ELSE <<>>
MidUp == IF fstage = "session" THEN middle.up
         ELSE IF fstage = "answer" THEN SubSeq(middle.up, AnswerSize + 1, Len(middle.up))
         ELSE <<>>

(* What was sent begins with what is beyond both sessions; then comes      *)
(* what is between them, unless the session on the receiver's side is cut, *)
(* and then all the rest, unless the other one is.                         *)
Stream(given, beyond, between, before, level) ==
    /\ \E x \in Seq(Symbol) : given = beyond \o x
    /\ level >= 1 => \E x \in Seq(Symbol) : given = (beyond \o between) \o x
    /\ level = 2 => given = (beyond \o between) \o before

DownLevel == IF GatewayCut THEN 0 ELSE IF NearCut THEN 1 ELSE 2
UpLevel == IF NearCut THEN 0 ELSE IF GatewayCut THEN 1 ELSE 2

BeyondDown == got["down"] \o last.down
BetweenDown == gchain["down"].data \o MidDown
BeforeDown == fchain["down"].data \o asked.down
BeyondUp == got["up"] \o asked.up
BetweenUp == fchain["up"].data \o MidUp
BeforeUp == gchain["up"].data \o last.up

StreamDown == Stream(sent["down"], BeyondDown, BetweenDown, BeforeDown, DownLevel)
StreamUp == Stream(sent["up"], BeyondUp, BetweenUp, BeforeUp, UpLevel)

CInv == Careful /\ Order /\ StreamDown /\ StreamUp

(* Parts that are cut lose what comes after them.                          *)
LEMMA StreamKept ==
    ASSUME NEW s, NEW g, NEW m, NEW r, NEW m2, NEW r2, NEW j \in 0 .. 2, NEW k \in 0 .. 2,
           Stream(s, g, m, r, j), k <= j, k >= 1 => m2 = m, k = 2 => r2 = r
    PROVE  Stream(s, g, m2, r2, k)
<1>1. k >= 1 => j >= 1 /\ m2 = m
  OBVIOUS
<1>2. k = 2 => j = 2 /\ m2 = m /\ r2 = r
  OBVIOUS
<1> QED BY <1>1, <1>2, Zenon DEF Stream

LEMMA Longer ==
    ASSUME NEW g \in Seq(Symbol), NEW y \in Seq(Symbol), NEW x \in Seq(Symbol)
    PROVE  (g \o y) \o x = g \o (y \o x) /\ y \o x \in Seq(Symbol)
  OBVIOUS

(* More is sent, ...                                                       *)
LEMMA Begins ==
    ASSUME NEW s, NEW g \in Seq(Symbol), NEW x \in Seq(Symbol), NEW y \in Seq(Symbol), s = g \o y
    PROVE  \E z \in Seq(Symbol) : s \o x = g \o z
<1>1. y \o x \in Seq(Symbol) /\ (g \o y) \o x = g \o (y \o x)
  BY Longer
<1> QED BY <1>1, Zenon

LEMMA StreamIn ==
    ASSUME NEW s \in Seq(Symbol), NEW g \in Seq(Symbol), NEW m \in Seq(Symbol),
           NEW w \in Seq(Symbol), NEW x \in Seq(Symbol), NEW j, Stream(s, g, m, w, j)
    PROVE  Stream(s \o x, g, m, w \o x, j)
<1> DEFINE gm == g \o m
<1>1. /\ \E y \in Seq(Symbol) : s = g \o y
      /\ j >= 1 => \E y \in Seq(Symbol) : s = gm \o y
      /\ j = 2 => s = gm \o w
  BY Zenon DEF Stream
<1>2. gm \in Seq(Symbol)
  OBVIOUS
<1> HIDE DEF gm
<1>3. \E z \in Seq(Symbol) : s \o x = g \o z
  <2>1. \E y \in Seq(Symbol) : s = g \o y
    BY <1>1, Zenon
  <2> QED BY <2>1, Begins, SMTT(30), ZenonT(30)
<1>4. ASSUME j >= 1 PROVE \E z \in Seq(Symbol) : s \o x = gm \o z
  <2>1. \E y \in Seq(Symbol) : s = gm \o y
    BY <1>1, <1>4
  <2> QED BY <1>2, <2>1, Begins, SMTT(30), ZenonT(30)
<1>5. ASSUME j = 2 PROVE s \o x = gm \o (w \o x)
  <2>1. (gm \o w) \o x = gm \o (w \o x)
    BY <1>2, Longer, SMTT(30)
  <2> QED BY <1>1, <1>5, <2>1, Zenon
<1> QED BY <1>3, <1>4, <1>5, Zenon DEF Stream, gm

(* ... goes on into the middle connection, ...                             *)
LEMMA StreamMove ==
    ASSUME NEW g \in Seq(Symbol), NEW m \in Seq(Symbol), NEW x \in Seq(Symbol),
           NEW t \in Seq(Symbol), NEW k
    PROVE  Stream((g \o m) \o (x \o t), g, m \o x, t, k)
<1> DEFINE gm == g \o m
           mx == m \o x
<1>1. gm \in Seq(Symbol) /\ mx \in Seq(Symbol) /\ t \in Seq(Symbol)
  OBVIOUS
<1>2. gm \o x = g \o mx
  OBVIOUS
<1> HIDE DEF gm, mx
<1>3. (gm \o x) \o t = gm \o (x \o t)
  BY <1>1, SMTT(30)
<1>4. (g \o mx) \o t = g \o (mx \o t)
  BY <1>1, SMTT(30)
<1>5. mx \o t \in Seq(Symbol)
  BY <1>1
<1> QED BY <1>1, <1>2, <1>3, <1>4, <1>5, Zenon DEF Stream, gm, mx

(* ... and leaves it.                                                      *)
LEMMA StreamOut ==
    ASSUME NEW s \in Seq(Symbol), NEW g \in Seq(Symbol),
           NEW w \in Seq(Symbol), NEW x \in Seq(Symbol), NEW t \in Seq(Symbol),
           NEW j, j >= 1, Stream(s, g, x \o t, w, j)
    PROVE  Stream(s, g \o x, t, w, j)
<1> DEFINE gx == g \o x
<1>1. gx \o t = g \o (x \o t)
  BY Longer, SMTT(30)
<1>2. gx \in Seq(Symbol)
  OBVIOUS
<1>3. PICK y \in Seq(Symbol) : s = (g \o (x \o t)) \o y
  BY Zenon DEF Stream
<1>4. j = 2 => s = (g \o (x \o t)) \o w
  BY Zenon DEF Stream
<1> HIDE DEF gx
<1>5. (gx \o t) \o y = gx \o (t \o y) /\ t \o y \in Seq(Symbol)
  BY <1>2, Longer
<1> QED BY <1>1, <1>3, <1>4, <1>5, Zenon DEF Stream, gx

LEMMA StreamTypes ==
    ASSUME Typed
    PROVE  /\ sent["down"] \in Seq(Symbol) /\ sent["up"] \in Seq(Symbol)
           /\ fchain["down"].data \in Seq(Symbol) /\ fchain["up"].data \in Seq(Symbol)
           /\ gchain["down"].data \in Seq(Symbol) /\ gchain["up"].data \in Seq(Symbol)
           /\ MidDown \in Seq(Symbol) /\ MidUp \in Seq(Symbol)
           /\ BeyondDown \in Seq(Symbol) /\ BetweenDown \in Seq(Symbol)
           /\ BeforeDown \in Seq(Symbol)
           /\ BeyondUp \in Seq(Symbol) /\ BetweenUp \in Seq(Symbol) /\ BeforeUp \in Seq(Symbol)
           /\ DownLevel \in 0 .. 2 /\ UpLevel \in 0 .. 2
<1>1. /\ fchain["down"].data \in Seq(Symbol) /\ fchain["up"].data \in Seq(Symbol)
      /\ gchain["down"].data \in Seq(Symbol) /\ gchain["up"].data \in Seq(Symbol)
  BY DirsAre DEF Typed, Chains, ChainType
<1>2. MidDown \in Seq(Symbol)
  <2>1. <<>> \in Seq(Symbol)
    OBVIOUS
  <2> QED BY <2>1, TypedSeqs DEF MidDown
<1>3. MidUp \in Seq(Symbol)
  <2>1. <<>> \in Seq(Symbol) /\ middle.up \in Seq(Symbol)
    BY TypedSeqs
  <2>2. SubSeq(middle.up, AnswerSize + 1, Len(middle.up)) \in Seq(Symbol)
    BY <2>1 DEF AnswerSize
  <2> QED BY <2>1, <2>2 DEF MidUp
<1>4. BeyondDown \in Seq(Symbol) /\ BetweenDown \in Seq(Symbol) /\ BeforeDown \in Seq(Symbol)
  BY <1>1, <1>2, TypedSeqs, Joined DEF BeyondDown, BetweenDown, BeforeDown
<1>5. BeyondUp \in Seq(Symbol) /\ BetweenUp \in Seq(Symbol) /\ BeforeUp \in Seq(Symbol)
  BY <1>1, <1>3, TypedSeqs, Joined DEF BeyondUp, BetweenUp, BeforeUp
<1>6. DownLevel \in 0 .. 2 /\ UpLevel \in 0 .. 2
  BY DEF DownLevel, UpLevel
<1> QED BY <1>1, <1>2, <1>3, <1>4, <1>5, <1>6, TypedSeqs

(* The parts between and before change only where they are lost.           *)
LEMMA KeptDown ==
    ASSUME Typed, StreamDown, sent'["down"] = sent["down"],
           BeyondDown' = BeyondDown, DownLevel' <= DownLevel,
           DownLevel' >= 1 => BetweenDown' = BetweenDown, DownLevel' = 2 => BeforeDown' = BeforeDown
    PROVE  StreamDown'
<1>1. DownLevel \in 0 .. 2 /\ DownLevel' \in 0 .. 2
  BY DEF DownLevel
<1>2. Stream(sent["down"], BeyondDown, BetweenDown', BeforeDown', DownLevel')
  BY <1>1, StreamKept DEF StreamDown
<1> QED BY <1>2, Zenon DEF StreamDown

LEMMA KeptUp ==
    ASSUME Typed, StreamUp, sent'["up"] = sent["up"],
           BeyondUp' = BeyondUp, UpLevel' <= UpLevel,
           UpLevel' >= 1 => BetweenUp' = BetweenUp, UpLevel' = 2 => BeforeUp' = BeforeUp
    PROVE  StreamUp'
<1>1. UpLevel \in 0 .. 2 /\ UpLevel' \in 0 .. 2
  BY DEF UpLevel
<1>2. Stream(sent["up"], BeyondUp, BetweenUp', BeforeUp', UpLevel')
  BY <1>1, StreamKept DEF StreamUp
<1> QED BY <1>2, Zenon DEF StreamUp

LEMMA LevelsFall ==
    ASSUME GatewayCut => GatewayCut', NearCut => NearCut'
    PROVE  DownLevel' <= DownLevel /\ UpLevel' <= UpLevel
  BY DEF DownLevel, UpLevel

LEMMA InitStreams == Init => StreamDown /\ StreamUp
<1> SUFFICES ASSUME Init PROVE StreamDown /\ StreamUp
  OBVIOUS
<1>1. /\ gstage = "none" /\ fstage = "none" /\ fchain = NoChain /\ gchain = NoChain
      /\ last.down = <<>> /\ last.up = <<>> /\ asked.down = <<>> /\ asked.up = <<>>
  BY DEF Init, Forward!NewLink, Forward!Link
<1>2. sent["down"] = <<>> /\ sent["up"] = <<>> /\ got["down"] = <<>> /\ got["up"] = <<>>
  BY DirsAre DEF Init
<1>3. <<>> \in Seq(Symbol) /\ <<>> \o <<>> = <<>>
  BY Nothing
<1>4. /\ BeyondDown = <<>> /\ BetweenDown = <<>> /\ BeforeDown = <<>>
      /\ BeyondUp = <<>> /\ BetweenUp = <<>> /\ BeforeUp = <<>>
  BY <1>1, <1>2, <1>3, NoChainIs
     DEF BeyondDown, BetweenDown, BeforeDown, BeyondUp, BetweenUp, BeforeUp, MidDown, MidUp
<1> QED BY <1>2, <1>3, <1>4, Zenon DEF StreamDown, StreamUp, Stream

(* The three ways of a byte, in terms of what is in the buffers and on the *)
(* connections.                                                            *)
LEMMA ComeIn ==
    ASSUME NEW s \in Seq(Symbol), NEW g \in Seq(Symbol), NEW m \in Seq(Symbol),
           NEW a \in Seq(Symbol),
           NEW b \in Seq(Symbol), NEW x \in Seq(Symbol), NEW j, Stream(s, g, m, a \o b, j)
    PROVE  Stream(s \o x, g, m, a \o (b \o x), j)
<1> DEFINE w == a \o b
<1>1. w \in Seq(Symbol)
  OBVIOUS
<1>2. w \o x = a \o (b \o x)
  BY SMTT(30)
<1>3. Stream(s, g, m, w, j)
  OBVIOUS
<1> HIDE DEF w
<1>4. Stream(s \o x, g, m, w \o x, j)
  BY <1>1, <1>3, StreamIn
<1> QED BY <1>2, <1>4, Zenon

LEMMA MoveOn ==
    ASSUME NEW s, NEW g \in Seq(Symbol), NEW a \in Seq(Symbol), NEW b \in Seq(Symbol),
           NEW x \in Seq(Symbol), NEW t \in Seq(Symbol), NEW k,
           Stream(s, g, a \o b, x \o t, 2)
    PROVE  Stream(s, g, a \o (b \o x), t, k)
<1> DEFINE m == a \o b
<1>1. m \in Seq(Symbol)
  OBVIOUS
<1>2. m \o x = a \o (b \o x)
  BY SMTT(30)
<1>3. s = (g \o m) \o (x \o t)
  BY Zenon DEF Stream
<1> HIDE DEF m
<1>4. Stream((g \o m) \o (x \o t), g, m \o x, t, k)
  BY <1>1, StreamMove
<1> QED BY <1>2, <1>3, <1>4, Zenon

LEMMA GoOut ==
    ASSUME NEW s \in Seq(Symbol), NEW g \in Seq(Symbol), NEW l \in Seq(Symbol), NEW m,
           NEW w \in Seq(Symbol), NEW x \in Seq(Symbol), NEW t \in Seq(Symbol),
           NEW j, j >= 1, Stream(s, g \o l, m, w, j), x \o t = m
    PROVE  Stream(s, g \o (l \o x), t, w, j)
<1> DEFINE q == g \o l
<1>1. q \in Seq(Symbol)
  OBVIOUS
<1>2. q \o x = g \o (l \o x)
  BY SMTT(30)
<1>3. Stream(s, q, x \o t, w, j)
  BY Zenon
<1> HIDE DEF q
<1>4. Stream(s, q \o x, t, w, j)
  BY <1>1, <1>3, StreamOut
<1> QED BY <1>2, <1>4, Zenon

LEMMA Handed ==
    ASSUME NEW g \in Seq(Symbol), NEW x \in Seq(Symbol), NEW t \in Seq(Symbol)
    PROVE  (g \o x) \o t = g \o (x \o t)
  BY Longer

-----------------------------------------------------------------------------
(* What each step does to the two streams *)

LEMMA QuietStreams ==
    ASSUME Typed, RInv, Order, StreamDown, StreamUp, Quiet
    PROVE  StreamDown' /\ StreamUp'
<1>1. SameData /\ UNCHANGED <<mode, target>>
  BY QuietKeeps, QuietDoes
<1>2. /\ BeyondDown' = BeyondDown /\ BeyondUp' = BeyondUp /\ UNCHANGED sent
      /\ AnswerSize' = AnswerSize
  BY <1>1 DEF SameData, BeyondDown, BeyondUp, AnswerSize
<1> DEFINE Fit == /\ GatewayCut => GatewayCut'
                  /\ NearCut => NearCut'
                  /\ ~GatewayCut' => gchain'["down"].data = gchain["down"].data /\ MidDown' = MidDown
                  /\ ~GatewayCut' => gchain'["up"].data = gchain["up"].data
                  /\ ~NearCut' => fchain'["down"].data = fchain["down"].data
                  /\ ~NearCut' => fchain'["up"].data = fchain["up"].data /\ MidUp' = MidUp
<1>3. Fit
  <2> USE DEF GatewayCut, NearCut, Forward!Stopped, Gateway!Stopped
  <2>1. CASE Idles
    BY <1>1, <1>2, <2>1 DEF Idles, SameData, MidDown, MidUp
  <2>2. CASE Connects
    <3>1. gstage = "none"
      BY <2>2 DEF Connects, RInv, Asked
    <3> QED BY <1>1, <2>2, <3>1 DEF Connects, SameData, MidDown, MidUp
  <2>3. CASE NearLeaves
    BY <1>1, <2>3 DEF NearLeaves, SameData, MidDown
  <2>4. CASE GatewayTakes
    <3>1. MidUp' = MidUp
      BY <1>1, <1>2, <2>4 DEF GatewayTakes, SameData, MidUp
    <3>2. MidDown' = MidDown
      BY <1>1, <2>4 DEF GatewayTakes, SameData, MidDown
    <3>3. gchain'["down"].data = gchain["down"].data /\ gchain'["up"].data = gchain["up"].data
      BY <2>4, StartedIs, NoChainIs DEF GatewayTakes, Order, Stages
    <3>4. gstage' = "session" => gchain'["down"].op # "none"
      BY <2>4, StartedIs DEF GatewayTakes
    <3> QED BY <1>1, <2>4, <3>1, <3>2, <3>3, <3>4 DEF GatewayTakes
  <2>5. CASE GatewayLeaves
    BY <1>1, <1>2, <2>5 DEF GatewayLeaves, SameData, MidUp
  <2> QED BY <2>1, <2>2, <2>3, <2>4, <2>5, QuietDoes
<1>4. DownLevel' <= DownLevel /\ UpLevel' <= UpLevel
  BY <1>3, LevelsFall
<1>5. /\ DownLevel' >= 1 => ~GatewayCut'
      /\ DownLevel' = 2 => ~NearCut'
      /\ UpLevel' >= 1 => ~NearCut'
      /\ UpLevel' = 2 => ~GatewayCut'
  BY DEF DownLevel, UpLevel
<1>6. /\ DownLevel' >= 1 => BetweenDown' = BetweenDown
      /\ UpLevel' >= 1 => BetweenUp' = BetweenUp
  BY <1>3, <1>5 DEF BetweenDown, BetweenUp
<1>7. /\ DownLevel' = 2 => BeforeDown' = BeforeDown
      /\ UpLevel' = 2 => BeforeUp' = BeforeUp
  BY <1>1, <1>3, <1>5 DEF BeforeDown, BeforeUp, SameData
<1> QED BY <1>2, <1>4, <1>6, <1>7, KeptDown, KeptUp

LEMMA WriteRequestStreams ==
    ASSUME Typed, RInv, Order, StreamDown, StreamUp, NEW n, WriteRequest(n)
    PROVE  StreamDown' /\ StreamUp'
<1>1. /\ middle'.up = middle.up
      /\ UNCHANGED <<mode, asked, last, fchain, gchain, gstage, sent, got>>
      /\ fstage = "request" /\ fstage' \in {"request", "answer"}
  BY WriteRequestKeeps
<1>2. gstage \in {"backlog", "deaf", "head", "body", "dead"} /\ middle.up = <<>>
  BY <1>1 DEF Order, Stages, Answered
<1>3. /\ BeyondDown' = BeyondDown /\ BeyondUp' = BeyondUp
      /\ BeforeDown' = BeforeDown /\ BeforeUp' = BeforeUp
  BY <1>1 DEF BeyondDown, BeyondUp, BeforeDown, BeforeUp
<1>4. DownLevel' = DownLevel /\ UpLevel' = UpLevel
  BY <1>1 DEF DownLevel, UpLevel, GatewayCut, NearCut, Gateway!Stopped
<1>5. MidDown' = MidDown
  BY <1>1, <1>2 DEF MidDown
<1>6. MidUp' = MidUp
  <2>1. SubSeq(<<>>, AnswerSize + 1, Len(<<>>)) = <<>>
    BY DEF AnswerSize
  <2>2. AnswerSize' = AnswerSize
    BY <1>1 DEF AnswerSize
  <2> QED BY <1>1, <1>2, <2>1, <2>2 DEF MidUp
<1>7. BetweenDown' = BetweenDown /\ BetweenUp' = BetweenUp
  BY <1>1, <1>5, <1>6 DEF BetweenDown, BetweenUp
<1>8. DownLevel' <= DownLevel /\ UpLevel' <= UpLevel
  BY <1>4, StreamTypes, SMTT(30)
<1> QED BY <1>1, <1>3, <1>7, <1>8, KeptDown, KeptUp

(* Nothing is sent, so nothing is between.                                 *)
LEMMA NothingSent ==
    ASSUME NEW g \in Seq(Symbol), NEW m \in Seq(Symbol), NEW w, NEW j, j >= 1,
           Stream(<<>>, g, m, w, j)
    PROVE  g = <<>> /\ m = <<>>
<1>1. PICK x \in Seq(Symbol) : <<>> = (g \o m) \o x
  BY Zenon DEF Stream
<1> DEFINE gm == g \o m
<1>2. gm \in Seq(Symbol) /\ x \in Seq(Symbol)
  OBVIOUS
<1>3. gm \o x = <<>>
  BY <1>1
<1> HIDE DEF gm
<1>4. gm = <<>>
  BY <1>2, <1>3, NothingJoined, Zenon
<1>5. g \in Seq(Symbol) /\ m \in Seq(Symbol) /\ g \o m = <<>>
  BY <1>4 DEF gm
<1> QED BY <1>5, NothingJoined, Zenon

LEMMA ReadAnswerStreams ==
    ASSUME Typed, RInv, Order, Careful, StreamDown, StreamUp, NEW n, ReadAnswer(n)
    PROVE  StreamDown' /\ StreamUp'
<1>1. /\ n \in 1 .. Len(middle.up) /\ middle'.down = middle.down
      /\ middle'.up = SubSeq(middle.up, n + 1, Len(middle.up))
      /\ UNCHANGED <<mode, asked, last, gchain, gstage, sent, got>>
      /\ fstage = "answer" /\ fstage' = "session"
      /\ fchain' = IF mode = "forward" THEN Forward!Started ELSE NoChain
  BY ReadAnswerKeeps
<1>2. /\ AnswerSize \in 0 .. Len(middle.up) /\ n >= AnswerSize
      /\ mode = "forward" => n = AnswerSize
  BY ReadAnswerWhole
<1>3. fchain = NoChain /\ ~NearCut /\ mode \in {"forward", "client"}
  BY <1>1 DEF Order, Stages, NearCut, Typed
<1>4. /\ ~NearCut' /\ fchain'["down"].data = fchain["down"].data
      /\ fchain'["up"].data = fchain["up"].data
  BY <1>1, <1>3, StartedIs, NoChainIs DEF NearCut, Forward!Stopped
<1>5. /\ BeyondDown' = BeyondDown /\ BeyondUp' = BeyondUp
      /\ BeforeDown' = BeforeDown /\ BeforeUp' = BeforeUp
  BY <1>1, <1>4 DEF BeyondDown, BeyondUp, BeforeDown, BeforeUp
<1>6. DownLevel' = DownLevel /\ UpLevel' = UpLevel /\ UpLevel >= 1
  BY <1>1, <1>3, <1>4 DEF DownLevel, UpLevel, GatewayCut, Gateway!Stopped
<1>7. MidDown' = MidDown
  BY <1>1 DEF MidDown
<1>8. n = AnswerSize
  <2>1. CASE mode = "client"
    <3>1. mode \in Patient /\ sent["down"] = <<>>
      BY <1>1, <2>1 DEF Careful, Order, Waiting
    <3>2. got["down"] = <<>>
      <4>1. got["down"] \in Seq(Symbol) /\ last.down \in Seq(Symbol) /\ BeyondDown \in Seq(Symbol)
        BY TypedSeqs, StreamTypes
      <4>2. PICK x \in Seq(Symbol) : <<>> = BeyondDown \o x
        BY <3>1, Zenon DEF StreamDown, Stream
      <4>3. BeyondDown = <<>>
        BY <4>1, <4>2, NothingJoined
      <4> QED BY <4>1, <4>3, NothingJoined DEF BeyondDown
    <3>3. sent["up"] = <<>>
      BY <3>1, <3>2 DEF Order, Waiting
    <3>4. BetweenUp = <<>>
      <4>1. Stream(<<>>, BeyondUp, BetweenUp, BeforeUp, UpLevel)
        BY <3>3, Zenon DEF StreamUp
      <4> QED BY <1>6, <4>1, StreamTypes, NothingSent
    <3>5. MidUp = <<>>
      BY <3>4, StreamTypes, NothingJoined DEF BetweenUp
    <3>6. SubSeq(middle.up, AnswerSize + 1, Len(middle.up)) = <<>>
      BY <1>1, <3>5 DEF MidUp
    <3>7. AnswerSize = Len(middle.up)
      BY <1>2, <3>6, TypedSeqs, Parts
    <3> QED BY <1>1, <1>2, <3>7, TypedSeqs
  <2> QED BY <1>2, <1>3, <2>1
<1>9. MidUp' = MidUp
  BY <1>1, <1>8 DEF MidUp
<1>10. BetweenDown' = BetweenDown /\ BetweenUp' = BetweenUp
  BY <1>1, <1>4, <1>7, <1>9 DEF BetweenDown, BetweenUp
<1>11. DownLevel' <= DownLevel /\ UpLevel' <= UpLevel
  BY <1>6, StreamTypes, SMTT(30)
<1> QED BY <1>1, <1>5, <1>10, <1>11, KeptDown, KeptUp

LEMMA GatewayReadsStreams ==
    ASSUME Typed, RInv, Order, StreamDown, StreamUp, NEW n, GatewayHead \/ GatewayBody(n)
    PROVE  StreamDown' /\ StreamUp'
<1>1. /\ middle'.up = middle.up
      /\ UNCHANGED <<mode, asked, last, fchain, gchain, fstage, sent, got>>
      /\ gstage \in {"head", "body"} /\ gstage' \in {"body", "yes", "no"}
  BY GatewayHeadKeeps, GatewayBodyKeeps
<1>2. /\ BeyondDown' = BeyondDown /\ BeyondUp' = BeyondUp
      /\ BeforeDown' = BeforeDown /\ BeforeUp' = BeforeUp
  BY <1>1 DEF BeyondDown, BeyondUp, BeforeDown, BeforeUp
<1>3. DownLevel' = DownLevel /\ UpLevel' = UpLevel
  BY <1>1 DEF DownLevel, UpLevel, GatewayCut, NearCut, Forward!Stopped
<1>4. MidDown' = MidDown /\ MidUp' = MidUp
  BY <1>1 DEF MidDown, MidUp, AnswerSize
<1>5. BetweenDown' = BetweenDown /\ BetweenUp' = BetweenUp
  BY <1>1, <1>4 DEF BetweenDown, BetweenUp
<1>6. DownLevel' <= DownLevel /\ UpLevel' <= UpLevel
  BY <1>3, StreamTypes, SMTT(30)
<1> QED BY <1>1, <1>2, <1>5, <1>6, KeptDown, KeptUp

LEMMA GatewayAnswerStreams ==
    ASSUME Typed, RInv, Order, StreamDown, StreamUp, NEW n, GatewayAnswer(n)
    PROVE  StreamDown' /\ StreamUp'
<1>1. /\ middle'.down = middle.down
      /\ n \in 1 .. Len(left[2]) /\ middle'.up = middle.up \o SubSeq(left[2], 1, n)
      /\ UNCHANGED <<mode, asked, last, fchain, gchain, fstage, sent, got>>
      /\ gstage \in {"yes", "no"} /\ gstage' \in {"yes", "no", "connecting", "dead"}
  BY GatewayAnswerKeeps
<1>2. /\ Asking = <<>> /\ Len(middle.up) + Len(left[2]) = AnswerSize /\ fstage # "session"
  BY <1>1 DEF Order, Stages, Taken, Answered
<1>3. middle.up \in Seq(Symbol) /\ left[2] \in Seq(Symbol) /\ middle.down \in Seq(Symbol)
      /\ left[1] \in Seq(Symbol)
  BY TypedSeqs
<1>4. /\ BeyondDown' = BeyondDown /\ BeyondUp' = BeyondUp
      /\ BeforeDown' = BeforeDown /\ BeforeUp' = BeforeUp
  BY <1>1 DEF BeyondDown, BeyondUp, BeforeDown, BeforeUp
<1>5. DownLevel' <= DownLevel /\ UpLevel' <= UpLevel
  BY <1>1, LevelsFall DEF GatewayCut, NearCut, Forward!Stopped
<1>6. MidDown' = MidDown
  <2>1. middle.down = <<>>
    BY <1>2, <1>3, NothingJoined DEF Asking
  <2> QED BY <1>1, <2>1 DEF MidDown
<1>7. MidUp' = MidUp
  <2>1. \A s \in Seq(Symbol), k \in Nat : Len(s) <= k => SubSeq(s, k + 1, Len(s)) = <<>>
    OBVIOUS
  <2>2. middle'.up \in Seq(Symbol) /\ Len(middle'.up) = Len(middle.up) + n
    <3> DEFINE u == SubSeq(left[2], 1, n)
    <3>1. u \in Seq(Symbol) /\ Len(u) = n
      BY <1>1, <1>3, Parts
    <3>2. middle'.up = middle.up \o u
      BY <1>1
    <3> HIDE DEF u
    <3>3. middle.up \o u \in Seq(Symbol)
      BY <1>3, <3>1
    <3>4. Len(middle.up \o u) = Len(middle.up) + Len(u)
      BY <1>3, <3>1, Concatenated, Zenon
    <3> QED BY <3>1, <3>2, <3>3, <3>4, Zenon
  <2>3. Len(middle.up) \in Nat /\ Len(left[2]) \in Nat /\ n \in 1 .. Len(left[2])
    BY <1>1, <1>3
  <2>4. Len(middle.up) <= AnswerSize /\ Len(middle'.up) <= AnswerSize /\ AnswerSize \in Nat
    <3>1. \A a, b \in Nat : \A k \in 1 .. b : a <= a + b /\ a + k <= a + b
      OBVIOUS
    <3>2. AnswerSize \in Nat
      BY DEF AnswerSize
    <3> QED BY <1>2, <2>2, <2>3, <3>1, <3>2, Zenon
  <2>5. /\ SubSeq(middle.up, AnswerSize + 1, Len(middle.up)) = <<>>
        /\ SubSeq(middle'.up, AnswerSize + 1, Len(middle'.up)) = <<>>
    BY <1>3, <2>1, <2>2, <2>4, Zenon
  <2>6. AnswerSize' = AnswerSize
    BY <1>1 DEF AnswerSize
  <2> QED BY <1>1, <1>2, <2>5, <2>6 DEF MidUp
<1>8. BetweenDown' = BetweenDown /\ BetweenUp' = BetweenUp
  BY <1>1, <1>6, <1>7 DEF BetweenDown, BetweenUp
<1> QED BY <1>1, <1>4, <1>5, <1>8, KeptDown, KeptUp

(* The forward session at work: out of the application's connection into   *)
(* the middle one, and back.                                               *)
LEMMA ForwardFlowsDown ==
    ASSUME Typed, Typed', Order, StreamDown, mode = "forward", fstage = "session", ~Forward!Stopped,
           UNCHANGED <<mode, last, gchain, fstage, gstage, sent, got>>,
           Flow(asked.down, fchain["down"].data, middle.down,
                asked'.down, fchain'["down"].data, middle'.down)
    PROVE  StreamDown'
<1>1. BeyondDown' = BeyondDown /\ GatewayCut' = GatewayCut
  BY DEF BeyondDown, GatewayCut, Gateway!Stopped
<1>2. CASE GatewayCut
  <2>1. DownLevel' = 0 /\ DownLevel = 0
    BY <1>1, <1>2 DEF DownLevel
  <2> QED BY <1>1, <2>1, KeptDown
<1>3. CASE ~GatewayCut
  <2>1. DownLevel = 2 /\ DownLevel' \in 0 .. 2
    BY <1>3 DEF DownLevel, NearCut
  <2>2. gstage \in {"connecting", "session"}
    BY <1>3 DEF Order, Stages, GatewayCut
  <2>3. /\ BetweenDown = gchain["down"].data \o middle.down
        /\ BetweenDown' = gchain["down"].data \o middle'.down
    BY <2>2 DEF BetweenDown, MidDown
  <2>4. PICK x \in Seq(Symbol) :
              middle'.down = middle.down \o x /\ x \o BeforeDown' = BeforeDown
    BY DEF Flow, BeforeDown
  <2> DEFINE g == BeyondDown
             a == gchain["down"].data
             b == middle.down
             t == BeforeDown'
             k == DownLevel'
  <2>5. /\ g \in Seq(Symbol) /\ a \in Seq(Symbol) /\ b \in Seq(Symbol)
    BY StreamTypes, TypedSeqs
  <2>6. t \in Seq(Symbol)
    BY DEF Flow, BeforeDown
  <2>7. Stream(sent["down"], g, a \o b, x \o t, 2)
    BY <2>1, <2>3, <2>4, Zenon DEF StreamDown
  <2> HIDE DEF g, a, b, t, k
  <2>8. Stream(sent["down"], g, a \o (b \o x), t, k)
    BY <2>5, <2>6, <2>7, MoveOn
  <2>9. a \o (b \o x) = BetweenDown'
    BY <2>3, <2>4, Zenon DEF a, b
  <2>10. Stream(sent["down"], BeyondDown, BetweenDown', BeforeDown', DownLevel')
    BY <2>8, <2>9, Zenon DEF g, t, k
  <2> QED BY <1>1, <2>10, Zenon DEF StreamDown
<1> QED BY <1>2, <1>3

LEMMA ForwardFlowsUp ==
    ASSUME Typed, Typed', Order, StreamUp, mode = "forward", fstage = "session", ~Forward!Stopped,
           ~Forward!Stopped', UNCHANGED <<mode, last, gchain, fstage, gstage, sent, got>>,
           Flow(middle.up, fchain["up"].data, asked.up, middle'.up, fchain'["up"].data, asked'.up)
    PROVE  StreamUp'
<1>1. BeforeUp' = BeforeUp /\ UpLevel' = UpLevel /\ UpLevel >= 1
  BY DEF BeforeUp, UpLevel, GatewayCut, NearCut, Gateway!Stopped
<1>2. BetweenUp = fchain["up"].data \o middle.up /\ BetweenUp' = fchain'["up"].data \o middle'.up
  BY DEF BetweenUp, MidUp
<1>3. PICK x \in Seq(Symbol) : asked'.up = asked.up \o x /\ x \o BetweenUp' = BetweenUp
  BY <1>2 DEF Flow
<1> DEFINE s == sent["up"]
           g == got["up"]
           l == asked.up
           t == BetweenUp'
           m == BetweenUp
           w == BeforeUp
           j == UpLevel
<1>4. s \in Seq(Symbol) /\ g \in Seq(Symbol) /\ l \in Seq(Symbol) /\ w \in Seq(Symbol)
  BY StreamTypes, TypedSeqs
<1>5. t \in Seq(Symbol)
  BY <1>2 DEF Flow
<1>6. Stream(s, g \o l, m, w, j)
  BY Zenon DEF StreamUp, BeyondUp
<1>7. j >= 1 /\ x \o t = m
  BY <1>1, <1>3
<1> HIDE DEF s, g, l, t, m, w, j
<1>8. Stream(s, g \o (l \o x), t, w, j)
  BY <1>4, <1>5, <1>6, <1>7, GoOut
<1>9. g \o (l \o x) = BeyondUp'
  BY <1>3, Zenon DEF g, l, BeyondUp
<1> QED BY <1>1, <1>8, <1>9, Zenon DEF StreamUp, s, t, w, j

LEMMA ForwardRelaysStreams ==
    ASSUME Typed, RInv, Order, StreamDown, StreamUp, ForwardRelays
    PROVE  StreamDown' /\ StreamUp'
<1>1. /\ Typed' /\ mode = "forward" /\ fstage = "session" /\ ~Forward!Stopped
      /\ UNCHANGED <<mode, last, gchain, fstage, gstage, sent, got>>
  BY ForwardRelaysKeeps
<1>2. CASE ~Forward!Stopped'
  <2>1. /\ Flow(asked.down, fchain["down"].data, middle.down,
                asked'.down, fchain'["down"].data, middle'.down)
        /\ Flow(middle.up, fchain["up"].data, asked.up, middle'.up, fchain'["up"].data, asked'.up)
    BY <1>2, ForwardRelaysKeeps, Zenon
  <2>2. StreamDown'
    BY <1>1, <2>1, ForwardFlowsDown, Zenon
  <2>3. StreamUp'
    BY <1>1, <1>2, <2>1, ForwardFlowsUp, Zenon
  <2> QED BY <2>2, <2>3
<1>3. CASE Forward!Stopped'
  <2>1. /\ asked'.up = asked.up /\ middle'.down = middle.down
    BY <1>3, ForwardRelaysKeeps
  <2>2. NearCut' /\ GatewayCut' = GatewayCut
    BY <1>1, <1>3 DEF NearCut, GatewayCut, Gateway!Stopped
  <2>3. BeyondDown' = BeyondDown /\ BeyondUp' = BeyondUp /\ BetweenDown' = BetweenDown
    BY <1>1, <2>1 DEF BeyondDown, BeyondUp, BetweenDown, MidDown
  <2>4. DownLevel' <= DownLevel /\ DownLevel' # 2 /\ UpLevel' = 0 /\ UpLevel' <= UpLevel
    BY <2>2, LevelsFall DEF DownLevel, UpLevel
  <2> QED BY <1>1, <2>3, <2>4, KeptDown, KeptUp
<1> QED BY <1>2, <1>3

(* The gateway's session at work.                                          *)
LEMMA GatewayFlowsDown ==
    ASSUME Typed, Typed', Order, StreamDown, gstage = "session", ~Gateway!Stopped,
           ~Gateway!Stopped', UNCHANGED <<mode, asked, fchain, fstage, gstage, sent, got>>,
           Flow(middle.down, gchain["down"].data, last.down,
                middle'.down, gchain'["down"].data, last'.down)
    PROVE  StreamDown'
<1>1. BeforeDown' = BeforeDown /\ DownLevel' = DownLevel /\ DownLevel >= 1
  BY DEF BeforeDown, DownLevel, GatewayCut, NearCut, Forward!Stopped
<1>2. /\ BetweenDown = gchain["down"].data \o middle.down
      /\ BetweenDown' = gchain'["down"].data \o middle'.down
  BY DEF BetweenDown, MidDown
<1>3. PICK x \in Seq(Symbol) : last'.down = last.down \o x /\ x \o BetweenDown' = BetweenDown
  BY <1>2 DEF Flow
<1> DEFINE s == sent["down"]
           g == got["down"]
           l == last.down
           t == BetweenDown'
           m == BetweenDown
           w == BeforeDown
           j == DownLevel
<1>4. s \in Seq(Symbol) /\ g \in Seq(Symbol) /\ l \in Seq(Symbol) /\ w \in Seq(Symbol)
  BY StreamTypes, TypedSeqs
<1>5. t \in Seq(Symbol)
  BY <1>2 DEF Flow
<1>6. Stream(s, g \o l, m, w, j)
  BY Zenon DEF StreamDown, BeyondDown
<1>7. j >= 1 /\ x \o t = m
  BY <1>1, <1>3
<1> HIDE DEF s, g, l, t, m, w, j
<1>8. Stream(s, g \o (l \o x), t, w, j)
  BY <1>4, <1>5, <1>6, <1>7, GoOut
<1>9. g \o (l \o x) = BeyondDown'
  BY <1>3, Zenon DEF g, l, BeyondDown
<1> QED BY <1>1, <1>8, <1>9, Zenon DEF StreamDown, s, t, w, j

(* What the gateway adds comes after the answer.                           *)
LEMMA TailGrows ==
    ASSUME NEW s \in Seq(Symbol), NEW x \in Seq(Symbol), NEW k \in 0 .. Len(s)
    PROVE  SubSeq(s \o x, k + 1, Len(s \o x)) = SubSeq(s, k + 1, Len(s)) \o x
<1> DEFINE l == SubSeq(s \o x, k + 1, Len(s \o x))
           r == SubSeq(s, k + 1, Len(s)) \o x
<1>1. s \o x \in Seq(Symbol) /\ Len(s \o x) = Len(s) + Len(x)
  BY Joined
<1>2. SubSeq(s, k + 1, Len(s)) \in Seq(Symbol) /\ Len(SubSeq(s, k + 1, Len(s))) = Len(s) - k
  BY Parts
<1>3. l \in Seq(Symbol) /\ Len(l) = Len(s) + Len(x) - k
  BY <1>1, Parts
<1>4. r \in Seq(Symbol) /\ Len(r) = Len(s) - k + Len(x)
  BY <1>2, Joined
<1>5. ASSUME NEW i \in 1 .. Len(s \o x) - k PROVE l[i] = r[i]
  <2>1. l[i] = (s \o x)[k + i]
    <3>1. k \in 0 .. Len(s \o x)
      BY <1>1
    <3> QED BY <1>1, <3>1, Parts
  <2>2. r[i] = (s \o x)[i + k]
    BY HeadGone
  <2>3. k + i = i + k
    OBVIOUS
  <2> QED BY <2>1, <2>2, <2>3
<1>6. Len(s \o x) - k = Len(l) /\ Len(l) = Len(r)
  BY <1>1, <1>3, <1>4
<1>7. \A i \in 1 .. Len(l) : l[i] = r[i]
  BY <1>5, <1>6, Zenon
<1>8. l \in Seq(Symbol) /\ r \in Seq(Symbol) /\ Len(l) = Len(r)
  BY <1>3, <1>4, <1>6
<1> HIDE DEF l, r
<1>9. l = r
  BY <1>7, <1>8, SeqEqual, Zenon
<1> QED BY <1>9 DEF l, r

LEMMA GatewayFlowsUp ==
    ASSUME Typed, Typed', RInv, Order, StreamUp, gstage = "session", ~Gateway!Stopped,
           UNCHANGED <<mode, asked, fchain, fstage, gstage, sent, got>>,
           Flow(last.up, gchain["up"].data, middle.up, last'.up, gchain'["up"].data, middle'.up)
    PROVE  StreamUp'
<1>1. BeyondUp' = BeyondUp /\ NearCut' = NearCut
  BY DEF BeyondUp, NearCut, Forward!Stopped
<1>2. CASE NearCut
  <2>1. UpLevel' = 0 /\ UpLevel = 0
    BY <1>1, <1>2 DEF UpLevel
  <2> QED BY <1>1, <2>1, KeptUp
<1>3. CASE ~NearCut
  <2>1. UpLevel = 2 /\ UpLevel' \in 0 .. 2
    BY <1>3 DEF UpLevel, GatewayCut
  <2>2. fstage \in {"answer", "session"}
    BY <1>3 DEF RInv, Asked, Order, Stages, NearCut, Typed, NearStage
  <2>3. PICK x \in Seq(Symbol) : middle'.up = middle.up \o x /\ x \o BeforeUp' = BeforeUp
    BY DEF Flow, BeforeUp
  <2>4. MidUp' = MidUp \o x
    <3>1. CASE fstage = "session"
      BY <2>3, <3>1 DEF MidUp
    <3>2. CASE fstage = "answer"
      <4>1. AnswerSize \in 0 .. Len(middle.up) /\ AnswerSize' = AnswerSize
        <5>1. Len(middle.up) >= AnswerSize
          BY <3>2 DEF Order, Answered
        <5>2. Len(middle.up) \in Nat
          BY TypedSeqs
        <5> QED BY <5>1, <5>2 DEF AnswerSize
      <4>2. SubSeq(middle.up \o x, AnswerSize + 1, Len(middle.up \o x))
              = SubSeq(middle.up, AnswerSize + 1, Len(middle.up)) \o x
        BY <4>1, TypedSeqs, TailGrows
      <4> QED BY <2>3, <3>2, <4>1, <4>2, Zenon DEF MidUp
    <3> QED BY <2>2, <3>1, <3>2
  <2> DEFINE g == BeyondUp
             a == fchain["up"].data
             b == MidUp
             t == BeforeUp'
             k == UpLevel'
  <2>5. /\ g \in Seq(Symbol) /\ a \in Seq(Symbol) /\ b \in Seq(Symbol)
    BY StreamTypes
  <2>6. t \in Seq(Symbol)
    BY DEF Flow, BeforeUp
  <2>7. Stream(sent["up"], g, a \o b, x \o t, 2)
    BY <2>1, <2>3, Zenon DEF StreamUp, BetweenUp
  <2> HIDE DEF g, a, b, t, k
  <2>8. Stream(sent["up"], g, a \o (b \o x), t, k)
    BY <2>5, <2>6, <2>7, MoveOn
  <2>9. a \o (b \o x) = BetweenUp'
    BY <2>4, Zenon DEF a, b, BetweenUp
  <2>10. Stream(sent["up"], BeyondUp, BetweenUp', BeforeUp', UpLevel')
    BY <2>8, <2>9, Zenon DEF g, t, k
  <2> QED BY <1>1, <2>10, Zenon DEF StreamUp
<1> QED BY <1>2, <1>3

LEMMA GatewayRelaysStreams ==
    ASSUME Typed, RInv, Order, StreamDown, StreamUp, GatewayRelays
    PROVE  StreamDown' /\ StreamUp'
<1>1. /\ Typed' /\ gstage = "session" /\ ~Gateway!Stopped
      /\ UNCHANGED <<mode, asked, fchain, fstage, gstage, sent, got>>
  BY GatewayRelaysKeeps
<1>2. CASE ~Gateway!Stopped'
  <2>1. /\ Flow(middle.down, gchain["down"].data, last.down,
                middle'.down, gchain'["down"].data, last'.down)
        /\ Flow(last.up, gchain["up"].data, middle.up, last'.up, gchain'["up"].data, middle'.up)
    BY <1>2, GatewayRelaysKeeps, Zenon
  <2>2. StreamDown'
    BY <1>1, <1>2, <2>1, GatewayFlowsDown, Zenon
  <2>3. StreamUp'
    BY <1>1, <2>1, GatewayFlowsUp, Zenon
  <2> QED BY <2>2, <2>3
<1>3. CASE Gateway!Stopped'
  <2>1. /\ last'.down = last.down /\ middle'.up = middle.up
    BY <1>3, GatewayRelaysKeeps
  <2>2. GatewayCut' /\ NearCut' = NearCut
    BY <1>1, <1>3 DEF NearCut, GatewayCut, Forward!Stopped
  <2>3. BeyondDown' = BeyondDown /\ BeyondUp' = BeyondUp /\ BetweenUp' = BetweenUp
    BY <1>1, <2>1 DEF BeyondDown, BeyondUp, BetweenUp, MidUp, AnswerSize
  <2>4. UpLevel' <= UpLevel /\ UpLevel' # 2 /\ DownLevel' = 0 /\ DownLevel' <= DownLevel
    BY <2>2, LevelsFall DEF DownLevel, UpLevel
  <2> QED BY <1>1, <2>3, <2>4, KeptDown, KeptUp
<1> QED BY <1>2, <1>3

(* The ends send, ...                                                      *)
LEMMA NearSendsStreams ==
    ASSUME Typed, RInv, Order, Careful, StreamDown, StreamUp, NearSends
    PROVE  StreamDown' /\ StreamUp'
<1> DEFINE c == <<NextByte("down")>>
<1>1. /\ sent'["down"] = sent["down"] \o c /\ sent'["up"] = sent["up"]
      /\ asked'.up = asked.up /\ middle'.up = middle.up
      /\ mode = "forward" => asked'.down = asked.down \o c /\ middle' = middle
      /\ mode # "forward" => middle'.down = middle.down \o c /\ asked' = asked
      /\ UNCHANGED <<mode, last, fchain, gchain, fstage, gstage, got>>
  BY NearSendsKeeps
<1>2. c \in Seq(Symbol)
  BY PayloadTyped, DirsAre
<1> HIDE DEF c
<1>3. /\ BeyondDown' = BeyondDown /\ BeyondUp' = BeyondUp
      /\ BetweenUp' = BetweenUp /\ BeforeUp' = BeforeUp
  BY <1>1 DEF BeyondDown, BeyondUp, BetweenUp, BeforeUp, MidUp, AnswerSize
<1>4. DownLevel' = DownLevel /\ UpLevel' = UpLevel
  BY <1>1 DEF DownLevel, UpLevel, GatewayCut, NearCut, Gateway!Stopped, Forward!Stopped
<1>5. StreamUp'
  BY <1>1, <1>3, <1>4, Zenon DEF StreamUp
<1> DEFINE s == sent["down"]
           g == BeyondDown
           m == BetweenDown
           a == fchain["down"].data
           b == asked.down
           j == DownLevel
<1>6. /\ s \in Seq(Symbol) /\ g \in Seq(Symbol) /\ m \in Seq(Symbol)
      /\ a \in Seq(Symbol) /\ b \in Seq(Symbol)
  BY StreamTypes, TypedSeqs
<1>7. Stream(s, g, m, a \o b, j)
  BY Zenon DEF StreamDown, BeforeDown
<1> HIDE DEF s, g, m, a, b, j
<1>8. Stream(s \o c, g, m, a \o (b \o c), j)
  BY <1>2, <1>6, <1>7, ComeIn
<1>9. CASE mode = "forward"
  <2>1. BetweenDown' = m
    BY <1>1, <1>9 DEF BetweenDown, MidDown, m
  <2>2. BeforeDown' = a \o (b \o c)
    BY <1>1, <1>9, Zenon DEF BeforeDown, a, b
  <2> QED BY <1>1, <1>3, <1>4, <1>5, <1>8, <2>1, <2>2, Zenon DEF StreamDown, s, g, j
<1>10. CASE mode # "forward"
  <2>1. fstage = "session" /\ gstage \in {"connecting", "session", "dead"}
    BY <1>10, NearSendsOrder
  <2>2. a = <<>> /\ b = <<>> /\ a \o (b \o c) = c
    <3>1. a = <<>> /\ b = <<>>
      BY <1>10, NoChainIs DEF Typed, Order, Stages, a, b
    <3>2. <<>> \o (<<>> \o c) = c
      BY <1>2, Nothing
    <3> QED BY <3>1, <3>2
  <2>3. CASE GatewayCut
    <3>1. j = 0
      BY <2>3 DEF DownLevel, j
    <3>2. Stream(s \o c, g, BetweenDown', BeforeDown', 0)
      <4>1. \E x \in Seq(Symbol) : s \o c = g \o x
        BY <1>8, Zenon DEF Stream
      <4> QED BY <4>1 DEF Stream
    <3> QED BY <1>1, <1>3, <1>4, <1>5, <3>1, <3>2, Zenon DEF StreamDown, s, g, j
  <2>4. CASE ~GatewayCut
    <3>1. j = 2
      BY <1>10, <2>1, <2>4 DEF DownLevel, NearCut, j
    <3> DEFINE p == gchain["down"].data
               q == middle.down
               t == <<>>
    <3>2. m = p \o q /\ BetweenDown' = p \o (q \o c)
      <4>1. gstage \in {"connecting", "session"}
        BY <2>1, <2>4 DEF GatewayCut
      <4> QED BY <1>1, <1>10, <4>1 DEF BetweenDown, MidDown, m
    <3>3. BeforeDown' = t
      BY <1>1, <1>10, <2>2, Nothing DEF BeforeDown, a, b
    <3>4. c \o t = a \o (b \o c)
      BY <1>2, <2>2, Nothing
    <3>5. p \in Seq(Symbol) /\ q \in Seq(Symbol) /\ t \in Seq(Symbol) /\ s \o c \in Seq(Symbol)
      BY <1>2, <1>6, StreamTypes, TypedSeqs, Joined
    <3> HIDE DEF p, q, t
    <3>6. Stream(s \o c, g, p \o q, c \o t, 2)
      BY <1>8, <3>1, <3>2, <3>4, Zenon
    <3>7. Stream(s \o c, g, p \o (q \o c), t, 2)
      BY <1>2, <1>6, <3>5, <3>6, MoveOn
    <3> QED BY <1>1, <1>3, <1>4, <1>5, <3>1, <3>2, <3>3, <3>7, Zenon DEF StreamDown, s, g, j
  <2> QED BY <2>3, <2>4
<1> QED BY <1>9, <1>10

LEMMA TargetSendsStreams ==
    ASSUME Typed, RInv, Order, StreamDown, StreamUp, TargetSends
    PROVE  StreamDown' /\ StreamUp'
<1> DEFINE c == <<NextByte("up")>>
<1>1. /\ sent'["up"] = sent["up"] \o c /\ sent'["down"] = sent["down"]
      /\ last'.up = last.up \o c /\ last'.down = last.down
      /\ UNCHANGED <<mode, asked, middle, fchain, gchain, fstage, gstage, got>>
  BY TargetSendsKeeps
<1>2. c \in Seq(Symbol)
  BY PayloadTyped, DirsAre
<1> HIDE DEF c
<1>3. /\ BeyondDown' = BeyondDown /\ BeyondUp' = BeyondUp
      /\ BetweenDown' = BetweenDown /\ BeforeDown' = BeforeDown /\ BetweenUp' = BetweenUp
  BY <1>1 DEF BeyondDown, BeyondUp, BetweenDown, BetweenUp, BeforeDown, MidUp, MidDown, AnswerSize
<1>4. DownLevel' = DownLevel /\ UpLevel' = UpLevel
  BY <1>1 DEF DownLevel, UpLevel, GatewayCut, NearCut, Gateway!Stopped, Forward!Stopped
<1>5. StreamDown'
  BY <1>1, <1>3, <1>4, Zenon DEF StreamDown
<1> DEFINE s == sent["up"]
           g == BeyondUp
           m == BetweenUp
           a == gchain["up"].data
           b == last.up
           j == UpLevel
<1>6. /\ s \in Seq(Symbol) /\ g \in Seq(Symbol) /\ m \in Seq(Symbol)
      /\ a \in Seq(Symbol) /\ b \in Seq(Symbol)
  BY StreamTypes, TypedSeqs
<1>7. Stream(s, g, m, a \o b, j)
  BY Zenon DEF StreamUp, BeforeUp
<1> HIDE DEF s, g, m, a, b, j
<1>8. Stream(s \o c, g, m, a \o (b \o c), j)
  BY <1>2, <1>6, <1>7, ComeIn
<1>9. BeforeUp' = a \o (b \o c)
  BY <1>1, Zenon DEF BeforeUp, a, b
<1> QED BY <1>1, <1>3, <1>4, <1>5, <1>8, <1>9, Zenon DEF StreamUp, s, g, m, j

(* ... and receive.                                                        *)
LEMMA NearGetsStreams ==
    ASSUME Typed, RInv, Order, StreamDown, StreamUp, NearGets
    PROVE  StreamDown' /\ StreamUp'
<1>1. /\ Typed' /\ (mode = "client" => fstage = "session") /\ got'["down"] = got["down"]
      /\ asked'.down = asked.down /\ middle'.down = middle.down
      /\ mode = "forward" => middle' = middle /\ asked.up # <<>>
            /\ asked'.up = SubSeq(asked.up, 2, Len(asked.up))
            /\ got'["up"] = got["up"] \o SubSeq(asked.up, 1, 1)
      /\ mode # "forward" => asked' = asked /\ middle.up # <<>>
            /\ middle'.up = SubSeq(middle.up, 2, Len(middle.up))
            /\ got'["up"] = got["up"] \o SubSeq(middle.up, 1, 1)
      /\ UNCHANGED <<mode, last, fchain, gchain, fstage, gstage, sent>>
  BY NearGetsKeeps, Zenon
<1>2. /\ BeyondDown' = BeyondDown /\ BetweenDown' = BetweenDown /\ BeforeDown' = BeforeDown
      /\ BeforeUp' = BeforeUp
  BY <1>1 DEF BeyondDown, BetweenDown, BeforeDown, BeforeUp, MidDown
<1>3. DownLevel' = DownLevel /\ UpLevel' = UpLevel
  BY <1>1 DEF DownLevel, UpLevel, GatewayCut, NearCut, Gateway!Stopped, Forward!Stopped
<1>4. StreamDown'
  BY <1>1, <1>2, <1>3, Zenon DEF StreamDown
<1>5. StreamUp'
  <2>1. CASE mode = "forward"
    <3> DEFINE c == SubSeq(asked.up, 1, 1)
               t == SubSeq(asked.up, 1 + 1, Len(asked.up))
    <3>1. 1 \in 0 .. Len(asked.up) /\ asked.up \in Seq(Symbol) /\ got["up"] \in Seq(Symbol)
      BY <1>1, <2>1, TypedSeqs
    <3>2. c \in Seq(Symbol) /\ t \in Seq(Symbol) /\ c \o t = asked.up
      BY <3>1, Cut
    <3>3. asked'.up = t /\ got'["up"] = got["up"] \o c
      BY <1>1, <2>1
    <3> HIDE DEF c, t
    <3>4. (got["up"] \o c) \o t = got["up"] \o (c \o t)
      BY <3>1, <3>2, Handed
    <3>5. BeyondUp' = BeyondUp
      BY <3>2, <3>3, <3>4 DEF BeyondUp
    <3>6. BetweenUp' = BetweenUp
      BY <1>1, <2>1 DEF BetweenUp, MidUp, AnswerSize
    <3> QED BY <1>1, <1>2, <1>3, <3>5, <3>6, Zenon DEF StreamUp
  <2>2. CASE mode # "forward"
    <3> DEFINE c == SubSeq(middle.up, 1, 1)
               t == SubSeq(middle.up, 1 + 1, Len(middle.up))
               s == sent["up"]
               g == got["up"]
               l == asked.up
               w == BeforeUp
               j == UpLevel
    <3>1. 1 \in 0 .. Len(middle.up) /\ middle.up \in Seq(Symbol) /\ g \in Seq(Symbol)
      BY <1>1, <2>2, TypedSeqs
    <3>2. c \in Seq(Symbol) /\ t \in Seq(Symbol) /\ c \o t = middle.up
      BY <3>1, Cut
    <3>3. middle'.up = t /\ got'["up"] = g \o c
      BY <1>1, <2>2
    <3>4. fstage = "session" /\ l = <<>> /\ fchain = NoChain
      BY <1>1, <2>2 DEF Typed, Order, Stages
    <3>5. j >= 1
      BY <2>2, <3>4 DEF UpLevel, NearCut
    <3>6. s \in Seq(Symbol) /\ l \in Seq(Symbol) /\ w \in Seq(Symbol)
      BY StreamTypes, TypedSeqs
    <3> HIDE DEF c, t
    <3>7. BetweenUp = c \o t
      <4>1. BetweenUp = <<>> \o middle.up
        BY <3>4, NoChainIs DEF BetweenUp, MidUp
      <4> QED BY <3>1, <3>2, <4>1, Nothing
    <3>8. BetweenUp' = t
      <4>1. BetweenUp' = <<>> \o middle'.up
        BY <1>1, <3>4, NoChainIs DEF BetweenUp, MidUp
      <4> QED BY <3>2, <3>3, <4>1, Nothing
    <3>9. Stream(s, g \o l, c \o t, w, j)
      BY <3>7, Zenon DEF StreamUp, BeyondUp
    <3>10. BeyondUp' = g \o (l \o c)
      <4>1. BeyondUp' = (g \o c) \o <<>>
        BY <1>1, <2>2, <3>3, <3>4 DEF BeyondUp
      <4>2. <<>> \o c = c
        BY <3>2, Nothing
      <4>3. (g \o c) \o <<>> = g \o c
        <5>1. g \o c \in Seq(Symbol)
          BY <3>1, <3>2, Joined
        <5> QED BY <5>1, Nothing
      <4> QED BY <3>4, <4>1, <4>2, <4>3
    <3> HIDE DEF s, g, l, w, j
    <3>11. Stream(s, g \o (l \o c), t, w, j)
      BY <3>1, <3>2, <3>5, <3>6, <3>9, GoOut
    <3> QED BY <1>1, <1>2, <1>3, <3>8, <3>10, <3>11, Zenon DEF StreamUp, s, w, j
  <2> QED BY <2>1, <2>2
<1> QED BY <1>4, <1>5

LEMMA TargetGetsStreams ==
    ASSUME Typed, RInv, Order, StreamDown, StreamUp, TargetGets
    PROVE  StreamDown' /\ StreamUp'
<1>1. /\ last.down # <<>> /\ last'.down = SubSeq(last.down, 2, Len(last.down)) /\ last'.up = last.up
      /\ got'["down"] = got["down"] \o SubSeq(last.down, 1, 1) /\ got'["up"] = got["up"]
      /\ UNCHANGED <<mode, asked, middle, fchain, gchain, fstage, gstage, sent>>
  BY TargetGetsKeeps
<1>2. /\ BetweenDown' = BetweenDown /\ BeforeDown' = BeforeDown
      /\ BeyondUp' = BeyondUp /\ BetweenUp' = BetweenUp /\ BeforeUp' = BeforeUp
  BY <1>1 DEF BetweenDown, BeforeDown, BeyondUp, BetweenUp, BeforeUp, MidDown, MidUp, AnswerSize
<1>3. DownLevel' = DownLevel /\ UpLevel' = UpLevel
  BY <1>1 DEF DownLevel, UpLevel, GatewayCut, NearCut, Gateway!Stopped, Forward!Stopped
<1>4. StreamUp'
  BY <1>1, <1>2, <1>3, Zenon DEF StreamUp
<1> DEFINE c == SubSeq(last.down, 1, 1)
           t == SubSeq(last.down, 1 + 1, Len(last.down))
<1>5. 1 \in 0 .. Len(last.down) /\ last.down \in Seq(Symbol) /\ got["down"] \in Seq(Symbol)
  BY <1>1, TypedSeqs
<1>6. c \in Seq(Symbol) /\ t \in Seq(Symbol) /\ c \o t = last.down
  BY <1>5, Cut
<1>7. last'.down = t /\ got'["down"] = got["down"] \o c
  BY <1>1
<1> HIDE DEF c, t
<1>8. (got["down"] \o c) \o t = got["down"] \o (c \o t)
  BY <1>5, <1>6, Handed
<1>9. BeyondDown' = BeyondDown
  BY <1>6, <1>7, <1>8 DEF BeyondDown
<1>10. StreamDown'
  BY <1>1, <1>2, <1>3, <1>9, Zenon DEF StreamDown
<1> QED BY <1>4, <1>10

-----------------------------------------------------------------------------
(* The tunnel implements two channels *)

LEMMA ModeStays ==
    ASSUME Typed, RInv, [Next]_vars, ~stray'
    PROVE  UNCHANGED mode
  BY NextIs, QuietDoes, WriteRequestKeeps, ReadAnswerKeeps, GatewayHeadKeeps, GatewayBodyKeeps,
     GatewayAnswerKeeps, ForwardRelaysKeeps, GatewayRelaysKeeps, NearSendsKeeps, NearGetsKeeps,
     TargetSendsKeeps, TargetGetsKeeps

LEMMA NextC == ASSUME Typed, RInv, CInv, [Next]_vars, ~stray' PROVE CInv'
<1>1. Careful'
  BY ModeStays DEF CInv, Careful
<1>2. Order /\ Careful /\ StreamDown /\ StreamUp
  BY DEF CInv
<1>3. Order'
  BY <1>2, NextIs, QuietOrder, WriteRequestOrder, ReadAnswerOrder, GatewayHeadOrder,
     GatewayBodyOrder, GatewayAnswerOrder, ForwardRelaysOrder, GatewayRelaysOrder,
     NearSendsOrder, NearGetsOrder, TargetOrder
<1>4. StreamDown' /\ StreamUp'
  BY <1>2, NextIs, QuietStreams, WriteRequestStreams, ReadAnswerStreams, GatewayReadsStreams,
     GatewayAnswerStreams, ForwardRelaysStreams, GatewayRelaysStreams,
     NearSendsStreams, NearGetsStreams, TargetSendsStreams, TargetGetsStreams
<1> QED BY <1>1, <1>3, <1>4 DEF CInv

(* What is over stays over.                                                *)
LEMMA BrokenStays ==
    ASSUME ShutGrows \/ SameShut
    PROVE  (\E link \in {asked, middle, last} : Forward!Broken(link))
             => (\E link \in {asked, middle, last} : Forward!Broken(link))'
  BY DEF ShutGrows, SameShut, Forward!Broken

LEMMA StagesStay ==
    ASSUME Typed, RInv, Order, [Next]_vars, ~stray'
    PROVE  /\ fstage = "dead" => fstage' = "dead"
           /\ gstage \in {"dead", "deaf"} => gstage' \in {"dead", "deaf"}
<1>1. CASE Quiet
  <2>1. CASE Idles
    BY <2>1 DEF Idles
  <2>2. CASE Connects
    BY <2>2 DEF Connects, RInv, Asked
  <2>3. CASE NearLeaves \/ GatewayTakes \/ GatewayLeaves
    BY <2>3 DEF NearLeaves, GatewayTakes, GatewayLeaves
  <2> QED BY <1>1, <2>1, <2>2, <2>3, QuietDoes
<1>2. ASSUME NEW n, WriteRequest(n) \/ ReadAnswer(n)
      PROVE  /\ fstage = "dead" => fstage' = "dead"
             /\ gstage \in {"dead", "deaf"} => gstage' \in {"dead", "deaf"}
  BY <1>2, WriteRequestKeeps, ReadAnswerKeeps
<1>3. ASSUME NEW n, GatewayHead \/ GatewayBody(n) \/ GatewayAnswer(n)
      PROVE  /\ fstage = "dead" => fstage' = "dead"
             /\ gstage \in {"dead", "deaf"} => gstage' \in {"dead", "deaf"}
  BY <1>3, GatewayHeadKeeps, GatewayBodyKeeps, GatewayAnswerKeeps
<1>4. CASE ForwardRelays \/ GatewayRelays
  BY <1>4, ForwardRelaysKeeps, GatewayRelaysKeeps
<1>5. CASE NearSends \/ NearGets \/ TargetSends \/ TargetGets
  BY <1>5, NearSendsKeeps, NearGetsKeeps, TargetSendsKeeps, TargetGetsKeeps
<1> QED BY <1>1, <1>2, <1>3, <1>4, <1>5, NextIs

LEMMA OverStays == ASSUME Typed, RInv, Order, [Next]_vars, ~stray' PROVE Over => Over'
<1>1. ShutGrows \/ SameShut
  BY NextIs, QuietKeeps, WriteRequestKeeps, ReadAnswerKeeps, GatewayHeadKeeps, GatewayBodyKeeps,
     GatewayAnswerKeeps, ForwardRelaysKeeps, GatewayRelaysKeeps, NearSendsKeeps, NearGetsKeeps,
     TargetSendsKeeps, TargetGetsKeeps
<1>2. ~stray
  BY DEF Typed
<1> QED BY <1>1, <1>2, BrokenStays, StagesStay DEF Over

(* What is given to an end is the next thing that was sent to it.          *)
LEMMA NextGiven ==
    ASSUME NEW s, NEW g \in Seq(Symbol), NEW l \in Seq(Symbol), NEW x \in Seq(Symbol),
           l # <<>>, s = (g \o l) \o x
    PROVE  Len(g) < Len(s) /\ g \o SubSeq(l, 1, 1) = Append(g, s[Len(g) + 1])
<1> DEFINE gl == g \o l
<1>1. gl \in Seq(Symbol) /\ Len(gl) = Len(g) + Len(l) /\ Len(l) >= 1 /\ Len(g) \in Nat
      /\ Len(l) \in Nat
  OBVIOUS
<1>2. gl[Len(g) + 1] = l[1]
  OBVIOUS
<1>3. SubSeq(l, 1, 1) = <<Head(l)>> /\ Head(l) \in Symbol /\ Head(l) = l[1]
  BY First
<1>4. s = gl \o x
  OBVIOUS
<1> HIDE DEF gl
<1>5. s[Len(g) + 1] = gl[Len(g) + 1] /\ Len(s) >= Len(g) + 1
  <2>1. Len(g) + 1 \in 1 .. Len(gl)
    BY <1>1
  <2>2. Len(s) = Len(gl) + Len(x) /\ Len(x) \in Nat
    BY <1>1, <1>4, Concatenated
  <2>3. s[Len(g) + 1] = gl[Len(g) + 1]
    BY <1>1, <1>4, <2>1, Concatenated
  <2> QED BY <1>1, <2>2, <2>3
<1>6. Append(g, Head(l)) = g \o <<Head(l)>>
  BY <1>3, Appended
<1>7. Len(g) < Len(s)
  BY <1>1, <1>5, Concatenated
<1> QED BY <1>2, <1>3, <1>5, <1>6, <1>7

LEMMA DownStep ==
    ASSUME Typed, RInv, CInv, [Next]_vars, ~stray'
    PROVE  [DownChannel!Next]_(DownChannel!vars)
<1>1. Over \in BOOLEAN /\ Over' \in BOOLEAN /\ (Over => Over')
  BY OverStays DEF Over, CInv
<1>2. ASSUME sent'["down"] = sent["down"], got'["down"] = got["down"]
      PROVE  [DownChannel!Next]_(DownChannel!vars)
  <2>1. CASE Over'
    <3>1. Over' = TRUE
      BY <1>1, <2>1
    <3>2. DownChannel!End
      BY <1>2, <3>1 DEF DownChannel!End, Over
    <3> QED BY <3>2 DEF DownChannel!Next
  <2>2. CASE ~Over'
    <3>1. Over' = Over
      BY <1>1, <2>2
    <3> QED BY <1>2, <3>1 DEF DownChannel!vars, Over
  <2> QED BY <2>1, <2>2
<1>3. CASE NearSends
  <2>1. /\ SameShut /\ UNCHANGED <<fstage, gstage, got>> /\ Len(sent["down"]) < MaxBytes
        /\ sent'["down"] = sent["down"] \o <<NextByte("down")>>
    BY <1>3, NearSendsKeeps
  <2>2. Over' = Over
    BY <2>1 DEF Over, SameShut, Forward!Broken, Typed
  <2>3. NextByte("down") \in AllPayload
    <3>1. Len(sent["down"]) \in Nat /\ MaxBytes \in Nat
      BY TypedSeqs, TunnelAssumption
    <3>2. Len(sent["down"]) \in 0 .. MaxBytes /\ "down" \in Dirs
      BY <2>1, <3>1, DirsAre
    <3> QED BY <3>2 DEF NextByte, AllPayload
  <2>4. sent'["down"] = Append(sent["down"], NextByte("down"))
    BY <2>1, TypedSeqs, PayloadTyped, Appended, DirsAre
  <2> DEFINE c == NextByte("down")
  <2> HIDE DEF c
  <2>5. c \in AllPayload /\ sent'["down"] = Append(sent["down"], c)
    BY <2>3, <2>4 DEF c
  <2>6. DownChannel!Send(c)
    BY <2>1, <2>2, <2>5 DEF DownChannel!Send, Over
  <2> QED BY <2>5, <2>6 DEF DownChannel!Next
<1>4. CASE TargetGets
  <2>1. /\ SameShut /\ UNCHANGED <<fstage, gstage, sent>> /\ last.down # <<>>
        /\ got'["down"] = got["down"] \o SubSeq(last.down, 1, 1)
    BY <1>4, TargetGetsKeeps
  <2>2. Over' = Over
    BY <2>1 DEF Over, SameShut, Forward!Broken, Typed
  <2>3. PICK x \in Seq(Symbol) : sent["down"] = (got["down"] \o last.down) \o x
    BY Zenon DEF CInv, StreamDown, Stream, BeyondDown
  <2>4. /\ Len(got["down"]) < Len(sent["down"])
        /\ got'["down"] = Append(got["down"], sent["down"][Len(got["down"]) + 1])
    BY <2>1, <2>3, TypedSeqs, NextGiven
  <2>5. DownChannel!Deliver
    BY <2>1, <2>2, <2>4 DEF DownChannel!Deliver, Over
  <2> QED BY <2>5 DEF DownChannel!Next
<1>5. CASE ~NearSends /\ ~TargetGets
  <2>1. sent'["down"] = sent["down"] /\ got'["down"] = got["down"]
    BY <1>5, NextIs, QuietKeeps, WriteRequestKeeps, ReadAnswerKeeps, GatewayHeadKeeps,
       GatewayBodyKeeps, GatewayAnswerKeeps, ForwardRelaysKeeps, GatewayRelaysKeeps,
       NearGetsKeeps, TargetSendsKeeps DEF SameData
  <2> QED BY <1>2, <2>1
<1> QED BY <1>3, <1>4, <1>5

LEMMA UpStep ==
    ASSUME Typed, RInv, CInv, [Next]_vars, ~stray'
    PROVE  [UpChannel!Next]_(UpChannel!vars)
<1>1. Over \in BOOLEAN /\ Over' \in BOOLEAN /\ (Over => Over')
  BY OverStays DEF Over, CInv
<1>2. ASSUME sent'["up"] = sent["up"], got'["up"] = got["up"]
      PROVE  [UpChannel!Next]_(UpChannel!vars)
  <2>1. CASE Over'
    <3>1. Over' = TRUE
      BY <1>1, <2>1
    <3>2. UpChannel!End
      BY <1>2, <3>1 DEF UpChannel!End, Over
    <3> QED BY <3>2 DEF UpChannel!Next
  <2>2. CASE ~Over'
    <3>1. Over' = Over
      BY <1>1, <2>2
    <3> QED BY <1>2, <3>1 DEF UpChannel!vars, Over
  <2> QED BY <2>1, <2>2
<1>3. CASE TargetSends
  <2>1. /\ SameShut /\ UNCHANGED <<fstage, gstage, got>> /\ Len(sent["up"]) < MaxBytes
        /\ sent'["up"] = sent["up"] \o <<NextByte("up")>>
    BY <1>3, TargetSendsKeeps
  <2>2. Over' = Over
    BY <2>1 DEF Over, SameShut, Forward!Broken, Typed
  <2>3. NextByte("up") \in AllPayload
    <3>1. Len(sent["up"]) \in Nat /\ MaxBytes \in Nat
      BY TypedSeqs, TunnelAssumption
    <3>2. Len(sent["up"]) \in 0 .. MaxBytes /\ "up" \in Dirs
      BY <2>1, <3>1, DirsAre
    <3> QED BY <3>2 DEF NextByte, AllPayload
  <2>4. sent'["up"] = Append(sent["up"], NextByte("up"))
    BY <2>1, TypedSeqs, PayloadTyped, Appended, DirsAre
  <2> DEFINE c == NextByte("up")
  <2> HIDE DEF c
  <2>5. c \in AllPayload /\ sent'["up"] = Append(sent["up"], c)
    BY <2>3, <2>4 DEF c
  <2>6. UpChannel!Send(c)
    BY <2>1, <2>2, <2>5 DEF UpChannel!Send, Over
  <2> QED BY <2>5, <2>6 DEF UpChannel!Next
<1>4. CASE NearGets
  <2> DEFINE l == IF mode = "forward" THEN asked.up ELSE middle.up
  <2>1. /\ SameShut /\ UNCHANGED <<fstage, gstage, sent>> /\ l # <<>>
        /\ got'["up"] = got["up"] \o SubSeq(l, 1, 1)
        /\ mode = "client" => fstage = "session"
    BY <1>4, NearGetsKeeps
  <2>2. Over' = Over
    BY <2>1 DEF Over, SameShut, Forward!Broken, Typed
  <2>3. l \in Seq(Symbol) /\ got["up"] \in Seq(Symbol)
    BY TypedSeqs
  <2>4. \E x \in Seq(Symbol) : sent["up"] = (got["up"] \o l) \o x
    <3>1. CASE mode = "forward"
      <4>1. l = asked.up
        BY <3>1
      <4> HIDE DEF l
      <4> QED BY <4>1, Zenon DEF CInv, StreamUp, Stream, BeyondUp
    <3>2. CASE mode # "forward"
      <4>1. fstage = "session" /\ asked.up = <<>> /\ fchain = NoChain /\ l = middle.up
        BY <2>1, <3>2 DEF Typed, CInv, Order, Stages
      <4>2. UpLevel >= 1
        BY <3>2, <4>1 DEF UpLevel, NearCut
      <4>3. BeyondUp = got["up"] /\ BetweenUp = l
        BY <2>3, <4>1, NoChainIs, Nothing DEF BeyondUp, BetweenUp, MidUp
      <4> HIDE DEF l
      <4> QED BY <4>2, <4>3, Zenon DEF CInv, StreamUp, Stream
    <3> QED BY <3>1, <3>2
  <2> HIDE DEF l
  <2>5. PICK x \in Seq(Symbol) : sent["up"] = (got["up"] \o l) \o x
    BY <2>4
  <2>6. /\ Len(got["up"]) < Len(sent["up"])
        /\ got'["up"] = Append(got["up"], sent["up"][Len(got["up"]) + 1])
    BY <2>1, <2>3, <2>5, NextGiven
  <2>7. UpChannel!Deliver
    BY <2>1, <2>2, <2>6 DEF UpChannel!Deliver, Over
  <2> QED BY <2>7 DEF UpChannel!Next
<1>5. CASE ~TargetSends /\ ~NearGets
  <2>1. sent'["up"] = sent["up"] /\ got'["up"] = got["up"]
    BY <1>5, NextIs, QuietKeeps, WriteRequestKeeps, ReadAnswerKeeps, GatewayHeadKeeps,
       GatewayBodyKeeps, GatewayAnswerKeeps, ForwardRelaysKeeps, GatewayRelaysKeeps,
       NearSendsKeeps, TargetGetsKeeps DEF SameData
  <2> QED BY <1>2, <2>1
<1> QED BY <1>3, <1>4, <1>5

(* A tunnel that goes astray is over.                                      *)
LEMMA StrayChannels ==
    ASSUME [Next]_vars, stray'
    PROVE  [DownChannel!Next]_(DownChannel!vars) /\ [UpChannel!Next]_(UpChannel!vars)
<1>1. UNCHANGED <<sent, got>> /\ Over' = TRUE
  BY StrayStays DEF Over
<1>2. DownChannel!End /\ UpChannel!End
  BY <1>1 DEF DownChannel!End, UpChannel!End, Over
<1> QED BY <1>2 DEF DownChannel!Next, UpChannel!Next

(* A tunnel carries bytes in order and without gap both ways, from the     *)
(* first byte after the handshakes on, whatever they read and write on the *)
(* same connections and however buffers cut the stream, behind a local     *)
(* forward port for any two ends, and otherwise for a client that waits    *)
(* for on_etcp_connect and a target that waits until it is spoken to       *)
(* (do_proxy() reads until the blank line and may take more, and so may    *)
(* do_recv_body()).  What went astray through a released port is over.     *)
THEOREM TunnelIsChannels ==
    ASSUME "client" \in Modes => "client" \in Patient
    PROVE  Spec => DownChannel!Safety /\ UpChannel!Safety
<1> DEFINE Inv == stray \/ (Typed /\ RInv /\ CInv)
<1>1. Init => Inv
  <2>1. Init => Careful
    BY TunnelAssumption DEF Init, Careful
  <2> QED BY <2>1, InitTyped, InitR, InitOrder, InitStreams DEF CInv
<1>2. Inv /\ [Next]_vars => Inv'
  <2> SUFFICES ASSUME Inv, [Next]_vars, ~stray' PROVE Typed' /\ RInv' /\ CInv'
    OBVIOUS
  <2>1. ~stray
    BY StrayStays
  <2> QED BY <2>1, NextR, NextC
<1>3. Init => DownChannel!Init /\ UpChannel!Init
  <2> SUFFICES ASSUME Init PROVE DownChannel!Init /\ UpChannel!Init
    OBVIOUS
  <2>1. sent["down"] = <<>> /\ got["down"] = <<>> /\ sent["up"] = <<>> /\ got["up"] = <<>>
    BY DirsAre DEF Init
  <2>2. Over \in BOOLEAN
    BY DEF Over
  <2> QED BY <2>1, <2>2 DEF DownChannel!Init, UpChannel!Init, Over
<1>4. Inv /\ [Next]_vars
        => [DownChannel!Next]_(DownChannel!vars) /\ [UpChannel!Next]_(UpChannel!vars)
  <2> SUFFICES ASSUME Inv, [Next]_vars
               PROVE  [DownChannel!Next]_(DownChannel!vars) /\ [UpChannel!Next]_(UpChannel!vars)
    OBVIOUS
  <2>1. CASE stray'
    BY <2>1, StrayChannels
  <2>2. CASE ~stray'
    <3>1. ~stray
      BY <2>2, StrayStays
    <3> QED BY <2>2, <3>1, DownStep, UpStep
  <2> QED BY <2>1, <2>2
<1> QED BY <1>1, <1>2, <1>3, <1>4, PTL DEF Spec, DownChannel!Safety, UpChannel!Safety

-----------------------------------------------------------------------------
(* A session by itself, with any two peers *)

CONSTANT PeerBytes  \* what the peers of a session may write

Session == INSTANCE Relay WITH
    Bytes <- PeerBytes, near <- asked, far <- middle, chain <- fchain, fed <- sent, taken <- got

SessionLinkType == [down : Seq(PeerBytes), up : Seq(PeerBytes), shut : SUBSET {"near", "far"}]
SessionChainType == [op : {"read", "write", "none"}, data : Seq(PeerBytes)]

SessionTypeOK ==
    /\ asked \in SessionLinkType /\ middle \in SessionLinkType
    /\ fchain \in [Session!Dirs -> SessionChainType]
    /\ sent \in [Session!Dirs -> Seq(PeerBytes)] /\ got \in [Session!Dirs -> Seq(PeerBytes)]

(* A buffer holds something only while it is written; both directions stop *)
(* together.                                                               *)
SessionChains ==
    /\ \A d \in Session!Dirs : fchain[d].op # "write" => fchain[d].data = <<>>
    /\ fchain["down"].op = "none" <=> fchain["up"].op = "none"

(* What was given is what was received, what is in the outgoing            *)
(* connection, and the rest.                                               *)
Whole(given, received, out, rest) == given = (received \o out) \o rest

Src(d) == Session!Source(d)[d]
Snk(d) == Session!Sink(d)[d]
SessionStream(d) ==
    \E rest \in Seq(PeerBytes) :
        /\ Whole(sent[d], got[d], Snk(d), rest)
        /\ ~Session!Stopped => rest = fchain[d].data \o Src(d)
SessionStreams == \A d \in Session!Dirs : SessionStream(d)

SessionIInv == SessionTypeOK /\ SessionChains /\ SessionStreams

-----------------------------------------------------------------------------
(* Sequences *)

(* A write moves bytes from the buffer to the outgoing connection.         *)
LEMMA MoveOut ==
    ASSUME NEW f, NEW t \in Seq(PeerBytes), NEW o \in Seq(PeerBytes),
           NEW u \in Seq(PeerBytes), NEW v \in Seq(PeerBytes), NEW r \in Seq(PeerBytes)
    PROVE  \A b : u \o v = b /\ Whole(f, t, o, b \o r) => Whole(f, t, o \o u, v \o r)
<1>1. (u \o v) \o r = u \o (v \o r)
  BY SMTT(30)
<1>2. v \o r \in Seq(PeerBytes) /\ t \o o \in Seq(PeerBytes)
  OBVIOUS
<1>3. \A p, q \in Seq(PeerBytes) : p \o (u \o q) = (p \o u) \o q
  BY SMTT(30)
<1>4. (t \o o) \o (u \o (v \o r)) = ((t \o o) \o u) \o (v \o r)
  BY <1>2, <1>3
<1>5. (t \o o) \o u = t \o (o \o u)
  OBVIOUS
<1> QED BY <1>1, <1>4, <1>5 DEF Whole

(* A peer receives the first byte of the outgoing connection.              *)
LEMMA MoveTaken ==
    ASSUME NEW f, NEW t \in Seq(PeerBytes), NEW o \in Seq(PeerBytes), NEW r, o # <<>>,
           Whole(f, t, o, r)
    PROVE  Whole(f, Append(t, Head(o)), SubSeq(o, 2, Len(o)), r)
<1>1. Head(o) \in PeerBytes /\ Head(o) = o[1]
  OBVIOUS
<1>2. 1 \in 1 .. Len(o) /\ Len(o) \in 1 .. Len(o)
  OBVIOUS
<1>3. PICK y \in Seq(PeerBytes) : y = SubSeq(o, 2, Len(o)) /\ <<Head(o)>> \o y = o
  <2>1. SubSeq(o, 1, Len(o)) = <<o[1]>> \o SubSeq(o, 1 + 1, Len(o))
    BY <1>2, SubSeqRecursiveFirst, Zenon
  <2>2. SubSeq(o, 1, Len(o)) = o
    BY SubSeqFull
  <2>3. SubSeq(o, 2, Len(o)) \in Seq(PeerBytes)
    OBVIOUS
  <2>4. <<Head(o)>> \o SubSeq(o, 2, Len(o)) = o
    BY <1>1, <2>1, <2>2
  <2> QED BY <2>3, <2>4, Zenon
<1>4. PICK h \in Seq(PeerBytes) : h = <<Head(o)>>
  <2>1. <<Head(o)>> \in Seq(PeerBytes)
    BY <1>1
  <2> QED BY <2>1, Zenon
<1>5. Append(t, Head(o)) = t \o h
  BY <1>1, <1>4, AppendIsConcat
<1>a. h \in Seq(PeerBytes) /\ y \in Seq(PeerBytes)
  BY <1>3, <1>4
<1>6. (t \o h) \o y = t \o (h \o y)
  BY <1>a
<1> QED BY <1>3, <1>4, <1>5, <1>6 DEF Whole

(* A peer gives a byte more.                                               *)
LEMMA MoveIn ==
    ASSUME NEW f, NEW t \in Seq(PeerBytes), NEW o \in Seq(PeerBytes), NEW r \in Seq(PeerBytes),
           NEW b \in PeerBytes,
           f \in Seq(PeerBytes), Whole(f, t, o, r)
    PROVE  Whole(Append(f, b), t, o, r \o <<b>>)
<1>1. Append(f, b) = f \o <<b>> /\ <<b>> \in Seq(PeerBytes)
  BY AppendIsConcat
<1>2. t \o o \in Seq(PeerBytes)
  BY ConcatProperties
<1>3. ((t \o o) \o r) \o <<b>> = (t \o o) \o (r \o <<b>>)
  BY <1>1, <1>2
<1> QED BY <1>1, <1>3 DEF Whole

-----------------------------------------------------------------------------
(* Connections *)

LEMMA SessionDropFields ==
    ASSUME NEW link \in SessionLinkType, NEW d \in Session!Dirs, NEW n \in 0 .. Len(link[d])
    PROVE  /\ Session!Drop(link, d, n) \in SessionLinkType
           /\ Session!Drop(link, d, n)[d] = SubSeq(link[d], n + 1, Len(link[d]))
           /\ \A e \in Session!Dirs \ {d} : Session!Drop(link, d, n)[e] = link[e]
<1>1. CASE d = "down"
  <2>1. SubSeq(link.down, n + 1, Len(link.down)) \in Seq(PeerBytes)
    BY <1>1, Cut DEF SessionLinkType
  <2> QED BY <1>1, <2>1 DEF SessionLinkType, Session!Drop, Session!Dirs
<1>2. CASE d = "up"
  <2>1. SubSeq(link.up, n + 1, Len(link.up)) \in Seq(PeerBytes)
    BY <1>2, Cut DEF SessionLinkType
  <2> QED BY <1>2, <2>1 DEF SessionLinkType, Session!Drop, Session!Dirs
<1> QED BY <1>1, <1>2 DEF Session!Dirs

LEMMA SessionPutFields ==
    ASSUME NEW link \in SessionLinkType, NEW d \in Session!Dirs, NEW data \in Seq(PeerBytes)
    PROVE  /\ Session!Put(link, d, data) \in SessionLinkType
           /\ Session!Put(link, d, data)[d] = link[d] \o data
           /\ \A e \in Session!Dirs \ {d} : Session!Put(link, d, data)[e] = link[e]
<1>1. CASE d = "down"
  <2>1. link.down \o data \in Seq(PeerBytes)
    BY DEF SessionLinkType
  <2> QED BY <1>1, <2>1 DEF SessionLinkType, Session!Put, Session!Dirs
<1>2. CASE d = "up"
  <2>1. link.up \o data \in Seq(PeerBytes)
    BY DEF SessionLinkType
  <2> QED BY <1>2, <2>1 DEF SessionLinkType, Session!Put, Session!Dirs
<1> QED BY <1>1, <1>2 DEF Session!Dirs

LEMMA SessionShutFields ==
    ASSUME NEW link \in SessionLinkType, NEW end \in {"near", "far"}
    PROVE  /\ Session!Shut(link, end) \in SessionLinkType
           /\ \A d \in Session!Dirs : Session!Shut(link, end)[d] = link[d]
  BY DEF SessionLinkType, Session!Shut, Session!Dirs

LEMMA LinkSeq ==
    ASSUME NEW link \in SessionLinkType, NEW d \in Session!Dirs
    PROVE  link[d] \in Seq(PeerBytes)
  BY DEF SessionLinkType, Session!Dirs

-----------------------------------------------------------------------------
(* What the actions do to the connections, whichever direction it is *)

(* The other direction is left alone.                                      *)
Others(d) == \A e \in Session!Dirs \ {d} : Src(e)' = Src(e) /\ Snk(e)' = Snk(e)

LEMMA TakeFromSource ==
    ASSUME asked \in SessionLinkType, middle \in SessionLinkType, NEW d \in Session!Dirs,
           NEW n \in 0 .. Len(Src(d)),
           IF d = "down" THEN asked' = Session!Drop(asked, d, n) /\ UNCHANGED middle
                         ELSE middle' = Session!Drop(middle, d, n) /\ UNCHANGED asked
    PROVE  /\ asked' \in SessionLinkType /\ middle' \in SessionLinkType
           /\ Src(d)' = SubSeq(Src(d), n + 1, Len(Src(d))) /\ Snk(d)' = Snk(d)
           /\ Others(d)
<1>1. CASE d = "down"
  <2>1. n \in 0 .. Len(asked[d])
    BY <1>1 DEF Src, Session!Source
  <2> QED BY <1>1, <2>1, SessionDropFields DEF Src, Snk, Session!Source, Session!Sink, Others,
                                               Session!Dirs
<1>2. CASE d = "up"
  <2>1. n \in 0 .. Len(middle[d])
    BY <1>2 DEF Src, Session!Source
  <2> QED BY <1>2, <2>1, SessionDropFields DEF Src, Snk, Session!Source, Session!Sink, Others,
                                               Session!Dirs
<1> QED BY <1>1, <1>2 DEF Session!Dirs

LEMMA TakeFromSink ==
    ASSUME asked \in SessionLinkType, middle \in SessionLinkType, NEW d \in Session!Dirs,
           NEW n \in 0 .. Len(Snk(d)),
           IF d = "down" THEN middle' = Session!Drop(middle, d, n) /\ UNCHANGED asked
                         ELSE asked' = Session!Drop(asked, d, n) /\ UNCHANGED middle
    PROVE  /\ asked' \in SessionLinkType /\ middle' \in SessionLinkType
           /\ Snk(d)' = SubSeq(Snk(d), n + 1, Len(Snk(d))) /\ Src(d)' = Src(d)
           /\ Others(d)
<1>1. CASE d = "down"
  <2>1. n \in 0 .. Len(middle[d])
    BY <1>1 DEF Snk, Session!Sink
  <2> QED BY <1>1, <2>1, SessionDropFields DEF Src, Snk, Session!Source, Session!Sink, Others,
                                               Session!Dirs
<1>2. CASE d = "up"
  <2>1. n \in 0 .. Len(asked[d])
    BY <1>2 DEF Snk, Session!Sink
  <2> QED BY <1>2, <2>1, SessionDropFields DEF Src, Snk, Session!Source, Session!Sink, Others,
                                               Session!Dirs
<1> QED BY <1>1, <1>2 DEF Session!Dirs

LEMMA AddToSource ==
    ASSUME asked \in SessionLinkType, middle \in SessionLinkType, NEW d \in Session!Dirs,
           NEW data \in Seq(PeerBytes),
           IF d = "down" THEN asked' = Session!Put(asked, d, data) /\ UNCHANGED middle
                         ELSE middle' = Session!Put(middle, d, data) /\ UNCHANGED asked
    PROVE  /\ asked' \in SessionLinkType /\ middle' \in SessionLinkType
           /\ Src(d)' = Src(d) \o data /\ Snk(d)' = Snk(d)
           /\ Others(d)
<1>1. CASE d = "down"
  <2>1. /\ Session!Put(asked, d, data) \in SessionLinkType
        /\ Session!Put(asked, d, data)[d] = asked[d] \o data
        /\ \A e \in Session!Dirs \ {d} : Session!Put(asked, d, data)[e] = asked[e]
    BY SessionPutFields
  <2> QED BY <1>1, <2>1 DEF Src, Snk, Session!Source, Session!Sink, Others, Session!Dirs
<1>2. CASE d = "up"
  <2>1. /\ Session!Put(middle, d, data) \in SessionLinkType
        /\ Session!Put(middle, d, data)[d] = middle[d] \o data
        /\ \A e \in Session!Dirs \ {d} : Session!Put(middle, d, data)[e] = middle[e]
    BY SessionPutFields
  <2> QED BY <1>2, <2>1 DEF Src, Snk, Session!Source, Session!Sink, Others, Session!Dirs
<1> QED BY <1>1, <1>2 DEF Session!Dirs

LEMMA AddToSink ==
    ASSUME asked \in SessionLinkType, middle \in SessionLinkType, NEW d \in Session!Dirs,
           NEW data \in Seq(PeerBytes),
           IF d = "down" THEN middle' = Session!Put(middle, d, data) /\ UNCHANGED asked
                         ELSE asked' = Session!Put(asked, d, data) /\ UNCHANGED middle
    PROVE  /\ asked' \in SessionLinkType /\ middle' \in SessionLinkType
           /\ Snk(d)' = Snk(d) \o data /\ Src(d)' = Src(d)
           /\ Others(d)
<1>1. CASE d = "down"
  <2>1. /\ Session!Put(middle, d, data) \in SessionLinkType
        /\ Session!Put(middle, d, data)[d] = middle[d] \o data
        /\ \A e \in Session!Dirs \ {d} : Session!Put(middle, d, data)[e] = middle[e]
    BY SessionPutFields
  <2> QED BY <1>1, <2>1 DEF Src, Snk, Session!Source, Session!Sink, Others, Session!Dirs
<1>2. CASE d = "up"
  <2>1. /\ Session!Put(asked, d, data) \in SessionLinkType
        /\ Session!Put(asked, d, data)[d] = asked[d] \o data
        /\ \A e \in Session!Dirs \ {d} : Session!Put(asked, d, data)[e] = asked[e]
    BY SessionPutFields
  <2> QED BY <1>2, <2>1 DEF Src, Snk, Session!Source, Session!Sink, Others, Session!Dirs
<1> QED BY <1>1, <1>2 DEF Session!Dirs

LEMMA SessionStreamTypes ==
    ASSUME SessionTypeOK, NEW d \in Session!Dirs
    PROVE  /\ Src(d) \in Seq(PeerBytes) /\ Snk(d) \in Seq(PeerBytes)
           /\ sent[d] \in Seq(PeerBytes) /\ got[d] \in Seq(PeerBytes)
           /\ fchain[d] \in SessionChainType /\ fchain[d].data \in Seq(PeerBytes)
  BY LinkSeq DEF SessionTypeOK, Src, Snk, Session!Source, Session!Sink, SessionChainType

(* A direction that a step leaves alone keeps its stream, also when the    *)
(* session stops.                                                          *)
LEMMA SessionStreamKept ==
    ASSUME NEW d \in Session!Dirs, SessionStream(d),
           Src(d)' = Src(d), Snk(d)' = Snk(d), sent'[d] = sent[d], got'[d] = got[d],
           Session!Stopped' \/ (~Session!Stopped /\ fchain'[d] = fchain[d])
    PROVE  SessionStream(d)'
  BY DEF SessionStream

(* The session is stopped in both directions or in none.                   *)
LEMMA StoppedIs ==
    ASSUME SessionChains, NEW d \in Session!Dirs
    PROVE  Session!Stopped <=> fchain[d].op = "none"
  BY DEF SessionChains, Session!Stopped, Session!Dirs

-----------------------------------------------------------------------------
(* The invariant *)

LEMMA InitSession == Session!Init => SessionIInv
<1> SUFFICES ASSUME Session!Init PROVE SessionIInv
  OBVIOUS
<1>1. SessionTypeOK
  BY DEF Session!Init, SessionTypeOK, Session!NewLink, Session!Link, SessionLinkType,
     Session!Started, Session!Reading, SessionChainType, Session!Dirs
<1>2. SessionChains
  BY DEF Session!Init, SessionChains, Session!Started, Session!Reading, Session!Dirs
<1>3. ASSUME NEW d \in Session!Dirs PROVE SessionStream(d)
  <2>1. Src(d) = <<>> /\ Snk(d) = <<>> /\ sent[d] = <<>> /\ got[d] = <<>> /\ fchain[d].data = <<>>
    BY DEF Session!Init, Src, Snk, Session!Source, Session!Sink, Session!NewLink, Session!Link,
       Session!Started, Session!Reading, Session!Dirs
  <2>2. <<>> \in Seq(PeerBytes) /\ <<>> \o <<>> = <<>>
    OBVIOUS
  <2> QED BY <2>1, <2>2 DEF SessionStream, Whole
<1> QED BY <1>1, <1>2, <1>3 DEF SessionIInv, SessionStreams

LEMMA ReadStep ==
    ASSUME SessionIInv, BufferSize \in Nat, NEW d \in Session!Dirs, NEW n \in 1 .. BufferSize,
           Session!ReadSome(d, n), UNCHANGED <<sent, got>>
    PROVE  SessionIInv'
<1>1. /\ fchain[d].op = "read" /\ n \in 0 .. Len(Src(d))
      /\ fchain' = [fchain EXCEPT ![d] = Session!Writing(SubSeq(Src(d), 1, n))]
      /\ Src(d) \in Seq(PeerBytes)
  <2>1. Src(d) \in Seq(PeerBytes) /\ Len(Src(d)) \in Nat
    BY SessionStreamTypes DEF SessionIInv
  <2> QED BY <2>1 DEF Session!ReadSome, Src
<1>2. /\ asked' \in SessionLinkType /\ middle' \in SessionLinkType
      /\ Src(d)' = SubSeq(Src(d), n + 1, Len(Src(d))) /\ Snk(d)' = Snk(d)
      /\ Others(d)
  BY <1>1, TakeFromSource DEF SessionIInv, SessionTypeOK, Session!ReadSome
<1>3. /\ SubSeq(Src(d), 1, n) \in Seq(PeerBytes)
      /\ SubSeq(Src(d), 1, n) \o SubSeq(Src(d), n + 1, Len(Src(d))) = Src(d)
  BY <1>1, Cut
<1>4. /\ fchain'[d] = Session!Writing(SubSeq(Src(d), 1, n))
      /\ \A e \in Session!Dirs \ {d} : fchain'[e] = fchain[e]
      /\ fchain' \in [Session!Dirs -> SessionChainType]
  BY <1>1, <1>3 DEF SessionIInv, SessionTypeOK, Session!Writing, SessionChainType
<1>5. SessionTypeOK'
  BY <1>2, <1>4 DEF SessionIInv, SessionTypeOK
<1>6. SessionChains'
  BY <1>1, <1>4 DEF SessionIInv, SessionChains, Session!Writing, Session!Dirs
<1>7. ASSUME NEW e \in Session!Dirs PROVE SessionStream(e)'
  <2>1. ~Session!Stopped
    BY <1>1, StoppedIs DEF SessionIInv
  <2>2. CASE e = d
    <3>1. PICK rest \in Seq(PeerBytes) :
            Whole(sent[d], got[d], Snk(d), rest) /\ rest = fchain[d].data \o Src(d)
      BY <2>1 DEF SessionIInv, SessionStreams, SessionStream
    <3>2. fchain[d].data = <<>> /\ <<>> \o Src(d) = Src(d)
      BY <1>1 DEF SessionIInv, SessionChains
    <3>3. rest = fchain'[d].data \o Src(d)'
      BY <3>1, <3>2, <1>2, <1>3, <1>4 DEF Session!Writing
    <3>4. Whole(sent'[d], got'[d], Snk(d)', rest)
      BY <3>1, <1>2
    <3> QED BY <2>2, <3>3, <3>4 DEF SessionStream
  <2>3. CASE e # d
    BY <2>1, <2>3, <1>2, <1>4, SessionStreamKept DEF SessionIInv, SessionStreams, Others
  <2> QED BY <2>2, <2>3
<1> QED BY <1>5, <1>6, <1>7 DEF SessionIInv, SessionStreams

LEMMA WriteStep ==
    ASSUME SessionIInv, NEW d \in Session!Dirs, NEW n, Session!WriteSome(d, n),
           UNCHANGED <<sent, got>>
    PROVE  SessionIInv'
<1> DEFINE data == fchain[d].data
           out == SubSeq(data, 1, n)
           later == SubSeq(data, n + 1, Len(data))
<1>1. /\ fchain[d].op = "write" /\ n \in 0 .. Len(data)
      /\ fchain' = [fchain EXCEPT ![d] = IF later = <<>> THEN Session!Reading ELSE Session!Writing(later)]
      /\ data \in Seq(PeerBytes) /\ Src(d) \in Seq(PeerBytes) /\ Snk(d) \in Seq(PeerBytes)
      /\ got[d] \in Seq(PeerBytes)
  <2>1. data \in Seq(PeerBytes) /\ Len(data) \in Nat
    BY SessionStreamTypes DEF SessionIInv
  <2> QED BY <2>1, SessionStreamTypes DEF Session!WriteSome, SessionIInv
<1>2. out \in Seq(PeerBytes) /\ later \in Seq(PeerBytes) /\ out \o later = data
  BY <1>1, Cut
<1> HIDE DEF later
<1>3. /\ asked' \in SessionLinkType /\ middle' \in SessionLinkType
      /\ Snk(d)' = Snk(d) \o out /\ Src(d)' = Src(d)
      /\ Others(d)
  BY <1>2, AddToSink DEF SessionIInv, SessionTypeOK, Session!WriteSome
<1> HIDE DEF out
<1>4. /\ fchain'[d].data = later /\ fchain'[d].op \in {"read", "write"}
      /\ fchain'[d].op # "write" => fchain'[d].data = <<>>
      /\ \A e \in Session!Dirs \ {d} : fchain'[e] = fchain[e]
      /\ fchain' \in [Session!Dirs -> SessionChainType]
  BY <1>1, <1>2 DEF SessionIInv, SessionTypeOK, Session!Writing, Session!Reading, SessionChainType
<1>5. SessionTypeOK'
  BY <1>3, <1>4 DEF SessionIInv, SessionTypeOK
<1>6. SessionChains'
  BY <1>1, <1>4 DEF SessionIInv, SessionChains, Session!Dirs
<1>7. ASSUME NEW e \in Session!Dirs PROVE SessionStream(e)'
  <2>1. ~Session!Stopped
    BY <1>1, StoppedIs DEF SessionIInv
  <2>2. CASE e = d
    <3>1. Whole(sent[d], got[d], Snk(d), data \o Src(d))
      BY <2>1 DEF SessionIInv, SessionStreams, SessionStream
    <3>2. Whole(sent[d], got[d], Snk(d) \o out, later \o Src(d))
      BY <3>1, <1>1, <1>2, MoveOut
    <3>3. later \o Src(d) \in Seq(PeerBytes)
      BY <1>1, <1>2
    <3> QED BY <2>2, <3>2, <3>3, <1>3, <1>4 DEF SessionStream
  <2>3. CASE e # d
    BY <2>1, <2>3, <1>3, <1>4, SessionStreamKept DEF SessionIInv, SessionStreams, Others
  <2> QED BY <2>2, <2>3
<1> QED BY <1>5, <1>6, <1>7 DEF SessionIInv, SessionStreams

LEMMA StopStep ==
    ASSUME SessionIInv, Session!Stop, UNCHANGED <<sent, got>>
    PROVE  SessionIInv'
<1>1. /\ asked' \in SessionLinkType /\ middle' \in SessionLinkType
      /\ \A d \in Session!Dirs : asked'[d] = asked[d] /\ middle'[d] = middle[d]
  BY SessionShutFields DEF Session!Stop, SessionIInv, SessionTypeOK
<1>2. \A d \in Session!Dirs : Src(d)' = Src(d) /\ Snk(d)' = Snk(d)
  BY <1>1 DEF Src, Snk, Session!Source, Session!Sink
<1>3. \A d \in Session!Dirs : fchain'[d].op = "none" /\ fchain'[d].data = <<>>
  BY DEF Session!Stop, Session!Idle
<1>4. SessionTypeOK'
  <2>1. fchain' \in [Session!Dirs -> SessionChainType]
    BY DEF Session!Stop, Session!Idle, SessionChainType
  <2> QED BY <1>1, <2>1 DEF SessionIInv, SessionTypeOK
<1>5. SessionChains'
  BY <1>3 DEF SessionChains, Session!Dirs
<1>6. Session!Stopped'
  BY <1>3 DEF Session!Stopped, Session!Dirs
<1>7. SessionStreams'
  BY <1>2, <1>6, SessionStreamKept DEF SessionIInv, SessionStreams
<1> QED BY <1>4, <1>5, <1>7 DEF SessionIInv

LEMMA FeedStep ==
    ASSUME SessionIInv, NEW d \in Session!Dirs, NEW b \in PeerBytes, Session!Feed(d, b)
    PROVE  SessionIInv'
<1>1. /\ <<b>> \in Seq(PeerBytes) /\ UNCHANGED <<fchain, got>>
      /\ sent' = [sent EXCEPT ![d] = Append(@, b)]
  BY DEF Session!Feed
<1>2. /\ asked' \in SessionLinkType /\ middle' \in SessionLinkType
      /\ Src(d)' = Src(d) \o <<b>> /\ Snk(d)' = Snk(d)
      /\ Others(d)
  BY <1>1, AddToSource DEF SessionIInv, SessionTypeOK, Session!Feed
<1>3. /\ sent'[d] = Append(sent[d], b) /\ sent' \in [Session!Dirs -> Seq(PeerBytes)]
      /\ \A e \in Session!Dirs \ {d} : sent'[e] = sent[e]
  BY <1>1 DEF SessionIInv, SessionTypeOK
<1>4. SessionTypeOK'
  BY <1>1, <1>2, <1>3 DEF SessionIInv, SessionTypeOK
<1>5. SessionChains' /\ (Session!Stopped' <=> Session!Stopped)
  BY <1>1 DEF SessionIInv, SessionChains, Session!Stopped
<1>6. ASSUME NEW e \in Session!Dirs PROVE SessionStream(e)'
  <2>1. CASE e = d
    <3>1. PICK rest \in Seq(PeerBytes) :
            /\ Whole(sent[d], got[d], Snk(d), rest)
            /\ ~Session!Stopped => rest = fchain[d].data \o Src(d)
      BY DEF SessionIInv, SessionStreams, SessionStream
    <3>2. /\ sent[d] \in Seq(PeerBytes) /\ got[d] \in Seq(PeerBytes) /\ Snk(d) \in Seq(PeerBytes)
          /\ Src(d) \in Seq(PeerBytes) /\ fchain[d].data \in Seq(PeerBytes)
      BY SessionStreamTypes DEF SessionIInv
    <3>3. Whole(Append(sent[d], b), got[d], Snk(d), rest \o <<b>>)
      BY <3>1, <3>2, MoveIn
    <3>4. rest \o <<b>> \in Seq(PeerBytes)
      BY <1>1
    <3>5. ASSUME ~Session!Stopped PROVE rest \o <<b>> = fchain'[d].data \o Src(d)'
      <4>1. \A p, q, r \in Seq(PeerBytes) : (p \o q) \o r = p \o (q \o r)
        OBVIOUS
      <4>2. \A r \in Seq(PeerBytes) : (fchain[d].data \o Src(d)) \o r = fchain[d].data \o (Src(d) \o r)
        BY <3>2, <4>1
      <4> QED BY <3>1, <3>5, <4>2, <1>1, <1>2
    <3> QED BY <2>1, <3>3, <3>4, <3>5, <1>1, <1>2, <1>3, <1>5 DEF SessionStream
  <2>2. CASE e # d
    <3>1. /\ Src(e)' = Src(e) /\ Snk(e)' = Snk(e) /\ sent'[e] = sent[e]
          /\ got' = got /\ fchain' = fchain
      BY <2>2, <1>1, <1>2, <1>3 DEF Others
    <3> QED BY <3>1, <1>5 DEF SessionIInv, SessionStreams, SessionStream
  <2> QED BY <2>1, <2>2
<1> QED BY <1>4, <1>5, <1>6 DEF SessionIInv, SessionStreams

LEMMA TakeStep ==
    ASSUME SessionIInv, NEW d \in Session!Dirs, Session!Take(d)
    PROVE  SessionIInv'
<1>1. /\ Snk(d) \in Seq(PeerBytes) /\ Snk(d) # <<>> /\ 1 \in 0 .. Len(Snk(d))
      /\ Head(Snk(d)) \in PeerBytes
      /\ UNCHANGED <<fchain, sent>>
      /\ got' = [got EXCEPT ![d] = Append(@, Head(Snk(d)))]
  <2>1. Snk(d) \in Seq(PeerBytes) /\ Snk(d) # <<>>
    BY SessionStreamTypes DEF SessionIInv, Session!Take, Snk
  <2> QED BY <2>1 DEF Session!Take, Snk
<1>2. /\ asked' \in SessionLinkType /\ middle' \in SessionLinkType
      /\ Snk(d)' = SubSeq(Snk(d), 2, Len(Snk(d))) /\ Src(d)' = Src(d)
      /\ Others(d)
  BY <1>1, TakeFromSink DEF SessionIInv, SessionTypeOK, Session!Take
<1>3. /\ got'[d] = Append(got[d], Head(Snk(d))) /\ got' \in [Session!Dirs -> Seq(PeerBytes)]
      /\ \A e \in Session!Dirs \ {d} : got'[e] = got[e]
  BY <1>1 DEF SessionIInv, SessionTypeOK
<1>4. SessionTypeOK'
  BY <1>1, <1>2, <1>3 DEF SessionIInv, SessionTypeOK
<1>5. SessionChains' /\ (Session!Stopped' <=> Session!Stopped)
  BY <1>1 DEF SessionIInv, SessionChains, Session!Stopped
<1>6. ASSUME NEW e \in Session!Dirs PROVE SessionStream(e)'
  <2>1. CASE e = d
    <3>1. PICK rest \in Seq(PeerBytes) :
            /\ Whole(sent[d], got[d], Snk(d), rest)
            /\ ~Session!Stopped => rest = fchain[d].data \o Src(d)
      BY DEF SessionIInv, SessionStreams, SessionStream
    <3>2. got[d] \in Seq(PeerBytes)
      BY SessionStreamTypes DEF SessionIInv
    <3>3. Whole(sent[d], Append(got[d], Head(Snk(d))), SubSeq(Snk(d), 2, Len(Snk(d))), rest)
      BY <3>1, <3>2, <1>1, MoveTaken
    <3> QED BY <2>1, <3>1, <3>3, <1>1, <1>2, <1>3, <1>5 DEF SessionStream
  <2>2. CASE e # d
    <3>1. /\ Src(e)' = Src(e) /\ Snk(e)' = Snk(e) /\ got'[e] = got[e]
          /\ sent' = sent /\ fchain' = fchain
      BY <2>2, <1>1, <1>2, <1>3 DEF Others
    <3> QED BY <3>1, <1>5 DEF SessionIInv, SessionStreams, SessionStream
  <2> QED BY <2>1, <2>2
<1> QED BY <1>4, <1>5, <1>6 DEF SessionIInv, SessionStreams

(* A peer leaves, or nothing happens.                                      *)
LEMMA QuietStep ==
    ASSUME SessionIInv, Session!Leave \/ UNCHANGED Session!vars
    PROVE  SessionIInv'
<1>1. /\ asked' \in SessionLinkType /\ middle' \in SessionLinkType
      /\ UNCHANGED <<fchain, sent, got>>
      /\ \A d \in Session!Dirs : asked'[d] = asked[d] /\ middle'[d] = middle[d]
  <2>1. CASE Session!Leave
    BY <2>1, SessionShutFields DEF Session!Leave, SessionIInv, SessionTypeOK
  <2>2. CASE UNCHANGED Session!vars
    BY <2>2 DEF Session!vars, SessionIInv, SessionTypeOK
  <2> QED BY <2>1, <2>2
<1>2. \A d \in Session!Dirs : Src(d)' = Src(d) /\ Snk(d)' = Snk(d)
  BY <1>1 DEF Src, Snk, Session!Source, Session!Sink
<1>3. Session!Stopped' <=> Session!Stopped
  BY <1>1 DEF Session!Stopped
<1> QED BY <1>1, <1>2, <1>3 DEF SessionIInv, SessionTypeOK, SessionChains, SessionStreams,
                                SessionStream

LEMMA NextSession ==
    ASSUME BufferSize \in Nat, SessionIInv, [Session!Next]_(Session!vars)
    PROVE  SessionIInv'
<1>1. CASE Session!Step /\ UNCHANGED <<sent, got>>
  BY <1>1, ReadStep, WriteStep, StopStep DEF Session!Step
<1>2. ASSUME NEW d \in Session!Dirs, Session!Take(d) PROVE SessionIInv'
  BY <1>2, TakeStep
<1>3. ASSUME NEW d \in Session!Dirs, NEW b \in PeerBytes, Session!Feed(d, b) PROVE SessionIInv'
  BY <1>3, FeedStep
<1>4. CASE Session!Leave \/ UNCHANGED Session!vars
  BY <1>4, QuietStep
<1> QED BY <1>1, <1>2, <1>3, <1>4 DEF Session!Next

LEMMA PrefixOfWhole ==
    ASSUME NEW f \in Seq(PeerBytes), NEW p \in Seq(PeerBytes), NEW rest \in Seq(PeerBytes),
           f = p \o rest
    PROVE  \E n \in 0 .. Len(f) : SubSeq(f, 1, n) = p
<1>1. Len(p) \in 0 .. Len(f)
  OBVIOUS
<1>2. SubSeq(f, 1, Len(p)) = p
  OBVIOUS
<1> QED BY <1>1, <1>2

LEMMA SessionCarried == SessionIInv => Session!Carried
<1> SUFFICES ASSUME SessionIInv, NEW d \in Session!Dirs
             PROVE  IF Session!Stopped
                    THEN \E n \in 0 .. Len(sent[d]) : SubSeq(sent[d], 1, n) = got[d] \o Snk(d)
                    ELSE sent[d] = ((got[d] \o Snk(d)) \o fchain[d].data) \o Src(d)
  BY DEF Session!Carried, Snk, Src
<1>1. PICK rest \in Seq(PeerBytes) :
        /\ Whole(sent[d], got[d], Snk(d), rest)
        /\ ~Session!Stopped => rest = fchain[d].data \o Src(d)
  BY DEF SessionIInv, SessionStreams, SessionStream
<1>2. /\ sent[d] \in Seq(PeerBytes) /\ got[d] \in Seq(PeerBytes) /\ Snk(d) \in Seq(PeerBytes)
      /\ Src(d) \in Seq(PeerBytes) /\ fchain[d].data \in Seq(PeerBytes)
  BY SessionStreamTypes DEF SessionIInv
<1>3. got[d] \o Snk(d) \in Seq(PeerBytes)
  BY <1>2
<1>4. CASE Session!Stopped
  BY <1>1, <1>2, <1>3, <1>4, PrefixOfWhole DEF Whole
<1>5. CASE ~Session!Stopped
  <2>1. \A p, q, r \in Seq(PeerBytes) : p \o (q \o r) = (p \o q) \o r
    OBVIOUS
  <2>2. (got[d] \o Snk(d)) \o (fchain[d].data \o Src(d))
          = ((got[d] \o Snk(d)) \o fchain[d].data) \o Src(d)
    BY <1>2, <1>3, <2>1, SMTT(30), ZenonT(30)
  <2> QED BY <1>1, <1>5, <2>2 DEF Whole
<1> QED BY <1>4, <1>5

(* A relay session loses, doubles and reorders nothing while it runs and   *)
(* has sent on a prefix of what it was given when it has stopped, whatever *)
(* the sizes of its buffers and of the connections, however reads and      *)
(* writes cut the stream and whenever a peer leaves.                       *)
THEOREM RelayCarries ==
    ASSUME BufferSize \in Nat
    PROVE  Session!Spec => []Session!Carried
<1>1. Session!Init => SessionIInv
  BY InitSession
<1>2. SessionIInv /\ [Session!Next]_(Session!vars) => SessionIInv'
  BY NextSession
<1>3. SessionIInv => Session!Carried
  BY SessionCarried
<1> QED BY <1>1, <1>2, <1>3, PTL DEF Session!Spec
=============================================================================
