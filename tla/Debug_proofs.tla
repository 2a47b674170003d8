---------------------------- MODULE Debug_proofs ----------------------------
(***************************************************************************)
(* Theorems about DebugSession, for every size of a page and of the buffer *)
(* of the server and all that the client reads: the types of the two        *)
(* threads, the protocol of a session without interrupt, and how much waits *)
(* in the connection with interrupts.                                       *)
(***************************************************************************)
EXTENDS DebugSession, FiniteSetTheorems, FunctionTheorems, SequenceTheorems,
        WellFoundedInduction, TLAPS

Commanded == Commands \cup {"mem", "detach", "step", "continue"}
Space == NumPages * PageSize
Requests == {m \in [t : {"packet"}, cmd : Commanded \cup {"kill"}, addr : Nat, len : Nat,
                    cut : BOOLEAN] : m.addr + m.len <= Space}
InMsgs == [t : {"ack", "intr"}] \cup Requests
OutMsgs == [t : {"ack", "ok", "stop", "exit"}] \cup [t : {"mem"}, addr : Nat, data : Seq(Nat)]

SimPlaces == {"top", "run", "report", "send", "ended"}
SrvPlaces == {"listen", "check", "signal", "commands", "handle", "ok", "mem", "gone"}
Sims == [pc : SimPlaces, copied : Modes, res : {"ok", "break", "exit"}]
Srvs == [pc : SrvPlaces, cmd : Commanded \cup {"kill", "none"}, addr : Nat, left : Nat,
         from : Nat, data : Seq(Nat)]
Clients == [st : {"stopped", "asking", "waiting", "detached", "exited", "gone", "confused"},
            cmd : Commanded \cup {"kill", "none"}, intr : BOOLEAN, asked : BOOLEAN]

Types ==
  /\ mode \in Modes /\ sim \in Sims
  /\ srv \in Srvs /\ srv.addr + srv.left <= Space
  /\ bp \in BOOLEAN /\ here \in BOOLEAN /\ (here => bp) /\ ran \in 0..2
  /\ epoch \in Epochs /\ moved \in Epochs
  /\ woken \in BOOLEAN /\ (~woken => moved = epoch)
  /\ dtlb \in [Pages -> Nat]
  /\ open \in BOOLEAN /\ closed \in BOOLEAN
  /\ in \in Seq(InMsgs) /\ out \in Seq(OutMsgs)
  /\ client \in Clients
-----------------------------------------------------------------------------
(* Numbers: a frame, the least of two or three, pages and offsets           *)

LEMMA Sizes ==
  /\ PageSize \in Nat \ {0}
  /\ BufferSize \in Nat \ {0} /\ NumPages \in Nat \ {0}
  /\ Space \in Nat
BY GdbAssumption DEF Space

LEMMA FrameType ==
  ASSUME NEW e \in Epochs, NEW p \in Pages
  PROVE  Translate(e, p) \in Nat \cup {Fails}
<1>1. DataMap[e][p] \in Nat \cup {Fails} /\ InsnMap[e][p] \in Nat \cup {Fails} /\ ElfMap[p] \in Nat
  BY GdbAssumption
<1> QED  BY <1>1 DEF Translate

LEMMA LeastOfTwo ==
  ASSUME NEW a \in Nat, NEW b \in Nat
  PROVE  Min({a, b}) = IF a <= b THEN a ELSE b
BY DEF Min

LEMMA LeastOfThree ==
  ASSUME NEW a \in Nat, NEW b \in Nat, NEW c \in Nat
  PROVE  Min({a, b, c}) = IF a <= b /\ a <= c THEN a ELSE IF b <= c THEN b ELSE c
<1> DEFINE m == IF a <= b /\ a <= c THEN a ELSE IF b <= c THEN b ELSE c
<1>1. m \in {a, b, c} /\ (\A y \in {a, b, c} : m <= y)  OBVIOUS
<1>2. \A x, y \in {a, b, c} : x <= y /\ y <= x => x = y  OBVIOUS
<1> HIDE DEF m
<1>3. Min({a, b, c}) = m  BY <1>1, <1>2 DEF Min
<1> QED  BY <1>3 DEF m

LEMMA Split ==
  ASSUME NEW addr \in Nat
  PROVE  /\ addr \div PageSize \in Nat /\ addr % PageSize \in 0..(PageSize - 1)
         /\ addr = PageSize * (addr \div PageSize) + (addr % PageSize)
BY Sizes

LEMMA PageInRange ==
  ASSUME NEW addr \in Nat, addr < Space
  PROVE  addr \div PageSize \in Pages
<1> DEFINE q == addr \div PageSize
<1>1. q \in Nat /\ PageSize * q <= addr  BY Split, Sizes
<1>2. CASE q >= NumPages
  <2> HIDE DEF q
  <2>1. PageSize * q >= PageSize * NumPages  BY <1>1, <1>2, Sizes
  <2> QED  BY <2>1, <1>1, Sizes DEF Space
<1> QED  BY <1>1, <1>2, Sizes DEF Pages

LEMMA SamePage ==
  ASSUME NEW addr \in Nat, NEW i \in Nat, (addr % PageSize) + i < PageSize
  PROVE  /\ (addr + i) \div PageSize = addr \div PageSize
         /\ (addr + i) % PageSize = (addr % PageSize) + i
<1> DEFINE q == addr \div PageSize
           r == addr % PageSize
           s == (addr + i) \div PageSize
           u == (addr + i) % PageSize
<1>0. addr + i \in Nat  OBVIOUS
<1>1. q \in Nat /\ r \in 0..(PageSize - 1) /\ addr = PageSize * q + r  BY Split
<1>2. s \in Nat /\ u \in 0..(PageSize - 1) /\ addr + i = PageSize * s + u  BY <1>0, Split
<1>3. PageSize \in Nat \ {0}  BY Sizes
<1>5. r + i < PageSize  OBVIOUS
<1> HIDE DEF q, r, s, u
<1>4. PageSize * s + u = PageSize * q + (r + i)  BY <1>1, <1>2, <1>3
<1>6. CASE s > q
  <2>1. PageSize * s >= PageSize * (q + 1)  BY <1>6, <1>1, <1>2, <1>3
  <2>2. PageSize * (q + 1) = PageSize * q + PageSize  BY <1>1, <1>3
  <2> QED  BY <2>1, <2>2, <1>1, <1>2, <1>3, <1>4, <1>5
<1>7. CASE s < q
  <2>1. PageSize * q >= PageSize * (s + 1)  BY <1>7, <1>1, <1>2, <1>3
  <2>2. PageSize * (s + 1) = PageSize * s + PageSize  BY <1>2, <1>3
  <2> QED  BY <2>1, <2>2, <1>1, <1>2, <1>3, <1>4
<1>8. s = q /\ u = r + i  BY <1>6, <1>7, <1>1, <1>2, <1>3, <1>4
<1> QED  BY <1>8 DEF q, r, s, u
-----------------------------------------------------------------------------
(* The first packet of the connection                                       *)

LEMMA FirstPacketFound ==
  ASSUME in \in Seq(InMsgs), FirstPacket # 0
  PROVE  FirstPacket \in 1..Len(in) /\ in[FirstPacket].t = "packet"
<1> DEFINE I == {i \in 1..Len(in) : in[i].t = "packet"}
           Below == OpToRel(<, Nat)
<1>1. FirstPacket = IF I # {} THEN Min(I) ELSE 0
  BY DEF FirstPacket, SelectInSeq
<1>2. I # {} /\ FirstPacket = Min(I)  BY <1>1
<1>3. I \in SUBSET Nat  OBVIOUS
<1>4. IsWellFoundedOn(Below, Nat)  BY NatLessThanWellFounded
<1>5. \A x, m \in Nat : x < m => <<x, m>> \in Below  BY DEF OpToRel
<1> HIDE DEF Below
<1>6. PICK m \in I : \A x \in I : ~ (<<x, m>> \in Below)
  BY <1>2, <1>3, <1>4, WFMin
<1>7. \A x \in I : ~ (x < m)  BY <1>3, <1>5, <1>6
<1>9. \A x \in I : m <= x  BY <1>3, <1>7
<1>8. Min(I) \in I  BY <1>9 DEF Min
<1> QED  BY <1>2, <1>8

LEMMA NoPacket ==
  ASSUME in \in {<<>>, <<Ack>>}
  PROVE  FirstPacket = 0
<1>1. {i \in 1..Len(in) : in[i].t = "packet"} = {}  BY DEF Ack
<1> QED  BY <1>1 DEF FirstPacket, SelectInSeq

LEMMA OnePacket ==
  ASSUME NEW p \in Requests, in \in {<<p>>, <<Ack, p>>}
  PROVE  FirstPacket = Len(in) /\ in[FirstPacket] = p
<1> DEFINE I == {i \in 1..Len(in) : in[i].t = "packet"}
<1>1. FirstPacket = IF I # {} THEN Min(I) ELSE 0
  BY DEF FirstPacket, SelectInSeq
<1>2. p.t = "packet" /\ Ack.t # "packet"  BY DEF Ack, Requests
<1>3. in[Len(in)] = p /\ Len(in) \in {1, 2} /\ (Len(in) = 2 => in[1] = Ack)
  OBVIOUS
<1>4. Len(in) \in 1..Len(in)  BY <1>3
<1>5. ASSUME NEW i \in 1..Len(in), i # Len(in)
      PROVE  in[i].t # "packet"
  BY <1>2, <1>3, <1>5
<1>6. I = {Len(in)}  BY <1>2, <1>3, <1>4, <1>5
<1>7. Min({Len(in)}) = Len(in)  BY <1>3 DEF Min
<1> QED  BY <1>1, <1>3, <1>6, <1>7
-----------------------------------------------------------------------------
(* Types                                                                    *)

LEMMA SentType ==
  ASSUME Types, NEW m \in OutMsgs, Sent(m)
  PROVE  out' \in Seq(OutMsgs)
BY AppendProperties DEF Types, Sent

LEMMA PutType ==
  ASSUME Types, NEW m \in InMsgs, Put(m)
  PROVE  in' \in Seq(InMsgs)
BY AppendProperties DEF Types, Put

LEMMA Messages ==
  /\ Ack \in OutMsgs /\ Ack \in InMsgs /\ Intr \in InMsgs
  /\ Msg("ok") \in OutMsgs /\ Msg("stop") \in OutMsgs /\ Msg("exit") \in OutMsgs
  /\ \A c \in Commanded \cup {"kill"} : Packet(c, 0, 0) \in Requests
  /\ \A r \in Reads : Packet("mem", r[1], r[2]) \in Requests
  /\ Requests \subseteq InMsgs
<1>1. \A c \in Commanded \cup {"kill"} : Packet(c, 0, 0) \in Requests
  BY Sizes DEF Packet, Requests
<1>2. ASSUME NEW r \in Reads
      PROVE  Packet("mem", r[1], r[2]) \in Requests
  <2>1. r[1] \in Nat /\ r[2] \in Nat /\ r[1] + r[2] <= Space
    BY ReadsAssumption DEF Space
  <2> QED  BY <2>1 DEF Packet, Requests, Commanded
<1> QED  BY <1>1, <1>2 DEF Ack, Intr, Msg, OutMsgs, InMsgs

LEMMA InitTypes ==
  ASSUME Init
  PROVE  Types
<1>2. sim \in Sims /\ mode \in Modes
  BY DEF Init, GdbInit, Sims, SimPlaces, Modes
<1>3. srv \in Srvs /\ srv.addr + srv.left <= Space
  BY Sizes DEF Init, GdbInit, Srvs, SrvPlaces
<1>4. client \in Clients
  BY DEF Init, ClientInit, Clients
<1>5. dtlb \in [Pages -> Nat]
  BY DEF Init, GdbInit
<1>6. in \in Seq(InMsgs) /\ out \in Seq(OutMsgs)
  BY DEF Init, GdbInit
<1>7. epoch \in Epochs /\ moved = epoch /\ ran \in 0..2
  BY DEF Init, GdbInit, MmusOff
<1>8. bp \in BOOLEAN /\ open \in BOOLEAN /\ closed \in BOOLEAN /\ woken \in BOOLEAN /\ here = FALSE
  BY DEF Init, GdbInit
<1> QED
  BY <1>2, <1>3, <1>4, <1>5, <1>6, <1>7, <1>8 DEF Types

LEMMA SpotsOf ==
  ASSUME bp \in BOOLEAN, NEW x \in Spots
  PROVE  x \in BOOLEAN /\ (x => bp)
BY Zenon DEF Spots

\* an interrupt taken while halted: what the core was when it last executed stays
LEMMA InterruptTaken ==
  ASSUME Types, TakesInterrupt, UNCHANGED bp
  PROVE  /\ epoch' \in Epochs /\ moved' = epoch /\ moved = epoch /\ woken' /\ woken' \in BOOLEAN
         /\ here' \in BOOLEAN /\ (here' => bp') /\ ran' = ran
<1>1. epoch' \in Epochs /\ moved' = moved /\ ran' = ran  BY DEF TakesInterrupt, MmusOff
<1>2. ~woken /\ woken' /\ woken' \in BOOLEAN /\ here' \in Spots  BY Zenon DEF TakesInterrupt
<1>3. moved = epoch  BY <1>2 DEF Types
<1>4. here' \in BOOLEAN /\ (here' => bp)  BY <1>2, SpotsOf DEF Types
<1>5. bp' = bp  OBVIOUS
<1>6. here' => bp'  BY <1>4, <1>5
<1> QED  BY <1>1, <1>2, <1>3, <1>4, <1>6

LEMMA Advanced ==
  ASSUME Types, NEW r, Advances(r), UNCHANGED bp
  PROVE  /\ epoch' \in Epochs /\ moved' = epoch' /\ woken' \in BOOLEAN
         /\ here' \in BOOLEAN /\ (here' => bp')
         /\ ran' = (IF 2 <= ran + 1 THEN 2 ELSE ran + 1) /\ ran' \in 1..2
<1>1. epoch' \in Epochs /\ moved' = epoch' /\ woken' = FALSE  BY DEF Advances
<1>2. here' \in Spots  BY DEF Advances
<1>3. here' \in BOOLEAN /\ (here' => bp)  BY <1>2, SpotsOf DEF Types
<1>4. bp' = bp  OBVIOUS
<1>5. here' => bp'  BY <1>3, <1>4
<1>6. ran \in 0..2 /\ ran' = Min({2, ran + 1})  BY DEF Types, Advances
<1>7. ran' = (IF 2 <= ran + 1 THEN 2 ELSE ran + 1)  BY <1>6, LeastOfTwo
<1>8. ran' \in 1..2  BY <1>6, <1>7
<1> QED  BY <1>1, <1>3, <1>5, <1>7, <1>8

LEMMA SimTypes ==
  ASSUME Types, Sim, UNCHANGED client
  PROVE  Types'
<1>1. CASE SimCopy
  BY <1>1 DEF SimCopy, Types, Sims, SimPlaces
<1>2. CASE SimRun
  <2>1. sim' \in Sims
    BY <1>2 DEF SimRun, Types, Sims, SimPlaces
  <2>2. UNCHANGED <<mode, srv, bp, dtlb, open, closed, in, out>>  BY <1>2 DEF SimRun
  <2>3. \/ TakesInterrupt
        \/ UNCHANGED <<epoch, moved, woken, here, ran>>
        \/ \E r \in {"ok", "break", "exit"} : Advances(r)
    BY <1>2 DEF SimRun, StaysHere
  <2>4. CASE TakesInterrupt
    <3>1. /\ epoch' \in Epochs /\ moved' = epoch /\ woken' /\ woken' \in BOOLEAN
          /\ here' \in BOOLEAN /\ (here' => bp') /\ ran' = ran
      BY <2>2, <2>4, InterruptTaken
    <3> QED  BY <2>1, <2>2, <3>1 DEF Types
  <2>5. CASE UNCHANGED <<epoch, moved, woken, here, ran>>
    BY <2>1, <2>2, <2>5 DEF Types
  <2>6. CASE \E r \in {"ok", "break", "exit"} : Advances(r)
    <3>1. /\ epoch' \in Epochs /\ moved' = epoch' /\ woken' \in BOOLEAN
          /\ here' \in BOOLEAN /\ (here' => bp') /\ ran' \in 0..2
      BY <2>2, <2>6, Advanced
    <3> QED  BY <2>1, <2>2, <3>1 DEF Types
  <2> QED  BY <2>3, <2>4, <2>5, <2>6
<1>3. CASE SimReport
  BY <1>3 DEF SimReport, Types, Sims, SimPlaces, Modes
<1>4. CASE SimSend
  <2>1. out' \in Seq(OutMsgs)
    BY <1>4, SentType, Messages DEF SimSend
  <2> QED  BY <1>4, <2>1 DEF SimSend, Types, Sims, SimPlaces
<1> QED  BY <1>1, <1>2, <1>3, <1>4 DEF Sim

LEMMA ReadsOne ==
  ASSUME Types, in # <<>>
  PROVE  /\ Head(in) \in InMsgs /\ Tail(in) \in Seq(InMsgs)
         /\ Head(in).t = "packet" =>
              <<[Head(in) EXCEPT !.cut = TRUE]>> \o Tail(in) \in Seq(InMsgs)
<1>1. Head(in) \in InMsgs /\ Tail(in) \in Seq(InMsgs)
  BY HeadTailProperties DEF Types
<1>2. ASSUME Head(in).t = "packet"
      PROVE  <<[Head(in) EXCEPT !.cut = TRUE]>> \o Tail(in) \in Seq(InMsgs)
  <2>1. Head(in) \in Requests  BY <1>1, <1>2 DEF InMsgs
  <2>2. [Head(in) EXCEPT !.cut = TRUE] \in Requests  BY <2>1 DEF Requests
  <2>3. <<[Head(in) EXCEPT !.cut = TRUE]>> \in Seq(InMsgs)
    BY <2>2, Messages
  <2> QED  BY <1>1, <2>3, ConcatProperties
<1> QED  BY <1>1, <1>2

\* what recv() leaves, and what it takes out
LEMMA Received ==
  ASSUME Types, FirstPacket # 0
  PROVE  /\ in[FirstPacket] \in Requests
         /\ SubSeq(in, FirstPacket + 1, Len(in)) \in Seq(InMsgs)
<1>1. FirstPacket \in 1..Len(in) /\ in[FirstPacket].t = "packet"
  BY FirstPacketFound DEF Types
<1>2. \A i \in 1..Len(in) : in[i] \in InMsgs
  BY ElementOfSeq DEF Types
<1>3. Len(in) \in Nat  BY LenProperties DEF Types
<1>4. SubSeq(in, FirstPacket + 1, Len(in)) \in Seq(InMsgs)
  BY <1>1, <1>2, <1>3, SubSeqProperties
<1> QED  BY <1>1, <1>2, <1>4 DEF InMsgs

\* a turn of the loop stays in the page, in the buffer and in the request
page  == srv.addr \div PageSize
off   == srv.addr % PageSize
num   == Min({srv.left, BufferSize, PageSize - off})
bytes == [i \in 1..num |-> ((FrameOf(page) * PageSize) + off + i) - 1]

LEMMA PageOf ==
  ASSUME Types, srv.left > 0
  PROVE  page \in Pages /\ FrameOf(page) \in Nat \cup {Fails}
<1>1. srv.addr \in Nat /\ srv.left \in Nat /\ srv.addr + srv.left <= Space
  BY DEF Types, Srvs
<1>2. page \in Pages  BY <1>1, PageInRange, Sizes DEF page
<1>3. dtlb[page] \in Nat /\ Translate(epoch, page) \in Nat \cup {Fails}
  BY <1>2, FrameType DEF Types
<1> QED  BY <1>2, <1>3 DEF FrameOf

LEMMA Chunk ==
  ASSUME Types, srv.left > 0, FrameOf(page) # Fails
  PROVE  /\ page \in Pages
         /\ num \in 1..srv.left /\ off + num <= PageSize
         /\ FrameOf(page) \in Nat
         /\ bytes \in Seq(Nat) /\ Len(bytes) = num
<1>1. srv.addr \in Nat /\ srv.left \in Nat /\ srv.addr + srv.left <= Space
  BY DEF Types, Srvs
<1>2. page \in Pages  BY PageOf
<1>3. off \in 0..(PageSize - 1)  BY <1>1, Split DEF off
<1>4. num \in 1..srv.left /\ off + num <= PageSize
  <2>1. PageSize - off \in Nat /\ PageSize - off > 0  BY <1>3, Sizes
  <2> QED  BY <2>1, <1>1, <1>3, LeastOfThree, Sizes DEF num
<1>5. FrameOf(page) \in Nat  BY PageOf
<1>6. \A i \in 1..num : ((FrameOf(page) * PageSize) + off + i) - 1 \in Nat
  <2>1. FrameOf(page) * PageSize \in Nat  BY <1>5, Sizes
  <2> QED  BY <2>1, <1>3, <1>4
<1> DEFINE s == bytes
<1>7. s \in [1..num -> Nat]  BY <1>6 DEF bytes
<1>8. num \in Nat  BY <1>1, <1>4
<1> HIDE DEF s
<1>9. s \in Seq(Nat)  BY <1>7, <1>8, SeqDef
<1>10. Len(s) = num
  <2>1. Len(s) \in Nat /\ DOMAIN s = 1..Len(s)  BY <1>9, LenProperties
  <2>2. DOMAIN s = 1..num  BY <1>7
  <2>3. \A m, n \in Nat : 1..m = 1..n => m = n
    <3>1. ASSUME NEW m \in Nat, NEW n \in Nat, 1..m = 1..n  PROVE m <= n
      BY <3>1
    <3> QED  BY <3>1
  <2> QED  BY <1>8, <2>1, <2>2, <2>3
<1> QED  BY <1>2, <1>4, <1>5, <1>9, <1>10 DEF s

LEMMA SrvTypes ==
  ASSUME Types, Srv, UNCHANGED client
  PROVE  Types'
<1> USE DEF Types, Srvs, SrvPlaces, At, Goes
<1>1. CASE Listen
  BY <1>1 DEF Listen
<1>2. CASE CheckSignals
  <2>1. srv' \in Srvs /\ srv'.addr + srv'.left <= Space  BY <1>2 DEF CheckSignals
  <2>2. mode' \in Modes /\ open' \in BOOLEAN  BY <1>2 DEF CheckSignals, Modes
  <2>3. in' \in Seq(InMsgs)  BY <1>2, ReadsOne DEF CheckSignals
  <2> QED  BY <1>2, <2>1, <2>2, <2>3 DEF CheckSignals
<1>3. CASE Signal
  <2>1. out' \in Seq(OutMsgs)  BY <1>3, SentType, Messages DEF Signal
  <2> QED  BY <1>3, <2>1 DEF Signal
<1>4. CASE LeaveCommands
  BY <1>4 DEF LeaveCommands
<1>5. CASE Recv
  <2>1. FirstPacket # 0  BY <1>5 DEF Recv
  <2>2. in' \in Seq(InMsgs)  BY <1>5, <2>1, Received DEF Recv
  <2>3. out' \in Seq(OutMsgs)  BY <1>5, SentType, Messages DEF Recv
  <2>4. srv' \in Srvs /\ srv'.addr + srv'.left <= Space
    <3> DEFINE p == in[FirstPacket]
    <3>1. p \in Requests  BY <2>1, Received
    <3>2. srv' = [srv EXCEPT !.pc = "handle", !.cmd = p.cmd, !.addr = p.addr,
                             !.from = p.addr, !.left = p.len, !.data = <<>>]
      BY <1>5 DEF Recv
    <3> HIDE DEF p
    <3>3. <<>> \in Seq(Nat)  OBVIOUS
    <3> QED  BY <3>1, <3>2, <3>3 DEF Requests
  <2> QED  BY <1>5, <2>2, <2>3, <2>4 DEF Recv
<1>6. CASE Lost
  BY <1>6 DEF Lost, Modes, Sims, SimPlaces
<1>7. CASE Resume \/ Detach
  <2>1. NoFrames \in [Pages -> Nat]  BY DEF NoFrames
  <2>2. CASE Resume
    <3>1. mode' \in Modes /\ ran' \in 0..2  BY <2>2 DEF Resume, Modes
    <3>2. srv' \in Srvs /\ srv'.addr + srv'.left <= Space  BY <2>2 DEF Resume
    <3> QED  BY <2>1, <2>2, <3>1, <3>2 DEF Resume
  <2>3. CASE Detach  BY <2>1, <2>3 DEF Detach, Modes
  <2> QED  BY <1>7, <2>2, <2>3
<1>8. CASE Kill
  BY <1>8 DEF Kill, Modes
<1>14. CASE StartMem
  BY <1>14 DEF StartMem
<1>11. CASE Points
  <2>1. here' \in BOOLEAN /\ bp' \in BOOLEAN /\ (here' => bp')  BY <1>11, Zenon DEF Points
  <2> QED  BY <1>11, <2>1 DEF Points
<1>12. CASE Simple
  <2>1. here' \in Spots /\ bp' = bp  BY <1>12 DEF Simple
  <2>2. here' \in BOOLEAN /\ (here' => bp)  BY <2>1, SpotsOf
  <2>3. here' => bp'  BY <2>1, <2>2, Zenon
  <2> QED  BY <1>12, <2>2, <2>3 DEF Simple
<1>13. CASE MemFail
  <2>1. /\ dtlb' = IF FrameOf(page) = Fails THEN dtlb ELSE [dtlb EXCEPT ![page] = FrameOf(page)]
        /\ srv' = [srv EXCEPT !.pc = "ok", !.left = 0] /\ srv.left > 0
        /\ UNCHANGED <<mode, sim, bp, epoch, moved, woken, here, ran, open, closed, in, out>>
    BY <1>13 DEF MemFail, page
  <2>2. dtlb' \in [Pages -> Nat]  BY <2>1, PageOf
  <2>3. srv' \in Srvs /\ srv'.addr = srv.addr /\ srv'.left = 0  BY <2>1
  <2>4. srv'.addr + srv'.left <= Space  BY <2>3, Sizes
  <2> QED  BY <2>1, <2>2, <2>3, <2>4
<1>9. CASE MemChunk
  <2>1. /\ dtlb' = [dtlb EXCEPT ![page] = FrameOf(page)]
        /\ srv' = [srv EXCEPT !.addr = @ + num, !.left = @ - num, !.data = @ \o bytes]
        /\ srv.left > 0 /\ FrameOf(page) # Fails
        /\ UNCHANGED <<mode, sim, bp, epoch, moved, woken, here, ran, open, closed, in, out>>
    BY <1>9 DEF MemChunk, page, off, num, bytes
  <2>2. /\ page \in Pages /\ num \in 1..srv.left /\ bytes \in Seq(Nat)
        /\ FrameOf(page) \in Nat
    BY <2>1, Chunk
  <2>3. srv.data \o bytes \in Seq(Nat)  BY <2>2, ConcatProperties
  <2>4. srv.addr + num \in Nat /\ srv.left - num \in Nat
    BY <2>1, <2>2
  <2>5. srv' \in Srvs  BY <2>1, <2>3, <2>4
  <2>6. srv'.addr = srv.addr + num /\ srv'.left = srv.left - num  BY <2>1
  <2>7. srv'.addr + srv'.left <= Space  BY <2>2, <2>6, Sizes
  <2> QED  BY <2>1, <2>2, <2>5, <2>7
<1>10. CASE Reply
  <2>1. MemReply(srv.from, srv.data) \in OutMsgs  BY DEF MemReply, OutMsgs
  <2>2. out' \in Seq(OutMsgs)  BY <1>10, <2>1, SentType, Messages DEF Reply
  <2>3. srv' \in Srvs /\ srv'.addr + srv'.left <= Space
    <3>1. <<>> \in Seq(Nat)  OBVIOUS
    <3>2. srv' \in Srvs /\ srv'.addr = 0 /\ srv'.left = srv.left
      BY <1>10, <3>1 DEF Reply
    <3> QED  BY <3>2, Sizes
  <2> QED  BY <1>10, <2>2, <2>3 DEF Reply
<1> QED
  BY <1>1, <1>2, <1>3, <1>4, <1>5, <1>6, <1>7, <1>8, <1>9, <1>10, <1>11, <1>12, <1>13,
     <1>14 DEF Srv

LEMMA ClientTypes ==
  ASSUME Types, Client
  PROVE  Types'
<1> USE DEF Types, Clients, Commanded
<1>1. CASE Ask
  <2>1. in' \in Seq(InMsgs)  BY <1>1, PutType, Messages DEF Ask, Commands
  <2> QED  BY <1>1, <2>1 DEF Ask, Commands
<1>2. CASE AskDetach
  <2>1. in' \in Seq(InMsgs)  BY <1>2, PutType, Messages DEF AskDetach
  <2> QED  BY <1>2, <2>1 DEF AskDetach
<1>3. CASE AskResume
  <2>1. in' \in Seq(InMsgs)  BY <1>3, PutType, Messages DEF AskResume
  <2> QED  BY <1>3, <2>1 DEF AskResume
<1>4. CASE AskKill
  <2>1. in' \in Seq(InMsgs)  BY <1>4, PutType, Messages DEF AskKill
  <2>2. out' \in Seq(OutMsgs)  BY <1>4 DEF AskKill
  <2> QED  BY <1>4, <2>1, <2>2 DEF AskKill
<1>5. CASE Interrupt
  <2>1. in' \in Seq(InMsgs)  BY <1>5, PutType, Messages DEF Interrupt
  <2> QED  BY <1>5, <2>1 DEF Interrupt
<1>6. CASE Close
  <2>1. out' \in Seq(OutMsgs)  BY <1>6 DEF Close
  <2> QED  BY <1>6, <2>1 DEF Close
<1>7. CASE Receive
  <2>1. in' \in Seq(InMsgs)  BY <1>7, PutType, Messages DEF Receive
  <2>2. out' \in Seq(OutMsgs)  BY <1>7, HeadTailProperties DEF Receive
  <2>3. client' \in Clients  BY <1>7 DEF Receive, After
  <2> QED  BY <1>7, <2>1, <2>2, <2>3 DEF Receive
<1> QED  BY <1>1, <1>2, <1>3, <1>4, <1>5, <1>6, <1>7 DEF Client
-----------------------------------------------------------------------------
(***************************************************************************)
(* A session without interrupt, phase by phase.  Calm: the core does not    *)
(* execute, whatever the simulation thread is at.  Rests: the server thread *)
(* is between two commands.  Fresh: what dtlb holds is what the core maps,  *)
(* or mapped before it took an interrupt while halted.                      *)
(***************************************************************************)

Plain == NoInterrupt /\ ~closed
Rests == srv.pc \in {"listen", "check", "commands"}
Calm == /\ mode = "halted"
        /\ sim.pc \in {"top", "run", "report"}
        /\ sim.pc # "top" => sim.copied = "halted"
        /\ sim.pc = "report" => sim.res = "ok"
Since == {moved, epoch}
Fresh == \A p \in Pages : dtlb[p] = 0 \/ \E e \in Since : dtlb[p] = Translate(e, p)
Still == Calm /\ Fresh

Resumes(c) == c \in {"step", "continue"}
NoAnswer == out \in {<<>>, <<Ack>>}
AnswerIs(m) == out \in {<<m>>, <<Ack, m>>}
ExactIn(S, from, data) ==
  \A k \in 1..Len(data) : \E e \in S : IsAt(e, from + k - 1, data[k])
Exact(from, data) == ExactIn(Since, from, data)
Progress == /\ ran >= 1 \/ (bp /\ (here \/ woken))
            /\ client.cmd = "step" => ran <= 1

Asked == /\ client.cmd \in Commanded
         /\ client.st = IF Resumes(client.cmd) THEN "waiting" ELSE "asking"
         /\ client.cmd = "detach" => ~bp

\* the client thinks that the core is stopped
Quiet == /\ client.st = "stopped" /\ client.cmd # "detach"
         /\ in \in {<<>>, <<Ack>>} /\ out = <<>>
         /\ Still /\ Rests /\ (srv.pc = "check" => in = <<Ack>>)

\* its command is on the way, behind the acknowledgement of the last reply
OnItsWay(p) == /\ p.cmd = client.cmd /\ ~p.cut
               /\ \/ in = <<p>> /\ srv.pc # "check"
                  \/ in = <<Ack, p>>
Sending == /\ Asked /\ out = <<>> /\ Still /\ Rests
           /\ \E p \in Requests : OnItsWay(p)

\* the server works on it
Reading == /\ srv.cmd = "mem" /\ srv.pc \in {"handle", "mem"}
           /\ srv.addr = srv.from + Len(srv.data)
           /\ Exact(srv.from, srv.data)
Handling == /\ Asked /\ in = <<>> /\ NoAnswer /\ Still
            /\ srv.cmd = client.cmd
            /\ \/ srv.pc = "handle" /\ srv.cmd # "mem"
               \/ srv.pc = "ok" /\ srv.cmd \in Commands \cup {"mem"}
               \/ Reading

\* it has answered
Truthful(m) == m = Msg("ok") \/ (m.t = "mem" /\ Exact(m.addr, m.data))
Answered == /\ client.st = "asking" /\ client.cmd \in Commands \cup {"mem"}
            /\ in = <<>> /\ Still /\ srv.pc = "commands"
            /\ \E m \in OutMsgs : AnswerIs(m) /\ Truthful(m)

\* the client lets go: the core runs, and may end at any point
Free == /\ client.cmd = "detach" /\ ~bp /\ mode = "running"
        /\ sim.pc \in {"run", "report"} => sim.copied \in {"halted", "running"}
        /\ sim.pc = "report" => sim.res \in {"ok", "exit"}
        /\ sim.pc = "send" => sim.res = "exit"
Over == sim.pc = "ended"
DetachDone == /\ client.st = "asking" /\ srv.pc = "ok" /\ in = <<>>
              /\ NoAnswer \/ (AnswerIs(Msg("exit")) /\ Over)
DetachTold == /\ client.st = "asking" /\ Rests /\ in = <<>>
              /\ \/ AnswerIs(Msg("ok"))
                 \/ /\ out \in {<<Msg("ok"), Msg("exit")>>, <<Ack, Msg("ok"), Msg("exit")>>}
                    /\ Over
Detached == /\ client.st = "detached" /\ Rests /\ in \in {<<>>, <<Ack>>}
            /\ out = <<>> \/ (out = <<Msg("exit")>> /\ Over)
LetGo == Free /\ (DetachDone \/ DetachTold \/ Detached)

\* the core runs for the client, which waits for the end of it
Resumed == /\ client.st = "waiting" /\ Resumes(client.cmd)
           /\ in = <<>> /\ dtlb = NoFrames /\ Rests
Moving == /\ Resumed /\ NoAnswer
          /\ mode = IF client.cmd = "step" THEN "stepping" ELSE "running"
          /\ sim.pc \in {"top", "run", "report"}
          /\ sim.pc # "top" => sim.copied \in {"halted", mode}
          /\ sim.pc = "report" /\ sim.copied = "halted" => sim.res = "ok"
          /\ sim.pc = "report" /\ sim.copied # "halted" => Progress
          /\ (client.cmd = "step" /\ (sim.pc = "report" => sim.copied = "halted")) => ran = 0
Stopping == /\ Resumed /\ NoAnswer /\ mode = "halted"
            /\ sim.pc = "send" /\ sim.res \in {"ok", "break"} /\ Progress
Exiting == /\ Resumed /\ NoAnswer /\ mode # "killed"
           /\ sim.pc = "send" /\ sim.res = "exit"
Told == Resumed /\ AnswerIs(Msg("stop")) /\ Calm /\ Progress
Ended == /\ Over
         /\ \/ client.st = "waiting" /\ AnswerIs(Msg("exit")) /\ in = <<>>
            \/ client.st = "exited" /\ out = <<>>

Phases == \/ Quiet \/ Sending \/ Handling \/ Answered \/ LetGo
          \/ Moving \/ Stopping \/ Exiting \/ Told \/ Ended

\* the inductive invariant: nothing is claimed of the order of things after an
\* interrupt, and of a client that has gone only that nobody sends to it
IInv == /\ Types
        /\ closed <=> client.st = "gone"
        /\ closed => out = <<>>
        /\ Plain => open /\ Phases
-----------------------------------------------------------------------------
(* What the threads and the client do in any phase                          *)

LEMMA AppendIs ==
  ASSUME NEW S, NEW s \in Seq(S), NEW e \in S, NEW t \in Seq(S), Len(t) = Len(s) + 1,
         \A i \in 1..Len(s) : t[i] = s[i], t[Len(t)] = e
  PROVE  Append(s, e) = t
<1>1. /\ Append(s, e) \in Seq(S) /\ Len(Append(s, e)) = Len(s) + 1 /\ Len(s) \in Nat
      /\ \A i \in 1..Len(s) : Append(s, e)[i] = s[i]
      /\ Append(s, e)[Len(s) + 1] = e
  BY AppendProperties, LenProperties
<1>2. \A i \in 1..Len(t) : Append(s, e)[i] = t[i]  BY <1>1
<1>3. Len(Append(s, e)) = Len(t)  BY <1>1
<1>4. \A i \in 1..Len(Append(s, e)) : Append(s, e)[i] = t[i]  BY <1>2, <1>3
<1> QED  BY <1>1, <1>3, <1>4, SeqEqual

LEMMA One ==
  ASSUME NEW a
  PROVE  /\ Append(<<>>, a) = <<a>> /\ Head(<<a>>) = a /\ Tail(<<a>>) = <<>> /\ <<a>> # <<>>
<1>1. <<>> \in Seq({a}) /\ <<a>> \in Seq({a}) /\ Len(<<a>>) = 1 /\ Len(<<>>) = 0  OBVIOUS
<1>2. Append(<<>>, a) = <<a>>  BY <1>1, AppendIs
<1>3. Tail(<<a>>) = <<>>  BY <1>1, <1>2, HeadTailAppend
<1> QED  BY <1>2, <1>3

LEMMA Two ==
  ASSUME NEW a, NEW b
  PROVE  /\ Append(<<a>>, b) = <<a, b>> /\ Head(<<a, b>>) = a /\ Tail(<<a, b>>) = <<b>>
         /\ <<a, b>> # <<>>
<1> DEFINE s == <<a>>
           t == <<a, b>>
<1>1. /\ s \in Seq({a, b}) /\ t \in Seq({a, b}) /\ s # <<>> /\ t # <<>>
      /\ Len(t) = Len(s) + 1 /\ (\A i \in 1..Len(s) : t[i] = s[i]) /\ t[Len(t)] = b
      /\ Head(t) = a
  OBVIOUS
<1>2. Tail(s) = <<>> /\ Append(<<>>, b) = <<b>>  BY One
<1> HIDE DEF s, t
<1>3. Append(s, b) = t  BY <1>1, AppendIs
<1>4. Tail(t) = <<b>>
  <2>1. Tail(Append(s, b)) = Append(Tail(s), b)  BY <1>1, HeadTailAppend
  <2> QED  BY <1>2, <1>3, <2>1
<1> QED  BY <1>1, <1>3, <1>4 DEF s, t

LEMMA Three ==
  ASSUME NEW a, NEW b, NEW c
  PROVE  /\ Append(<<a, b>>, c) = <<a, b, c>> /\ Head(<<a, b, c>>) = a
         /\ Tail(<<a, b, c>>) = <<b, c>> /\ <<a, b, c>> # <<>>
<1> DEFINE s == <<a, b>>
           t == <<a, b, c>>
<1>1. /\ s \in Seq({a, b, c}) /\ t \in Seq({a, b, c}) /\ s # <<>> /\ t # <<>>
      /\ Len(t) = Len(s) + 1 /\ (\A i \in 1..Len(s) : t[i] = s[i]) /\ t[Len(t)] = c
      /\ Head(t) = a
  OBVIOUS
<1>2. Tail(s) = <<b>> /\ Append(<<b>>, c) = <<b, c>>  BY Two
<1> HIDE DEF s, t
<1>3. Append(s, c) = t  BY <1>1, AppendIs
<1>4. Tail(t) = <<b, c>>
  <2>1. Tail(Append(s, c)) = Append(Tail(s), c)  BY <1>1, HeadTailAppend
  <2> QED  BY <1>2, <1>3, <2>1
<1> QED  BY <1>1, <1>3, <1>4 DEF s, t

\* the steps after which the session is still without interrupt
Moves == \/ Sim /\ UNCHANGED client
         \/ Srv /\ UNCHANGED client
         \/ Ask \/ AskDetach \/ AskResume \/ Receive

LEMMA PlainStep ==
  ASSUME Types, Next, Plain'
  PROVE  Plain /\ Moves
<1> USE DEF Plain, NoInterrupt
<1>1. ASSUME Sim, UNCHANGED client  PROVE Plain
  <2>1. closed' = closed  BY <1>1 DEF Sim, SimCopy, SimRun, SimReport, SimSend
  <2> QED  BY <1>1, <2>1, Zenon
<1>2. ASSUME Srv, UNCHANGED client  PROVE Plain
  <2>1. closed' = closed
    BY <1>2 DEF Srv, Listen, CheckSignals, Signal, LeaveCommands, Recv, Lost, Resume, Detach, Kill,
       Points, Simple, StartMem, MemChunk, MemFail, Reply
  <2> QED  BY <1>2, <2>1, Zenon
<1>3. CASE Ask \/ AskDetach \/ AskResume
  <2>1. closed' = closed /\ (client.intr => client'.intr)
    BY <1>3 DEF Ask, AskDetach, AskResume, Types, Clients
  <2> QED  BY <1>3, <2>1, Zenon DEF Moves
<1>4. CASE Receive
  <2>1. closed' = closed /\ (client.intr => client'.intr)
    BY <1>4 DEF Receive, Types, Clients
  <2> QED  BY <1>4, <2>1, Zenon DEF Moves
<1>5. CASE AskKill \/ Close
  BY <1>5 DEF AskKill, Close
<1>6. CASE Interrupt
  BY <1>6 DEF Interrupt, Types, Clients
<1> QED
  BY <1>1, <1>2, <1>3, <1>4, <1>5, <1>6 DEF Next, Client, Moves

LEMMA OpenStays ==
  ASSUME Types, Plain, open, Moves
  PROVE  open'
<1>1. ASSUME Sim  PROVE open'
  BY <1>1 DEF Sim, SimCopy, SimRun, SimReport, SimSend
<1>2. ASSUME Srv  PROVE open'
  BY <1>2 DEF Srv, Listen, CheckSignals, Signal, LeaveCommands, Recv, Lost, Resume, Detach, Kill,
     Points, Simple, StartMem, MemChunk, MemFail, Reply, Plain
<1> QED
  BY <1>1, <1>2 DEF Moves, Ask, AskDetach, AskResume, Receive

LEMMA ExactLater ==
  ASSUME NEW S, NEW T, S \subseteq T, NEW from, NEW data, ExactIn(S, from, data)
  PROVE  ExactIn(T, from, data)
BY DEF ExactIn

\* the simulation thread while the core is calm: an interrupt may be taken
LEMMA SimCalm ==
  ASSUME Types, Calm, Sim
  PROVE  /\ Calm'
         /\ Since \subseteq Since'
         /\ (here => here' \/ woken') /\ (woken => woken')
         /\ UNCHANGED <<srv, bp, ran, dtlb, open, closed, in, out>>
<1> USE DEF Calm, Types, Sims
<1>1. CASE SimCopy  BY <1>1 DEF SimCopy, Since
<1>2. CASE SimRun
  <2>1. /\ sim'.pc = "report" /\ sim'.copied = "halted" /\ sim'.res = "ok"
        /\ UNCHANGED <<mode, srv, bp, dtlb, open, closed, in, out>>
        /\ TakesInterrupt \/ UNCHANGED <<epoch, moved, woken, here, ran>>
    BY <1>2 DEF SimRun
  <2>2. CASE TakesInterrupt
    <3>1. moved' = epoch /\ moved = epoch /\ woken' /\ ran' = ran
      BY <2>1, <2>2, InterruptTaken
    <3>2. Since \subseteq Since'  BY <3>1 DEF Since
    <3>3. Calm'  BY <2>1
    <3> QED  BY <2>1, <3>1, <3>2, <3>3
  <2>3. CASE UNCHANGED <<epoch, moved, woken, here, ran>>
    BY <2>1, <2>3 DEF Since
  <2> QED  BY <2>1, <2>2, <2>3
<1>3. CASE SimReport  BY <1>3 DEF SimReport, StopsHere, Since
<1>4. CASE SimSend  BY <1>4 DEF SimSend
<1> QED  BY <1>1, <1>2, <1>3, <1>4 DEF Sim

\* the server thread between commands, with nothing to read but an acknowledgement
LEMMA SrvRests ==
  ASSUME Types, Rests, in \in {<<>>, <<Ack>>}, Plain, mode # "killed", Srv
  PROVE  /\ Rests' /\ srv' = [srv EXCEPT !.pc = srv'.pc]
         /\ in' \in {in, <<>>}
         /\ srv'.pc = "check" => mode = "running"
         /\ (srv.pc = "check" /\ in = <<Ack>>) => in' = <<>>
         /\ ~ (mode = "halted" /\ srv.pc = "commands")
         /\ Alive
         /\ UNCHANGED <<mode, sim, bp, epoch, moved, woken, here, ran, dtlb, open, closed, out>>
<1> USE DEF Rests, Types, Srvs, Plain, At, Goes
<1>1. FirstPacket = 0  BY NoPacket
<1>2. CASE Listen  BY <1>2 DEF Listen, Modes
<1>3. CASE CheckSignals
  <2>1. Head(<<Ack>>) = Ack /\ Tail(<<Ack>>) = <<>> /\ <<Ack>> # <<>>  BY One, Two, Three
  <2>2. Ack.t = "ack"  BY DEF Ack
  <2> QED  BY <1>3, <2>1, <2>2 DEF CheckSignals
<1>4. CASE LeaveCommands  BY <1>4 DEF LeaveCommands
<1>5. CASE Recv \/ Lost  BY <1>1, <1>5 DEF Recv, Lost
<1>6. CASE Signal \/ Resume \/ Detach \/ Kill \/ Points \/ Simple
           \/ StartMem \/ MemChunk \/ MemFail \/ Reply
  BY <1>6 DEF Signal, Resume, Detach, Kill, Points, Simple, StartMem, MemChunk, MemFail, Reply
<1> QED  BY <1>2, <1>3, <1>4, <1>5, <1>6 DEF Srv
-----------------------------------------------------------------------------
(* The client asks                                                          *)

LEMMA StillKept ==
  ASSUME Types, Still, Sim
  PROVE  /\ Still' /\ Since \subseteq Since'
         /\ UNCHANGED <<srv, bp, dtlb, open, closed, in, out>>
<1>1. /\ Calm' /\ Since \subseteq Since'
      /\ UNCHANGED <<srv, bp, dtlb, open, closed, in, out>>
  BY SimCalm DEF Still
<1>2. Fresh'
  <2> SUFFICES ASSUME NEW p \in Pages
               PROVE  dtlb'[p] = 0 \/ \E e \in Since' : dtlb'[p] = Translate(e, p)
    BY DEF Fresh
  <2>1. dtlb[p] = 0 \/ \E e \in Since : dtlb[p] = Translate(e, p)  BY DEF Still, Fresh
  <2> QED  BY <1>1, <2>1
<1> QED  BY <1>1, <1>2 DEF Still

LEMMA QuietAsks ==
  ASSUME Quiet, Asked', NEW p \in Requests, ~p.cut, p.cmd = client'.cmd, Put(p),
         UNCHANGED <<mode, sim, srv, bp, epoch, moved, woken, here, ran, dtlb, open, closed, out>>
  PROVE  Sending'
<1>1. Append(<<>>, p) = <<p>> /\ Append(<<Ack>>, p) = <<Ack, p>>  BY One, Two, Three
<1>2. in' = <<p>> \/ in' = <<Ack, p>>  BY <1>1 DEF Quiet, Put
<1>3. in' = <<p>> => srv.pc # "check"
  <2>1. CASE in = <<>>  BY <2>1, One, Two, Three DEF Quiet
  <2>2. CASE in = <<Ack>>
    <3>1. in' = <<Ack, p>>  BY <1>1, <2>2 DEF Put
    <3>2. Len(<<Ack, p>>) = 2 /\ Len(<<p>>) = 1  OBVIOUS
    <3> QED  BY <3>1, <3>2
  <2> QED  BY <2>1, <2>2 DEF Quiet
<1>4. OnItsWay(p)'  BY <1>2, <1>3 DEF OnItsWay
<1> QED  BY <1>4 DEF Quiet, Sending, Still, Calm, Fresh, Since, Rests

LEMMA QuietStep ==
  ASSUME Types, Plain, open, Quiet, Moves
  PROVE  Phases'
<1>1. CASE Sim /\ UNCHANGED client
  <2>1. Still' /\ Since \subseteq Since' /\ UNCHANGED <<srv, bp, dtlb, open, closed, in, out>>
    BY <1>1, StillKept DEF Quiet
  <2> QED  BY <1>1, <2>1 DEF Quiet, Phases, Rests
<1>2. CASE Srv /\ UNCHANGED client
  <2>1. mode = "halted"  BY DEF Quiet, Still, Calm
  <2>2. /\ Rests' /\ in' \in {in, <<>>} /\ (srv'.pc = "check" => mode = "running")
        /\ UNCHANGED <<mode, sim, bp, epoch, moved, woken, here, ran, dtlb, open, closed, out>>
    BY <1>2, <2>1, SrvRests DEF Quiet
  <2>3. Still'  BY <2>2 DEF Quiet, Still, Calm, Fresh, Since
  <2> QED  BY <1>2, <2>1, <2>2, <2>3 DEF Quiet, Phases
<1>3. CASE Ask
  <2>1. PICK p \in Requests :
          /\ p.cmd \in Commands \cup {"mem"} /\ ~p.cut /\ Put(p)
          /\ client' = [client EXCEPT !.st = "asking", !.cmd = p.cmd]
    <3>1. CASE \E c \in Commands : /\ Put(Packet(c, 0, 0))
                                   /\ client' = [client EXCEPT !.st = "asking", !.cmd = c]
      <4>1. PICK c \in Commands : /\ Put(Packet(c, 0, 0))
                                  /\ client' = [client EXCEPT !.st = "asking", !.cmd = c]
        BY <3>1
      <4>2. Packet(c, 0, 0) \in Requests  BY Messages DEF Commanded
      <4>3. Packet(c, 0, 0).cmd = c /\ ~ Packet(c, 0, 0).cut  BY DEF Packet
      <4> QED  BY <4>1, <4>2, <4>3
    <3>2. CASE \E r \in Reads : /\ Put(Packet("mem", r[1], r[2]))
                                /\ client' = [client EXCEPT !.st = "asking", !.cmd = "mem"]
      BY <3>2, Messages DEF Packet
    <3> QED  BY <1>3, <3>1, <3>2 DEF Ask
  <2>2. Asked' /\ client'.cmd = p.cmd
    BY <2>1 DEF Types, Clients, Asked, Commanded, Commands, Resumes
  <2> QED  BY <1>3, <2>1, <2>2, QuietAsks DEF Ask, Phases
<1>4. CASE AskDetach
  <2> DEFINE p == Packet("detach", 0, 0)
  <2>1. p \in Requests /\ p.cmd = "detach" /\ ~p.cut
    BY Messages DEF Packet, Commanded
  <2>2. Asked' /\ client'.cmd = "detach"
    BY <1>4 DEF AskDetach, Types, Clients, Asked, Commanded, Resumes
  <2>3. Put(p)  BY <1>4 DEF AskDetach
  <2> HIDE DEF p
  <2> QED  BY <1>4, <2>1, <2>2, <2>3, QuietAsks DEF AskDetach, Phases
<1>5. CASE AskResume
  <2>1. PICK c \in {"step", "continue"} :
          /\ Put(Packet(c, 0, 0))
          /\ client' = [client EXCEPT !.st = "waiting", !.cmd = c, !.asked = FALSE]
    BY <1>5 DEF AskResume
  <2> DEFINE p == Packet(c, 0, 0)
  <2>2. p \in Requests /\ p.cmd = c /\ ~p.cut
    BY Messages DEF Packet, Commanded
  <2>3. Asked' /\ client'.cmd = c
    BY <2>1 DEF Types, Clients, Asked, Commanded, Resumes
  <2>4. Put(p)  BY <2>1
  <2> HIDE DEF p
  <2> QED  BY <1>5, <2>2, <2>3, <2>4, QuietAsks DEF AskResume, Phases
<1>6. CASE Receive
  BY <1>6 DEF Receive, Quiet
<1> QED  BY <1>1, <1>2, <1>3, <1>4, <1>5, <1>6 DEF Moves

\* a client that waits for an answer asks nothing
LEMMA OnlyReceives ==
  ASSUME client.st # "stopped", Moves
  PROVE  (Sim /\ UNCHANGED client) \/ (Srv /\ UNCHANGED client) \/ Receive
BY DEF Moves, Ask, AskDetach, AskResume

LEMMA SendingStep ==
  ASSUME Types, Plain, open, Sending, Moves
  PROVE  Phases'
<1> USE DEF Resumes
<1>0. client.st # "stopped"  BY DEF Sending, Asked
<1>1. CASE Sim /\ UNCHANGED client
  <2>1. Still' /\ Since \subseteq Since' /\ UNCHANGED <<srv, bp, dtlb, open, closed, in, out>>
    BY <1>1, StillKept DEF Sending
  <2> QED  BY <1>1, <2>1 DEF Sending, Phases, Rests, Asked, OnItsWay
<1>2. CASE Srv /\ UNCHANGED client
  <2> USE DEF At, Goes, Types, Srvs
  <2>0. mode = "halted" /\ Alive /\ ~closed /\ Rests
    BY DEF Sending, Still, Calm, Alive, Plain
  <2>1. PICK p \in Requests : OnItsWay(p)  BY DEF Sending
  <2>2. in # <<>> /\ Head(in).t \in {"ack", "packet"}
        /\ (srv.pc = "check" => Head(in).t = "ack" /\ Tail(in) = <<p>>)
    <3>1. p.t = "packet" /\ Ack.t = "ack"  BY DEF Requests, Ack
    <3>2. CASE in = <<p>> /\ srv.pc # "check"  BY <3>1, <3>2, One, Two, Three
    <3>3. CASE in = <<Ack, p>>  BY <3>1, <3>3, One, Two, Three
    <3> QED  BY <2>1, <3>2, <3>3 DEF OnItsWay
  <2>3. CASE Listen
    <3>1. /\ srv'.pc = "commands" /\ UNCHANGED <<mode, sim, bp, epoch, moved, woken, here, ran,
                                                 dtlb, in, out>>
      BY <2>0, <2>3 DEF Listen
    <3>2. Still' /\ Asked' /\ Rests' /\ OnItsWay(p)'
      BY <1>2, <2>1, <3>1 DEF Sending, Still, Calm, Fresh, Since, Asked, Rests, OnItsWay
    <3> QED  BY <3>1, <3>2 DEF Sending, Phases
  <2>4. CASE CheckSignals
    <3>1. /\ srv'.pc = "listen" /\ in' = <<p>>
          /\ UNCHANGED <<mode, sim, bp, epoch, moved, woken, here, ran, dtlb, out>>
      BY <2>0, <2>2, <2>4 DEF CheckSignals
    <3>2. Still' /\ Asked' /\ Rests' /\ OnItsWay(p)'
      BY <1>2, <2>1, <3>1 DEF Sending, Still, Calm, Fresh, Since, Asked, Rests, OnItsWay
    <3> QED  BY <3>1, <3>2 DEF Sending, Phases
  <2>5. CASE Recv
    <3>1. FirstPacket = Len(in) /\ in[FirstPacket] = p
      BY <2>1, OnePacket DEF OnItsWay
    <3>2. in' = <<>>
      BY <2>5, <3>1, SubSeqEmpty, LenProperties DEF Recv
    <3>3. srv' = [srv EXCEPT !.pc = "handle", !.cmd = p.cmd, !.addr = p.addr,
                             !.from = p.addr, !.left = p.len, !.data = <<>>]
      BY <2>5, <3>1 DEF Recv
    <3>4. out' = <<Ack>>
      BY <2>0, <2>5, One, Two, Three DEF Recv, Sent, Sending
    <3>5. UNCHANGED <<mode, sim, bp, epoch, moved, woken, here, ran, dtlb>>  BY <2>5 DEF Recv
    <3>6. Still' /\ Asked'  BY <1>2, <3>5 DEF Sending, Still, Calm, Fresh, Since, Asked
    <3>7. srv'.cmd = client'.cmd /\ srv'.pc = "handle"
      BY <1>2, <2>1, <3>3 DEF OnItsWay
    <3>8. CASE p.cmd = "mem"
      <4>1. srv'.data = <<>> /\ srv'.from = p.addr /\ srv'.addr = p.addr /\ srv'.cmd = "mem"
        BY <3>3, <3>8
      <4>2. Len(<<>>) = 0 /\ p.addr \in Nat  BY DEF Requests
      <4>3. Reading'  BY <3>7, <4>1, <4>2 DEF Reading, Exact, ExactIn
      <4> QED  BY <3>2, <3>4, <3>6, <3>7, <4>3 DEF Handling, NoAnswer, Phases
    <3>9. CASE p.cmd # "mem"
      <4>1. srv'.cmd # "mem"  BY <3>3, <3>9
      <4> QED  BY <3>2, <3>4, <3>6, <3>7, <4>1 DEF Handling, NoAnswer, Phases
    <3> QED  BY <3>8, <3>9
  <2>6. CASE LeaveCommands \/ Lost
    BY <2>0, <2>6 DEF LeaveCommands, Lost
  <2>7. CASE Signal \/ Resume \/ Detach \/ Kill \/ Points \/ Simple
             \/ StartMem \/ MemChunk \/ MemFail \/ Reply
    BY <2>0, <2>7 DEF Rests, Signal, Resume, Detach, Kill, Points, Simple,
       StartMem, MemChunk, MemFail, Reply
  <2> QED  BY <1>2, <2>3, <2>4, <2>5, <2>6, <2>7 DEF Srv
<1>3. CASE Receive
  BY <1>3 DEF Receive, Sending
<1> QED  BY <1>0, <1>1, <1>2, <1>3, OnlyReceives
-----------------------------------------------------------------------------
(* The server works on a command                                            *)

\* one turn of the loop adds the bytes that the client means
LEMMA ReadingChunk ==
  ASSUME Types, Reading, Fresh, MemChunk
  PROVE  Reading' /\ Fresh'
<1> DEFINE data  == srv.data
           frame == FrameOf(page)
<1>1. /\ dtlb' = [dtlb EXCEPT ![page] = frame]
      /\ srv' = [srv EXCEPT !.addr = @ + num, !.left = @ - num, !.data = @ \o bytes]
      /\ srv.left > 0 /\ srv.pc = "mem" /\ Since' = Since /\ frame # Fails
  BY DEF MemChunk, At, page, off, num, bytes, Since
<1>2. /\ page \in Pages /\ num \in 1..srv.left /\ off + num <= PageSize
      /\ bytes \in Seq(Nat) /\ Len(bytes) = num /\ frame \in Nat
  BY <1>1, Chunk
<1>3. PICK e \in Since : frame = Translate(e, page)
  BY <1>2 DEF FrameOf, Fresh, Since
<1>4. /\ srv \in Srvs /\ data \in Seq(Nat) /\ srv.addr \in Nat /\ srv.from \in Nat
      /\ srv.left \in Nat /\ dtlb \in [Pages -> Nat]
  BY DEF Types, Srvs
<1>5. Fresh'
  <2> SUFFICES ASSUME NEW p \in Pages
               PROVE  dtlb'[p] = 0 \/ \E f \in Since : dtlb'[p] = Translate(f, p)
    BY <1>1 DEF Fresh
  <2> HIDE DEF frame
  <2>1. CASE p = page  BY <1>1, <1>2, <1>3, <1>4, <2>1
  <2>2. CASE p # page
    <3>1. dtlb'[p] = dtlb[p]  BY <1>1, <1>4, <2>2
    <3> QED  BY <3>1 DEF Fresh
  <2> QED  BY <2>1, <2>2
<1>6. ASSUME NEW i \in 1..num
      PROVE  IsAt(e, srv.addr + i - 1, bytes[i])
  <2>1. off \in 0..(PageSize - 1)  BY <1>4, Split DEF off
  <2>2. i - 1 \in Nat /\ i \in Nat /\ off + (i - 1) < PageSize /\ off \in Nat
    BY <1>2, <1>4, <2>1, Sizes
  <2>3. /\ (srv.addr + (i - 1)) \div PageSize = page
        /\ (srv.addr + (i - 1)) % PageSize = off + (i - 1)
    BY <1>4, <2>2, SamePage DEF page, off
  <2>4. srv.addr + i - 1 = srv.addr + (i - 1)  BY <1>4, <2>2
  <2>6. bytes[i] = ((frame * PageSize) + off + i) - 1
    BY DEF bytes
  <2> HIDE DEF frame
  <2>9. frame * PageSize \in Nat  BY <1>2, Sizes
  <2>5. bytes[i] = (frame * PageSize) + (off + (i - 1))
    BY <2>2, <2>6, <2>9
  <2> QED  BY <1>1, <1>3, <2>3, <2>4, <2>5 DEF IsAt
<1> HIDE DEF data, frame
<1>7. srv'.data = data \o bytes /\ srv'.addr = srv.addr + num /\ srv'.from = srv.from
      /\ srv'.cmd = srv.cmd /\ srv'.pc = srv.pc
  BY <1>1, <1>4 DEF Srvs, data
<1>8. Len(data) \in Nat /\ num \in Nat  BY <1>2, <1>4, LenProperties
<1>9. /\ Len(data \o bytes) = Len(data) + num
      /\ \A k \in 1..Len(data) + num :
           (data \o bytes)[k] = IF k <= Len(data) THEN data[k] ELSE bytes[k - Len(data)]
  BY <1>2, <1>4, ConcatProperties
<1>10. srv.addr = srv.from + Len(data) /\ Exact(srv.from, data)
  BY DEF Reading, data
<1>11. ASSUME NEW k \in 1..Len(data \o bytes)
       PROVE  \E f \in Since : IsAt(f, srv.from + k - 1, (data \o bytes)[k])
  <2>1. CASE k <= Len(data)
    <3>1. k \in 1..Len(data) /\ (data \o bytes)[k] = data[k]  BY <2>1, <1>8, <1>9
    <3> QED  BY <3>1, <1>10 DEF Exact, ExactIn
  <2>2. CASE k > Len(data)
    <3> DEFINE i == k - Len(data)
    <3>1. i \in 1..num  BY <2>2, <1>8, <1>9
    <3>2. srv.addr + i - 1 = srv.from + k - 1  BY <1>4, <1>8, <1>9, <1>10
    <3>3. (data \o bytes)[k] = bytes[i]  BY <2>2, <1>8, <1>9
    <3> HIDE DEF i
    <3> QED  BY <3>1, <3>2, <3>3, <1>6
  <2> QED  BY <2>1, <2>2, <1>8, <1>9
<1>12. Exact(srv.from, srv.data)'
  BY <1>1, <1>7, <1>11 DEF Exact, ExactIn
<1>13. srv'.addr = srv'.from + Len(srv'.data)
  BY <1>4, <1>7, <1>8, <1>9, <1>10
<1> QED  BY <1>5, <1>7, <1>12, <1>13 DEF Reading

\* the answer follows the acknowledgement of the command
LEMMA AnswerSent ==
  ASSUME NoAnswer, Plain, NEW m, Sent(m)
  PROVE  AnswerIs(m)'
<1>1. out' = Append(out, m)  BY DEF Sent, Plain
<1>2. CASE out = <<>>
  <2>1. out' = <<m>>  BY <1>1, <1>2, One
  <2> QED  BY <2>1 DEF AnswerIs
<1>3. CASE out = <<Ack>>
  <2>1. out' = <<Ack, m>>  BY <1>1, <1>3, Two
  <2> QED  BY <2>1 DEF AnswerIs
<1> QED  BY <1>2, <1>3 DEF NoAnswer

LEMMA AnswerRead ==
  ASSUME NEW m, AnswerIs(m), out' = Tail(out)
  PROVE  \/ out = <<m>> /\ out' = <<>> /\ Head(out) = m
         \/ out = <<Ack, m>> /\ out' = <<m>> /\ Head(out) = Ack
<1>1. CASE out = <<m>>  BY <1>1, One
<1>2. CASE out = <<Ack, m>>  BY <1>2, Two
<1> QED  BY <1>1, <1>2 DEF AnswerIs

LEMMA AckRead ==
  ASSUME NoAnswer, Receive
  PROVE  /\ out' = <<>>
         /\ UNCHANGED <<mode, sim, srv, bp, epoch, moved, woken, here, ran,
                        dtlb, open, closed, in, client>>
<1>1. out = <<Ack>> /\ out' = Tail(out)  BY DEF NoAnswer, Receive
<1>2. Head(out) = Ack /\ out' = <<>>  BY <1>1, One
<1> QED  BY <1>2 DEF Receive, Ack

LEMMA HandlingStep ==
  ASSUME Types, Plain, open, Handling, Moves
  PROVE  Phases'
<1> USE DEF Resumes
<1>0. client.st # "stopped"  BY DEF Handling, Asked
<1>1. CASE Sim /\ UNCHANGED client
  <2>1. Still' /\ Since \subseteq Since' /\ UNCHANGED <<srv, bp, dtlb, open, closed, in, out>>
    BY <1>1, StillKept DEF Handling
  <2>2. Reading => Reading'
    <3>1. ASSUME Reading  PROVE ExactIn(Since', srv.from, srv.data)
      BY <2>1, <3>1, ExactLater DEF Reading, Exact
    <3> QED  BY <2>1, <3>1 DEF Reading, Exact
  <2> QED  BY <1>1, <2>1, <2>2 DEF Handling, Phases, Asked, NoAnswer
<1>2. CASE Srv /\ UNCHANGED client
  <2> USE DEF At, Goes, Types, Srvs
  <2>0. /\ srv.pc \in {"handle", "ok", "mem"} /\ srv.cmd = client.cmd
        /\ client.cmd \in Commanded /\ in = <<>> /\ NoAnswer /\ Still /\ Asked
    BY DEF Handling, Asked, Reading
  <2>1. CASE Resume
    <3>1. /\ srv'.pc = "commands" /\ client.cmd \in {"step", "continue"} /\ ran' = 0
          /\ mode' = IF client.cmd = "step" THEN "stepping" ELSE "running"
          /\ dtlb' = NoFrames /\ UNCHANGED <<sim, in, out, client>>
      BY <1>2, <2>0, <2>1 DEF Resume
    <3>2. Resumed' /\ NoAnswer'  BY <2>0, <3>1 DEF Resumed, Asked, Rests, NoAnswer, NoFrames
    <3>3. Moving'  BY <2>0, <3>1, <3>2 DEF Moving, Still, Calm
    <3> QED  BY <3>3 DEF Phases
  <2>2. CASE Detach
    <3>1. /\ srv'.pc = "ok" /\ client.cmd = "detach" /\ mode' = "running"
          /\ UNCHANGED <<sim, bp, in, out, client>>
      BY <1>2, <2>0, <2>2 DEF Detach
    <3>2. Free'  BY <2>0, <3>1 DEF Free, Asked, Still, Calm
    <3>3. DetachDone'  BY <2>0, <3>1 DEF DetachDone, NoAnswer, Asked
    <3> QED  BY <3>2, <3>3 DEF LetGo, Phases
  <2>3. CASE Points \/ Simple
    <3>1. /\ srv'.pc = "ok" /\ srv'.cmd = srv.cmd /\ srv.cmd \in Commands
          /\ UNCHANGED <<mode, sim, epoch, moved, dtlb, in, out, client>>
      BY <1>2, <2>3 DEF Points, Simple, Commands
    <3>2. Asked' /\ NoAnswer' /\ Still'
      BY <2>0, <3>1 DEF Asked, NoAnswer, Still, Calm, Fresh, Since, Commands
    <3> QED  BY <2>0, <3>1, <3>2 DEF Handling, Phases
  <2>4. CASE StartMem
    <3>1. /\ srv' = [srv EXCEPT !.pc = "mem"] /\ srv.cmd = "mem"
          /\ UNCHANGED <<mode, sim, bp, epoch, moved, dtlb, in, out, client>>
      BY <1>2, <2>4 DEF StartMem
    <3>2. Asked' /\ NoAnswer' /\ Still'
      BY <2>0, <3>1 DEF Asked, NoAnswer, Still, Calm, Fresh, Since
    <3>3. Reading  BY <3>1, <2>4 DEF Handling, Reading, StartMem, Commands
    <3>4. Reading'  BY <3>1, <3>3 DEF Reading, Exact, Since
    <3> QED  BY <2>0, <3>1, <3>2, <3>4 DEF Handling, Phases
  <2>5. CASE MemChunk
    <3>1. Reading  BY <2>5 DEF Handling, Reading, MemChunk
    <3>2. Reading' /\ Fresh'  BY <2>0, <2>5, <3>1, ReadingChunk DEF Still
    <3>3. UNCHANGED <<mode, sim, bp, in, out, client>> /\ srv'.cmd = srv.cmd
      BY <1>2, <2>5 DEF MemChunk
    <3> QED  BY <2>0, <3>2, <3>3 DEF Handling, Phases, Asked, NoAnswer, Still, Calm
  <2>8. CASE MemFail
    <3>1. Reading /\ srv.left > 0  BY <2>8 DEF Handling, Reading, MemFail
    <3>2. /\ dtlb' = IF FrameOf(page) = Fails THEN dtlb ELSE [dtlb EXCEPT ![page] = FrameOf(page)]
          /\ srv'.pc = "ok" /\ srv'.cmd = srv.cmd /\ Since' = Since
          /\ UNCHANGED <<mode, sim, bp, in, out, client>>
      BY <1>2, <2>8 DEF MemFail, page, Since
    <3>3. page \in Pages  BY <3>1, PageOf
    <3>4. Fresh'
      <4> SUFFICES ASSUME NEW p \in Pages
                   PROVE  dtlb'[p] = 0 \/ \E f \in Since : dtlb'[p] = Translate(f, p)
        BY <3>2 DEF Fresh
      <4>1. dtlb[p] = 0 \/ \E f \in Since : dtlb[p] = Translate(f, p)
        BY <2>0 DEF Still, Fresh
      <4>2. CASE p = page /\ FrameOf(page) # Fails
        <5>1. dtlb'[p] = FrameOf(p)  BY <3>2, <3>3, <4>2
        <5> QED  BY <4>1, <5>1 DEF FrameOf, Since
      <4>3. CASE p # page \/ FrameOf(page) = Fails
        <5>1. dtlb'[p] = dtlb[p]  BY <3>2, <4>3
        <5> QED  BY <4>1, <5>1
      <4> QED  BY <4>2, <4>3
    <3>5. srv.cmd = "mem"  BY <3>1 DEF Reading
    <3> QED  BY <2>0, <3>2, <3>4, <3>5 DEF Handling, Phases, Asked, NoAnswer, Still, Calm
  <2>6. CASE Reply
    <3>3. PICK m \in OutMsgs :
            m = IF srv.pc = "ok" THEN Msg("ok") ELSE MemReply(srv.from, srv.data)
      BY Messages DEF MemReply, OutMsgs
    <3>1. /\ Sent(m) /\ srv'.pc = "commands"
          /\ UNCHANGED <<mode, sim, epoch, moved, dtlb, in, client>>
      BY <1>2, <2>6, <3>3 DEF Reply
    <3>2. srv.cmd \in Commands \cup {"mem"} /\ (srv.pc # "ok" => Reading)
      BY <2>6 DEF Handling, Reading, Reply
    <3>4. Truthful(m)'
      BY <3>1, <3>2, <3>3 DEF Truthful, MemReply, Msg, Reading, Exact, Since
    <3>5. AnswerIs(m)'  BY <2>0, <3>1, AnswerSent
    <3>6. client'.st = "asking" /\ client'.cmd \in Commands \cup {"mem"} /\ Still'
      BY <2>0, <3>1, <3>2 DEF Asked, Commands, Still, Calm, Fresh, Since
    <3> QED  BY <2>0, <3>1, <3>4, <3>5, <3>6 DEF Answered, Phases
  <2>7. CASE Listen \/ CheckSignals \/ Signal \/ LeaveCommands \/ Recv \/ Lost \/ Kill
    BY <2>0, <2>7 DEF Listen, CheckSignals, Signal, LeaveCommands, Recv, Lost, Kill, Commanded,
       Commands
  <2> QED  BY <1>2, <2>1, <2>2, <2>3, <2>4, <2>5, <2>6, <2>7, <2>8 DEF Srv
<1>3. CASE Receive
  <2>1. /\ out' = <<>>
        /\ UNCHANGED <<mode, sim, srv, bp, epoch, moved, woken, here, ran,
                       dtlb, open, closed, in, client>>
    BY <1>3, AckRead DEF Handling
  <2> QED  BY <2>1 DEF Handling, Phases, Asked, NoAnswer, Still, Calm, Fresh, Since, Reading, Exact
<1> QED  BY <1>0, <1>1, <1>2, <1>3, OnlyReceives
-----------------------------------------------------------------------------
(* The client takes the answer, or has let go                               *)

\* the client takes a reply that it expects
LEMMA ReplyRead ==
  ASSUME Types, Receive, NEW m, Head(out) = m, m.t # "ack"
  PROVE  /\ out' = Tail(out) /\ in' = Append(in, Ack)
         /\ client'.st = After(m) /\ client'.cmd = client.cmd
         /\ UNCHANGED <<mode, sim, srv, bp, epoch, moved, woken, here, ran, dtlb, open, closed>>
BY DEF Receive, Put, Types, Clients

LEMMA AnsweredStep ==
  ASSUME Types, Plain, open, Answered, Moves
  PROVE  Phases'
<1>0. client.st # "stopped"  BY DEF Answered
<1>1. CASE Sim /\ UNCHANGED client
  <2>1. Still' /\ Since \subseteq Since' /\ UNCHANGED <<srv, bp, dtlb, open, closed, in, out>>
    BY <1>1, StillKept DEF Answered
  <2>2. PICK m \in OutMsgs : AnswerIs(m) /\ Truthful(m)  BY DEF Answered
  <2>3. AnswerIs(m)'  BY <2>1, <2>2 DEF AnswerIs
  <2>4. Truthful(m)'
    <3>1. ASSUME m.t = "mem", Exact(m.addr, m.data)  PROVE ExactIn(Since', m.addr, m.data)
      BY <2>1, <3>1, ExactLater DEF Exact
    <3> QED  BY <2>2, <3>1 DEF Truthful, Exact
  <2> QED  BY <1>1, <2>1, <2>3, <2>4 DEF Answered, Phases
<1>2. CASE Srv /\ UNCHANGED client
  BY <1>2, SrvRests DEF Answered, Still, Calm, Rests
<1>3. CASE Receive
  <2>1. PICK m \in OutMsgs : AnswerIs(m) /\ Truthful(m)  BY DEF Answered
  <2>2. out' = Tail(out)  BY <1>3 DEF Receive
  <2>3. m.t \in {"ok", "mem"}  BY <2>1 DEF Truthful, Msg
  <2>4. CASE out = <<m>> /\ out' = <<>> /\ Head(out) = m
    <3>1. /\ in' = Append(in, Ack) /\ client'.st = After(m) /\ client'.cmd = client.cmd
          /\ UNCHANGED <<mode, sim, srv, bp, epoch, moved, woken, here, ran, dtlb, open, closed>>
      BY <1>3, <2>3, <2>4, ReplyRead
    <3>2. After(m) = "stopped"  BY <2>3 DEF After, Answered, Commands
    <3>3. in' = <<Ack>>  BY <3>1, One DEF Answered
    <3>4. client'.cmd # "detach"  BY <3>1 DEF Answered, Commands
    <3> QED  BY <2>4, <3>1, <3>2, <3>3, <3>4 DEF Answered, Quiet, Phases, Still,
             Calm, Fresh, Since, Rests
  <2>5. CASE out = <<Ack, m>> /\ out' = <<m>> /\ Head(out) = Ack
    <3>1. UNCHANGED <<mode, sim, srv, bp, epoch, moved, woken, here, ran,
                      dtlb, open, closed, in, client>>
      BY <1>3, <2>5 DEF Receive, Ack
    <3> QED
      BY <2>1, <2>5, <3>1 DEF Answered, Phases, Still, Calm, Fresh, Since, AnswerIs, Truthful, Exact
  <2> QED  BY <2>1, <2>2, <2>4, <2>5, AnswerRead
<1> QED  BY <1>0, <1>1, <1>2, <1>3, OnlyReceives

LEMMA SimFree ==
  ASSUME Types, Free, Plain, Sim, UNCHANGED client
  PROVE  /\ ~ Over /\ Free' /\ UNCHANGED <<srv, bp, in>>
         /\ out' = out \/ (out' = Append(out, Msg("exit")) /\ Over')
<1> USE DEF Free, Over, Types, Sims, Plain
<1>1. CASE SimCopy  BY <1>1 DEF SimCopy
<1>2. CASE SimRun
  <2>1. PICK r \in {"ok", "break", "exit"} :
          /\ sim' = [sim EXCEPT !.pc = "report", !.res = r]
          /\ sim.copied = "halted" => r = "ok"
          /\ sim.copied # "halted" => (r = "break" /\ StaysHere) \/ Advances(r)
    BY <1>2 DEF SimRun
  <2>2. UNCHANGED <<mode, srv, bp, dtlb, open, closed, in, out>> /\ sim.pc = "run"
    BY <1>2 DEF SimRun
  <2>3. r # "break"
    <3>1. ASSUME StaysHere  PROVE FALSE  BY <3>1, Zenon DEF StaysHere
    <3>2. ASSUME Advances("break")  PROVE FALSE
      <4>1. here'  BY <3>2, Zenon DEF Advances
      <4>2. here' => bp'  BY <2>2, <3>2, Advanced
      <4> QED  BY <2>2, <4>1, <4>2, Zenon
    <3> QED  BY <2>1, <3>1, <3>2
  <2> QED  BY <2>1, <2>2, <2>3
<1>3. CASE SimReport  BY <1>3 DEF SimReport, StopsHere
<1>4. CASE SimSend  BY <1>4 DEF SimSend, Sent
<1> QED  BY <1>1, <1>2, <1>3, <1>4 DEF Sim

LEMMA LetGoSim ==
  ASSUME Types, Plain, LetGo, Sim, UNCHANGED client
  PROVE  LetGo'
<1>1. /\ ~ Over /\ Free' /\ UNCHANGED <<srv, bp, in>>
      /\ out' = out \/ (out' = Append(out, Msg("exit")) /\ Over')
  BY SimFree DEF LetGo
<1>2. CASE DetachDone
  <2>1. NoAnswer  BY <1>1, <1>2 DEF DetachDone
  <2>2. CASE out' = out  BY <1>1, <1>2, <2>1, <2>2 DEF DetachDone, LetGo, NoAnswer
  <2>3. CASE out' = Append(out, Msg("exit")) /\ Over'
    <3>1. CASE out = <<>>
      <4>1. out' = <<Msg("exit")>>  BY <2>3, <3>1, One
      <4>2. AnswerIs(Msg("exit"))'  BY <4>1 DEF AnswerIs
      <4> QED  BY <1>1, <1>2, <2>3, <4>2 DEF DetachDone, LetGo
    <3>2. CASE out = <<Ack>>
      <4>1. out' = <<Ack, Msg("exit")>>  BY <2>3, <3>2, Two
      <4>2. AnswerIs(Msg("exit"))'  BY <4>1 DEF AnswerIs
      <4> QED  BY <1>1, <1>2, <2>3, <4>2 DEF DetachDone, LetGo
    <3> QED  BY <2>1, <3>1, <3>2 DEF NoAnswer
  <2> QED  BY <1>1, <2>2, <2>3
<1>3. CASE DetachTold
  <2>1. AnswerIs(Msg("ok"))  BY <1>1, <1>3 DEF DetachTold
  <2>2. CASE out' = out
    BY <1>1, <1>3, <2>1, <2>2 DEF DetachTold, LetGo, AnswerIs, Rests
  <2>3. CASE out' = Append(out, Msg("exit")) /\ Over'
    <3>1. out' \in {<<Msg("ok"), Msg("exit")>>, <<Ack, Msg("ok"), Msg("exit")>>}
      <4>1. CASE out = <<Msg("ok")>>  BY <2>3, <4>1, Two
      <4>2. CASE out = <<Ack, Msg("ok")>>  BY <2>3, <4>2, Three
      <4> QED  BY <2>1, <4>1, <4>2 DEF AnswerIs
    <3> QED  BY <1>1, <1>3, <2>3, <3>1 DEF DetachTold, LetGo, Rests
  <2> QED  BY <1>1, <2>2, <2>3
<1>4. CASE Detached
  <2>1. out = <<>>  BY <1>1, <1>4 DEF Detached
  <2>2. out' = <<>> \/ (out' = <<Msg("exit")>> /\ Over')  BY <1>1, <2>1, One
  <2> QED  BY <1>1, <1>4, <2>2 DEF Detached, LetGo, Rests
<1> QED  BY <1>2, <1>3, <1>4 DEF LetGo

LEMMA LetGoSrv ==
  ASSUME Types, Plain, LetGo, Srv, UNCHANGED client
  PROVE  LetGo'
<1>0. mode = "running" /\ Free  BY DEF LetGo, Free
<1>1. CASE DetachDone
  <2> USE DEF At, Goes, Types, Srvs
  <2>1. CASE Reply
    <3>1. /\ Sent(Msg("ok")) /\ srv'.pc = "commands" /\ ~ Over
          /\ UNCHANGED <<mode, sim, bp, epoch, moved, woken, here, ran, dtlb, open, closed, in>>
      BY <1>1, <2>1 DEF DetachDone, Reply, Alive, Over
    <3>2. AnswerIs(Msg("ok"))'  BY <1>1, <3>1, AnswerSent DEF DetachDone
    <3> QED  BY <1>0, <1>1, <3>1, <3>2 DEF DetachDone, DetachTold, LetGo, Free, Rests
  <2>2. CASE ~ Reply
    BY <1>1, <2>2 DEF Srv, DetachDone, Listen, CheckSignals, Signal, LeaveCommands, Recv, Lost,
       Resume, Detach, Kill, Points, Simple, StartMem, MemChunk,
       MemFail
  <2> QED  BY <2>1, <2>2
<1>2. CASE DetachTold \/ Detached
  <2>1. /\ Rests' /\ in' \in {in, <<>>} /\ Alive
        /\ UNCHANGED <<mode, sim, bp, epoch, moved, woken, here, ran, dtlb, open, closed, out>>
    BY <1>0, <1>2, SrvRests DEF DetachTold, Detached
  <2>2. Free' /\ ~ Over  BY <1>0, <2>1 DEF Free, Alive, Over
  <2>3. CASE DetachTold
    <3>1. AnswerIs(Msg("ok"))'  BY <2>1, <2>2, <2>3 DEF DetachTold, AnswerIs
    <3> QED  BY <2>1, <2>2, <2>3, <3>1 DEF DetachTold, LetGo
  <2>4. CASE Detached
    <3>1. out' = <<>>  BY <2>1, <2>2, <2>4 DEF Detached
    <3> QED  BY <2>1, <2>2, <2>4, <3>1 DEF Detached, LetGo
  <2> QED  BY <1>2, <2>3, <2>4
<1> QED  BY <1>1, <1>2 DEF LetGo

LEMMA LetGoReceive ==
  ASSUME Types, Plain, LetGo, Receive
  PROVE  Phases'
<1>0. Free  BY DEF LetGo
<1>1. out # <<>> /\ out' = Tail(out)  BY DEF Receive
<1>2. /\ Msg("ok").t = "ok" /\ Msg("exit").t = "exit" /\ Ack.t = "ack"
      /\ Over /\ UNCHANGED sim => Over'
  BY DEF Msg, Ack, Over
<1>3. ASSUME Head(out) = Msg("exit"), out' = <<>>, Over
      PROVE  Phases'
  <2>1. client'.st = After(Msg("exit")) /\ sim' = sim
    BY <1>2, <1>3, ReplyRead
  <2>2. client'.st = "exited"  BY <2>1 DEF After, Msg, Free, LetGo
  <2> QED  BY <1>3, <2>1, <2>2 DEF Ended, Over, Phases
<1>4. CASE DetachDone
  <2>1. CASE NoAnswer
    <3>1. /\ out' = <<>>
          /\ UNCHANGED <<mode, sim, srv, bp, epoch, moved, woken, here, ran,
                         dtlb, open, closed, in, client>>
      BY <2>1, AckRead
    <3> QED  BY <1>0, <1>4, <3>1 DEF DetachDone, NoAnswer, LetGo, Free, Phases
  <2>2. CASE AnswerIs(Msg("exit")) /\ Over
    <3>1. CASE out = <<Msg("exit")>> /\ out' = <<>> /\ Head(out) = Msg("exit")
      BY <1>3, <2>2, <3>1
    <3>2. CASE out = <<Ack, Msg("exit")>> /\ out' = <<Msg("exit")>> /\ Head(out) = Ack
      <4>1. UNCHANGED <<mode, sim, srv, bp, epoch, moved, woken, here, ran,
                        dtlb, open, closed, in, client>>
        BY <1>2, <3>2 DEF Receive
      <4>2. AnswerIs(Msg("exit"))'  BY <3>2 DEF AnswerIs
      <4> QED  BY <1>0, <1>4, <2>2, <4>1, <4>2 DEF DetachDone, LetGo, Free, Over, Phases
    <3> QED  BY <1>1, <2>2, <3>1, <3>2, AnswerRead
  <2> QED  BY <1>4, <2>1, <2>2 DEF DetachDone
<1>5. CASE DetachTold
  <2>1. ASSUME Head(out) = Ack
        PROVE  UNCHANGED <<mode, sim, srv, bp, epoch, moved, woken, here, ran,
                           dtlb, open, closed, in, client>>
    BY <1>2, <2>1 DEF Receive
  <2>2. ASSUME Head(out) = Msg("ok"), out' = <<>> \/ (out' = <<Msg("exit")>> /\ Over)
        PROVE  Phases'
    <3>1. /\ in' = Append(in, Ack) /\ client'.st = After(Msg("ok")) /\ client'.cmd = client.cmd
          /\ UNCHANGED <<mode, sim, srv, bp, epoch, moved, woken, here, ran, dtlb, open, closed>>
      BY <1>2, <2>2, ReplyRead
    <3>2. client'.st = "detached" /\ in' = <<Ack>>
      BY <1>0, <1>5, <3>1, One DEF After, Msg, Free, DetachTold
    <3>3. Free' /\ (Over => Over')  BY <1>0, <3>1 DEF Free, Over
    <3> QED  BY <1>5, <2>2, <3>1, <3>2, <3>3 DEF DetachTold, Detached, Rests, LetGo, Phases
  <2>3. CASE AnswerIs(Msg("ok"))
    <3>1. CASE out = <<Msg("ok")>> /\ out' = <<>> /\ Head(out) = Msg("ok")
      BY <2>2, <3>1
    <3>2. CASE out = <<Ack, Msg("ok")>> /\ out' = <<Msg("ok")>> /\ Head(out) = Ack
      <4>1. AnswerIs(Msg("ok"))'  BY <3>2 DEF AnswerIs
      <4> QED  BY <1>0, <1>5, <2>1, <3>2, <4>1 DEF DetachTold, LetGo, Free, Rests, Phases
    <3> QED  BY <1>1, <2>3, <3>1, <3>2, AnswerRead
  <2>4. CASE out = <<Msg("ok"), Msg("exit")>> /\ Over
    <3>1. Head(out) = Msg("ok") /\ out' = <<Msg("exit")>>  BY <1>1, <2>4, Two
    <3> QED  BY <2>2, <2>4, <3>1
  <2>5. CASE out = <<Ack, Msg("ok"), Msg("exit")>> /\ Over
    <3>1. Head(out) = Ack /\ out' = <<Msg("ok"), Msg("exit")>>  BY <1>1, <2>5, Three
    <3>2. UNCHANGED <<mode, sim, srv, bp, epoch, moved, woken, here, ran,
                      dtlb, open, closed, in, client>>
      BY <2>1, <3>1
    <3> QED  BY <1>0, <1>5, <2>5, <3>1, <3>2 DEF DetachTold, LetGo, Free, Rests, Over, Phases
  <2> QED  BY <1>5, <2>3, <2>4, <2>5 DEF DetachTold
<1>6. CASE Detached
  <2>1. out = <<Msg("exit")>> /\ Over  BY <1>1, <1>6 DEF Detached
  <2>2. Head(out) = Msg("exit") /\ out' = <<>>  BY <1>1, <2>1, One
  <2> QED  BY <1>3, <2>1, <2>2
<1> QED  BY <1>4, <1>5, <1>6 DEF LetGo

LEMMA LetGoStep ==
  ASSUME Types, Plain, open, LetGo, Moves
  PROVE  Phases'
<1>1. client.st # "stopped"  BY DEF LetGo, DetachDone, DetachTold, Detached
<1> QED  BY <1>1, LetGoSim, LetGoSrv, LetGoReceive, OnlyReceives DEF Phases
-----------------------------------------------------------------------------
(* The core runs for the client                                             *)

LEMMA ResumedSrv ==
  ASSUME Types, Plain, Resumed, mode # "killed", Srv, UNCHANGED client
  PROVE  Resumed' /\ UNCHANGED <<mode, sim, bp, epoch, moved, woken, here, ran, dtlb, out, client>>
<1>1. /\ Rests' /\ in' \in {in, <<>>}
      /\ UNCHANGED <<mode, sim, bp, epoch, moved, woken, here, ran, dtlb, open, closed, out>>
  BY SrvRests DEF Resumed
<1> QED  BY <1>1 DEF Resumed, NoFrames

LEMMA ResumedSim ==
  ASSUME Resumed, Sim, UNCHANGED client
  PROVE  Resumed' /\ UNCHANGED <<srv, bp, dtlb, open, closed, in, client>>
BY DEF Resumed, Rests, NoFrames, Sim, SimCopy, SimRun, SimReport, SimSend

\* one execution more, or none at a breakpoint
LEMMA MovingRun ==
  ASSUME Types, Moving, SimRun, UNCHANGED client, sim.copied # "halted"
  PROVE  Progress'
<1>1. client.cmd = "step" => ran = 0  BY DEF Moving, SimRun
<1>2. ran \in 0..2 /\ bp' = bp /\ client' = client  BY DEF Types, SimRun
<1>3. StaysHere \/ \E r \in {"ok", "break", "exit"} : Advances(r)  BY DEF SimRun
<1>4. CASE StaysHere
  <2>1. here /\ here' = here /\ ran' = ran  BY <1>4, Zenon DEF StaysHere
  <2>2. bp' /\ here'  BY <1>2, <2>1 DEF Types
  <2> QED  BY <1>1, <1>2, <2>1, <2>2 DEF Progress
<1>5. CASE \E r \in {"ok", "break", "exit"} : Advances(r)
  <2>1. ran' = (IF 2 <= ran + 1 THEN 2 ELSE ran + 1) /\ ran' \in 1..2  BY <1>2, <1>5, Advanced
  <2> QED  BY <1>1, <1>2, <2>1 DEF Progress
<1> QED  BY <1>3, <1>4, <1>5

LEMMA MovingSim ==
  ASSUME Types, Plain, Moving, Sim, UNCHANGED client
  PROVE  Moving' \/ Stopping' \/ Exiting'
<1>1. Resumed' /\ client' = client  BY ResumedSim DEF Moving
<1> USE DEF Types, Sims, Resumes
<1>2. CASE SimCopy
  <2>1. /\ sim'.pc = "run" /\ sim'.copied = mode /\ UNCHANGED <<mode, ran, out>>
        /\ sim.pc = "top"
    BY <1>2 DEF SimCopy
  <2> QED  BY <1>1, <2>1 DEF Moving, NoAnswer
<1>3. CASE SimRun
  <2>1. CASE sim.copied = "halted"
    <3>1. /\ sim'.pc = "report" /\ sim'.copied = "halted" /\ sim'.res = "ok"
          /\ sim.pc = "run" /\ UNCHANGED <<mode, ran, out>>
      BY <1>3, <2>1 DEF SimRun, TakesInterrupt
    <3> QED  BY <1>1, <3>1 DEF Moving, NoAnswer
  <2>2. CASE sim.copied # "halted"
    <3>1. /\ sim'.pc = "report" /\ sim'.copied = sim.copied
          /\ sim.pc = "run" /\ UNCHANGED <<mode, out>>
      BY <1>3, <2>2 DEF SimRun
    <3>2. Progress'  BY <1>3, <2>2, MovingRun
    <3> QED  BY <1>1, <2>2, <3>1, <3>2 DEF Moving, NoAnswer
  <2> QED  BY <2>1, <2>2
<1>4. CASE SimReport
  <2>1. sim.pc = "report" /\ sim.copied \in {"halted", mode} /\ mode \in {"stepping", "running"}
    BY <1>4 DEF SimReport, Moving
  <2>2. UNCHANGED <<bp, woken, here, ran, out>> /\ NoAnswer  BY <1>4 DEF SimReport, Moving
  <2>3. CASE StopsHere
    <3>1. sim.copied # "halted" /\ sim.res \in {"ok", "break"}
      BY <2>1, <2>3 DEF Moving, StopsHere
    <3>2. mode' = "halted" /\ sim'.pc = "send" /\ sim'.res = sim.res
      BY <1>4, <2>1, <2>3, <3>1 DEF SimReport
    <3>3. Progress'  BY <1>1, <2>1, <2>2, <3>1 DEF Moving, Progress
    <3> QED  BY <1>1, <2>2, <3>1, <3>2, <3>3 DEF Stopping, NoAnswer
  <2>4. CASE ~StopsHere /\ sim.res = "exit"
    <3>1. mode' = mode /\ sim'.pc = "send" /\ sim'.res = "exit"
      BY <1>4, <2>1, <2>4 DEF SimReport
    <3> QED  BY <1>1, <2>1, <2>2, <3>1 DEF Exiting, NoAnswer
  <2>5. CASE ~StopsHere /\ sim.res # "exit"
    <3>1. mode' = mode /\ sim'.pc = "top"
      BY <1>4, <2>1, <2>5 DEF SimReport
    <3>2. client.cmd = "step" => ran = 0
      BY <2>1, <2>5 DEF Moving, StopsHere
    <3> QED  BY <1>1, <2>2, <3>1, <3>2 DEF Moving, NoAnswer
  <2> QED  BY <2>3, <2>4, <2>5
<1>5. CASE SimSend  BY <1>5 DEF SimSend, Moving
<1> QED  BY <1>2, <1>3, <1>4, <1>5 DEF Sim

LEMMA NotKilled ==
  ASSUME Moving \/ Stopping \/ Exiting \/ Told
  PROVE  mode # "killed" /\ Resumed
BY DEF Moving, Stopping, Exiting, Told, Calm

\* before it is told, the client can only take the acknowledgement
LEMMA WaitsForStop ==
  ASSUME Moving \/ Stopping \/ Exiting, Receive
  PROVE  /\ out' = <<>> /\ Resumed'
         /\ UNCHANGED <<mode, sim, bp, woken, here, ran, client>>
<1>1. NoAnswer /\ Resumed  BY DEF Moving, Stopping, Exiting
<1>2. /\ out' = <<>>
      /\ UNCHANGED <<mode, sim, srv, bp, epoch, moved, woken, here, ran,
                     dtlb, open, closed, in, client>>
  BY <1>1, AckRead
<1> QED  BY <1>1, <1>2 DEF Resumed, Rests, NoFrames

LEMMA MovingStep ==
  ASSUME Types, Plain, open, Moving, Moves
  PROVE  Phases'
<1>0. client.st # "stopped"  BY DEF Moving, Resumed
<1>1. CASE Sim /\ UNCHANGED client
  BY <1>1, MovingSim DEF Phases
<1>2. CASE Srv /\ UNCHANGED client
  <2>1. Resumed' /\ UNCHANGED <<mode, sim, bp, epoch, moved, woken, here, ran, dtlb, out, client>>
    BY <1>2, NotKilled, ResumedSrv
  <2> QED  BY <2>1 DEF Moving, Progress, NoAnswer, Phases
<1>3. CASE Receive
  <2>1. out' = <<>> /\ Resumed' /\ UNCHANGED <<mode, sim, bp, woken, here, ran, client>>
    BY <1>3, WaitsForStop
  <2> QED  BY <2>1 DEF Moving, Progress, NoAnswer, Phases
<1> QED  BY <1>0, <1>1, <1>2, <1>3, OnlyReceives

LEMMA StoppingStep ==
  ASSUME Types, Plain, open, Stopping, Moves
  PROVE  Phases'
<1>0. client.st # "stopped"  BY DEF Stopping, Resumed
<1>1. CASE Sim /\ UNCHANGED client
  <2>1. SimSend  BY <1>1 DEF Stopping, Sim, SimCopy, SimRun, SimReport
  <2>2. Resumed'  BY <1>1, ResumedSim DEF Stopping
  <2>3. Sent(Msg("stop")) /\ NoAnswer  BY <2>1 DEF SimSend, Stopping
  <2>4. AnswerIs(Msg("stop"))'  BY <2>3, AnswerSent
  <2>5. Calm' /\ UNCHANGED <<bp, woken, here, ran>>
    BY <2>1 DEF SimSend, Stopping, Calm, Types, Sims
  <2> QED  BY <1>1, <2>2, <2>4, <2>5 DEF Told, Stopping, Progress, Phases
<1>2. CASE Srv /\ UNCHANGED client
  <2>1. Resumed' /\ UNCHANGED <<mode, sim, bp, epoch, moved, woken, here, ran, dtlb, out, client>>
    BY <1>2, NotKilled, ResumedSrv
  <2> QED  BY <2>1 DEF Stopping, Progress, NoAnswer, Phases
<1>3. CASE Receive
  <2>1. out' = <<>> /\ Resumed' /\ UNCHANGED <<mode, sim, bp, woken, here, ran, client>>
    BY <1>3, WaitsForStop
  <2> QED  BY <2>1 DEF Stopping, Progress, NoAnswer, Phases
<1> QED  BY <1>0, <1>1, <1>2, <1>3, OnlyReceives

LEMMA ExitingStep ==
  ASSUME Types, Plain, open, Exiting, Moves
  PROVE  Phases'
<1>0. client.st # "stopped"  BY DEF Exiting, Resumed
<1>1. CASE Sim /\ UNCHANGED client
  <2>1. SimSend  BY <1>1 DEF Exiting, Sim, SimCopy, SimRun, SimReport
  <2>2. Resumed'  BY <1>1, ResumedSim DEF Exiting
  <2>3. Sent(Msg("exit")) /\ NoAnswer  BY <2>1 DEF SimSend, Exiting
  <2>4. AnswerIs(Msg("exit"))'  BY <2>3, AnswerSent
  <2>5. Over'
    BY <2>1 DEF SimSend, Exiting, Over, Types, Sims
  <2> QED  BY <2>2, <2>4, <2>5 DEF Ended, Resumed, Phases
<1>2. CASE Srv /\ UNCHANGED client
  <2>1. Resumed' /\ UNCHANGED <<mode, sim, bp, epoch, moved, woken, here, ran, dtlb, out, client>>
    BY <1>2, NotKilled, ResumedSrv
  <2> QED  BY <2>1 DEF Exiting, NoAnswer, Phases
<1>3. CASE Receive
  <2>1. out' = <<>> /\ Resumed' /\ UNCHANGED <<mode, sim, bp, woken, here, ran, client>>
    BY <1>3, WaitsForStop
  <2> QED  BY <2>1 DEF Exiting, NoAnswer, Phases
<1> QED  BY <1>0, <1>1, <1>2, <1>3, OnlyReceives

LEMMA ToldStep ==
  ASSUME Types, Plain, open, Told, Moves
  PROVE  Phases'
<1>0. client.st # "stopped"  BY DEF Told, Resumed
<1>1. CASE Sim /\ UNCHANGED client
  <2>1. /\ Calm' /\ (here => here' \/ woken') /\ (woken => woken')
        /\ UNCHANGED <<srv, bp, ran, dtlb, open, closed, in, out>>
    BY <1>1, SimCalm DEF Told
  <2>2. Resumed'  BY <1>1, ResumedSim DEF Told
  <2> QED  BY <1>1, <2>1, <2>2 DEF Told, Progress, AnswerIs, Phases
<1>2. CASE Srv /\ UNCHANGED client
  <2>1. Resumed' /\ UNCHANGED <<mode, sim, bp, epoch, moved, woken, here, ran, dtlb, out, client>>
    BY <1>2, NotKilled, ResumedSrv
  <2> QED  BY <2>1 DEF Told, Progress, AnswerIs, Calm, Phases
<1>3. CASE Receive
  <2>1. AnswerIs(Msg("stop")) /\ out' = Tail(out)  BY <1>3 DEF Told, Receive
  <2>2. CASE out = <<Msg("stop")>> /\ out' = <<>> /\ Head(out) = Msg("stop")
    <3>1. Msg("stop").t = "stop"  BY DEF Msg
    <3>2. /\ in' = Append(in, Ack) /\ client'.st = After(Msg("stop")) /\ client'.cmd = client.cmd
          /\ UNCHANGED <<mode, sim, srv, bp, epoch, moved, woken, here, ran, dtlb, open, closed>>
      BY <1>3, <2>2, <3>1, ReplyRead
    <3>3. client'.st = "stopped" /\ in' = <<Ack>> /\ client'.cmd # "detach"
      BY <3>1, <3>2, One DEF After, Told, Resumed, Resumes
    <3>4. Fresh'  BY <3>2 DEF Told, Resumed, NoFrames, Fresh
    <3> QED  BY <2>2, <3>2, <3>3, <3>4 DEF Told, Resumed, Quiet, Still, Calm, Rests, Phases
  <2>3. CASE out = <<Ack, Msg("stop")>> /\ out' = <<Msg("stop")>> /\ Head(out) = Ack
    <3>1. UNCHANGED <<mode, sim, srv, bp, epoch, moved, woken, here, ran,
                      dtlb, open, closed, in, client>>
      BY <1>3, <2>3 DEF Receive, Ack
    <3>2. AnswerIs(Msg("stop"))'  BY <2>3 DEF AnswerIs
    <3> QED  BY <3>1, <3>2 DEF Told, Resumed, Rests, NoFrames, Calm, Progress, Phases
  <2> QED  BY <2>1, <2>2, <2>3, AnswerRead
<1> QED  BY <1>0, <1>1, <1>2, <1>3, OnlyReceives

LEMMA EndedStep ==
  ASSUME Types, Plain, open, Ended, Moves
  PROVE  Phases'
<1>0. client.st # "stopped"  BY DEF Ended
<1>1. CASE Sim \/ Srv
  BY <1>1 DEF Ended, Over, Sim, SimCopy, SimRun, SimReport, SimSend, Srv, Listen, CheckSignals,
     Signal, LeaveCommands, Recv, Lost, Resume, Detach, Kill, Points, Simple, StartMem, MemChunk,
     MemFail, Reply, At, Alive
<1>2. CASE Receive
  <2>1. out # <<>> /\ out' = Tail(out) /\ sim' = sim  BY <1>2 DEF Receive
  <2>2. client.st = "waiting" /\ AnswerIs(Msg("exit"))  BY <2>1 DEF Ended
  <2>3. CASE out = <<Msg("exit")>> /\ out' = <<>> /\ Head(out) = Msg("exit")
    <3>1. Msg("exit").t = "exit"  BY DEF Msg
    <3>2. client'.st = After(Msg("exit"))  BY <1>2, <2>3, <3>1, ReplyRead
    <3>3. client'.st = "exited"  BY <2>2, <3>1, <3>2 DEF After
    <3> QED  BY <2>1, <2>3, <3>3 DEF Ended, Over, Phases
  <2>4. CASE out = <<Ack, Msg("exit")>> /\ out' = <<Msg("exit")>> /\ Head(out) = Ack
    <3>1. UNCHANGED <<in, client>>  BY <1>2, <2>4 DEF Receive, Ack
    <3>2. AnswerIs(Msg("exit"))'  BY <2>4 DEF AnswerIs
    <3>3. in' = <<>> /\ client'.st = "waiting"  BY <2>2, <3>1 DEF Ended
    <3> QED  BY <2>1, <3>2, <3>3 DEF Ended, Over, Phases
  <2> QED  BY <2>1, <2>2, <2>3, <2>4, AnswerRead
<1> QED  BY <1>0, <1>1, <1>2, OnlyReceives
-----------------------------------------------------------------------------
(* The session keeps its invariant                                          *)

LEMMA PhaseStep ==
  ASSUME Types, Plain, open, Phases, Moves
  PROVE  Phases'
BY QuietStep, SendingStep, HandlingStep, AnsweredStep, LetGoStep, MovingStep, StoppingStep,
   ExitingStep, ToldStep, EndedStep DEF Phases

LEMMA InitSession ==
  ASSUME Init
  PROVE  IInv
<1>1. Types  BY InitTypes
<1>2. Quiet
  BY DEF Init, GdbInit, ClientInit, Quiet, Still, Calm, Fresh, Since, Rests
<1>3. ~closed /\ open /\ client.st # "gone"
  BY DEF Init, GdbInit, ClientInit
<1> QED  BY <1>1, <1>2, <1>3 DEF IInv, Phases

\* the client that has gone stays away, and nobody sends to it
LEMMA GoneStep ==
  ASSUME Types, closed <=> client.st = "gone", closed => out = <<>>, Next
  PROVE  (closed' <=> client'.st = "gone") /\ (closed' => out' = <<>>)
<1>1. CASE Sim /\ UNCHANGED client
  BY <1>1 DEF Sim, SimCopy, SimRun, SimReport, SimSend, Sent
<1>2. CASE Srv /\ UNCHANGED client
  BY <1>2 DEF Srv, Listen, CheckSignals, Signal, LeaveCommands, Recv, Lost, Resume, Detach, Kill,
     Points, Simple, StartMem, MemChunk, MemFail, Reply, Sent
<1>3. CASE Ask \/ AskDetach \/ AskResume \/ Interrupt
  BY <1>3 DEF Ask, AskDetach, AskResume, Interrupt, Types, Clients
<1>4. CASE AskKill \/ Close
  BY <1>4 DEF AskKill, Close, Types, Clients
<1>5. CASE Receive
  <2>1. closed' = closed /\ ~closed  BY <1>5 DEF Receive
  <2>2. client'.st # "gone"
    BY <1>5, <2>1 DEF Receive, After, Types, Clients
  <2> QED  BY <2>1, <2>2
<1> QED  BY <1>1, <1>2, <1>3, <1>4, <1>5 DEF Next, Client

LEMMA SessionStep ==
  ASSUME IInv, [Next]_vars
  PROVE  IInv'
<1>1. CASE Next
  <2>1. Types'
    BY <1>1, SimTypes, SrvTypes, ClientTypes DEF IInv, Next
  <2>2. (closed' <=> client'.st = "gone") /\ (closed' => out' = <<>>)
    BY <1>1, GoneStep DEF IInv
  <2>3. ASSUME Plain'  PROVE open' /\ Phases'
    <3>1. Plain /\ Moves  BY <1>1, <2>3, PlainStep DEF IInv
    <3>2. open /\ Phases /\ Types  BY <3>1 DEF IInv
    <3> QED  BY <3>1, <3>2, OpenStays, PhaseStep
  <2> QED  BY <2>1, <2>2, <2>3 DEF IInv
<1>2. CASE UNCHANGED vars
  <2>2. UNCHANGED <<mode, sim, srv, bp, moved, epoch, woken, here, ran, dtlb, open, closed, in, out,
                    client>>
    BY <1>2 DEF vars, gdbVars
  <2>1. Types'  BY <2>2 DEF IInv, Types
  <2>3. Plain => Phases  BY DEF IInv
  <2>4. Phases => Phases'
    BY <2>2 DEF Phases, Quiet, Sending, Asked, OnItsWay, Handling, Reading, Answered, LetGo, Free,
       DetachDone, DetachTold, Detached, Over, Moving, Stopping, Exiting, Told, Ended, Resumed,
       Still, Calm, Fresh, Since, Rests, NoAnswer, AnswerIs, Progress, Truthful, Exact, NoFrames
  <2> QED  BY <2>1, <2>2, <2>3, <2>4 DEF IInv, Plain, NoInterrupt
<1> QED  BY <1>1, <1>2

\* Without interrupt a session is always in one of the phases of command, answer,
\* resumption and stop, whatever the two threads do with m_mode in between
\* (gdb.cpp:544-617).
THEOREM SessionInvariant == Spec => []IInv
<1>1. Init => IInv  BY InitSession
<1>2. IInv /\ [Next]_vars => IInv'  BY SessionStep
<1> QED  BY <1>1, <1>2, PTL DEF Spec
-----------------------------------------------------------------------------
(* What the session promises                                                *)

LEMMA Contents ==
  /\ Len(<<>>) = 0
  /\ \A m : Len(<<m>>) = 1 /\ <<m>>[1] = m
  /\ \A m, n : Len(<<m, n>>) = 2 /\ <<m, n>>[1] = m /\ <<m, n>>[2] = n
OBVIOUS

LEMMA NothingButAck ==
  ASSUME NoAnswer
  PROVE  \A i \in 1..Len(out) : out[i].t = "ack"
BY Contents DEF NoAnswer, Ack

LEMMA NothingButAnswer ==
  ASSUME NEW m, AnswerIs(m)
  PROVE  \A i \in 1..Len(out) : out[i] = m \/ out[i].t = "ack"
<1>1. CASE out = <<m>>  BY <1>1, Contents
<1>2. CASE out = <<Ack, m>>
  <2>1. \A i \in 1..Len(out) : i = 1 \/ i = 2  BY <1>2, Contents
  <2> QED  BY <1>2, <2>1, Contents DEF Ack
<1> QED  BY <1>1, <1>2 DEF AnswerIs

LEMMA TypesFollow == IInv => DebugTypes
<1> SUFFICES ASSUME Types PROVE DebugTypes
  BY DEF IInv
<1>1. srv.addr \in Nat /\ srv.left \in Nat /\ srv.addr + srv.left <= Space
  BY DEF Types, Srvs
<1>2. srv.addr \in 0..(NumPages * PageSize)  BY <1>1, Sizes DEF Space
<1>3. here \in Spots  BY Zenon DEF Types, Spots
<1> QED  BY <1>1, <1>2, <1>3 DEF Types, Sims, SimPlaces, Srvs, SrvPlaces, DebugTypes

LEMMA AnswersFollow == IInv => OneAnswerEach
BY DEF IInv, Plain, OneAnswerEach, Phases, Quiet, Sending, Handling, Asked, Answered, LetGo,
   DetachDone, DetachTold, Detached, Moving, Stopping, Exiting, Told, Resumed, Ended

LEMMA StopFollows == IInv => StoppedMeansStopped
<1> SUFFICES ASSUME IInv, NoInterrupt, client.st \in {"stopped", "asking"}, client.cmd # "detach"
             PROVE  mode = "halted" /\ (sim.pc \in {"run", "report"} => sim.copied = "halted")
  BY DEF StoppedMeansStopped
<1>1. Phases  BY DEF IInv, Plain
<1>2. Quiet \/ Sending \/ Handling \/ Answered
  BY <1>1 DEF Phases, LetGo, Free, Moving, Stopping, Exiting, Told, Resumed, Ended
<1>3. Calm  BY <1>2 DEF Quiet, Sending, Handling, Answered, Still
<1> QED  BY <1>3 DEF Calm

LEMMA ProgressFollows == IInv => StopAfterProgress
<1> SUFFICES ASSUME IInv, NoInterrupt, client.st = "waiting",
                    NEW i \in 1..Len(out), out[i].t = "stop"
             PROVE  Progress
  BY DEF StopAfterProgress, Progress
<1>1. Phases  BY DEF IInv, Plain
<1>2. out # <<>> /\ ~ NoAnswer  BY NothingButAck, Contents
<1>3. ~ (\E m \in {Msg("ok"), Msg("exit")} : AnswerIs(m))  BY NothingButAnswer DEF Msg
<1>4. Told
  BY <1>1, <1>2, <1>3 DEF Phases, Quiet, Sending, Handling, Answered, LetGo, DetachDone, DetachTold,
     Detached, Moving, Stopping, Exiting, Ended
<1> QED  BY <1>4 DEF Told

LEMMA ReplyFollows == IInv => MemReplyExact
<1> SUFFICES ASSUME IInv, NoInterrupt, NEW i \in 1..Len(out), out[i].t = "mem"
             PROVE  Exact(out[i].addr, out[i].data)
  BY DEF MemReplyExact, Exact, ExactIn, Since
<1>1. out # <<>> /\ ~ NoAnswer  BY NothingButAck, Contents
<1>2. Phases  BY <1>1 DEF IInv, Plain
<1>3. ~ (\E m \in {Msg("ok"), Msg("exit"), Msg("stop")} : AnswerIs(m))
  BY NothingButAnswer DEF Msg
<1>4. CASE Answered
  <2>1. PICK m \in OutMsgs : AnswerIs(m) /\ Truthful(m)  BY <1>4 DEF Answered
  <2>2. out[i] = m  BY <2>1, NothingButAnswer
  <2>3. m # Msg("ok")  BY <2>2 DEF Msg
  <2> QED  BY <2>1, <2>2, <2>3 DEF Truthful
<1>5. CASE out \in {<<Msg("ok"), Msg("exit")>>, <<Msg("exit")>>}
  <2>1. CASE out = <<Msg("ok"), Msg("exit")>>
    <3>1. Len(out) = 2 /\ out[1] = Msg("ok") /\ out[2] = Msg("exit")  BY <2>1, Contents
    <3>2. i = 1 \/ i = 2  BY <3>1
    <3> QED  BY <3>1, <3>2 DEF Msg
  <2>2. CASE out = <<Msg("exit")>>
    <3>1. Len(out) = 1 /\ out[1] = Msg("exit")  BY <2>2, Contents
    <3>2. i = 1  BY <3>1
    <3> QED  BY <3>1, <3>2 DEF Msg
  <2> QED  BY <1>5, <2>1, <2>2
<1>6. CASE out = <<Ack, Msg("ok"), Msg("exit")>>
  <2>1. /\ Len(out) = 3 /\ out[1] = Ack /\ out[2] = Msg("ok") /\ out[3] = Msg("exit")
    BY <1>6
  <2>2. i = 1 \/ i = 2 \/ i = 3  BY <2>1
  <2> QED  BY <2>1, <2>2 DEF Msg, Ack
<1> QED
  BY <1>1, <1>2, <1>3, <1>4, <1>5, <1>6 DEF Phases, Quiet, Sending, Handling, LetGo, DetachDone,
     DetachTold, Detached, Moving, Stopping, Exiting, Told, Ended

\* Every command gets its answer and every resumption one stop reply, in order,
\* as long as the client does not interrupt (gdb.cpp:593-617).
THEOREM OneAnswerEachHolds == Spec => []OneAnswerEach
BY SessionInvariant, AnswersFollow, PTL

\* While the client thinks that the core is stopped the simulation thread does
\* not execute (gdb.cpp:160-182).
THEOREM StoppedMeansStoppedHolds == Spec => []StoppedMeansStopped
BY SessionInvariant, StopFollows, PTL

\* A stop reply follows an execution, unless the core was resumed at a breakpoint;
\* of a step at most one (gdb.cpp:612-617).
THEOREM StopAfterProgressHolds == Spec => []StopAfterProgress
BY SessionInvariant, ProgressFollows, PTL

\* The bytes of a memory reply are those at the addresses that the client means,
\* as the core maps them while it reads the reply, or mapped them before an
\* interrupt that it took while halted (gdb.cpp:71-136, 334-366).
THEOREM MemReplyExactHolds == Spec => []MemReplyExact
BY SessionInvariant, ReplyFollows, PTL
-----------------------------------------------------------------------------
(* How many messages of some kinds a queue holds, from a position on          *)

OneIf(b) == IF b THEN 1 ELSE 0
Places(s, k, T) == {i \in k..Len(s) : s[i].t \in T}
Count(s, k, T) == Cardinality(Places(s, k, T))

LEMMA CountType ==
  ASSUME NEW S, NEW s \in Seq(S), NEW k \in Nat, NEW T
  PROVE  IsFiniteSet(Places(s, k, T)) /\ Count(s, k, T) \in Nat
<1>1. Len(s) \in Nat  OBVIOUS
<1>2. IsFiniteSet(k..Len(s))  BY <1>1, FS_Interval
<1>3. Places(s, k, T) \in SUBSET (k..Len(s))  BY DEF Places
<1>4. IsFiniteSet(Places(s, k, T))  BY <1>2, <1>3, FS_Subset
<1> QED  BY <1>4, FS_CardinalityType DEF Count

LEMMA CountEnd ==
  ASSUME NEW S, NEW s \in Seq(S), NEW T
  PROVE  Count(s, Len(s) + 1, T) = 0
<1>1. Len(s) \in Nat  OBVIOUS
<1>2. Places(s, Len(s) + 1, T) = {}  BY <1>1 DEF Places
<1> QED  BY <1>2, FS_EmptySet DEF Count

LEMMA CountNext ==
  ASSUME NEW S, NEW s \in Seq(S), NEW k \in 1..Len(s), NEW T
  PROVE  Count(s, k, T) = Count(s, k + 1, T) + OneIf(s[k].t \in T)
<1>0. k \in Nat /\ k + 1 \in Nat /\ Len(s) \in Nat  OBVIOUS
<1>1. IsFiniteSet(Places(s, k + 1, T)) /\ k \notin Places(s, k + 1, T)
      /\ Count(s, k + 1, T) \in Nat
  <2>1. k \notin Places(s, k + 1, T)  BY <1>0 DEF Places
  <2> QED  BY <1>0, <2>1, CountType
<1>2. k..Len(s) = ((k + 1)..Len(s)) \cup {k}  OBVIOUS
<1>3. CASE s[k].t \in T
  <2>1. Places(s, k, T) = Places(s, k + 1, T) \cup {k}  BY <1>2, <1>3 DEF Places
  <2> QED  BY <1>1, <1>3, <2>1, FS_AddElement DEF Count, OneIf
<1>4. CASE s[k].t \notin T
  <2>1. Places(s, k, T) = Places(s, k + 1, T)  BY <1>2, <1>4 DEF Places
  <2> QED  BY <1>1, <1>4, <2>1 DEF Count, OneIf
<1> QED  BY <1>3, <1>4

LEMMA CountAppend ==
  ASSUME NEW S, NEW s \in Seq(S), NEW m \in S, NEW k \in 1..(Len(s) + 1), NEW T
  PROVE  Count(Append(s, m), k, T) = Count(s, k, T) + OneIf(m.t \in T)
<1> DEFINE n == Len(s) + 1
           r == Append(s, m)
<1>1. Len(s) \in Nat /\ Len(r) = n /\ r[n] = m /\ \A i \in 1..Len(s) : r[i] = s[i]
  BY AppendProperties
<1>2. k..n = (k..Len(s)) \cup {n} /\ n \notin k..Len(s) /\ k..Len(s) \subseteq 1..Len(s)
  BY <1>1
<1>3. IsFiniteSet(Places(s, k, T)) /\ Count(s, k, T) \in Nat /\ n \notin Places(s, k, T)
  BY <1>2, CountType DEF Places
<1> HIDE DEF n, r
<1>4. CASE m.t \in T
  <2>1. Places(r, k, T) = Places(s, k, T) \cup {n}  BY <1>1, <1>2, <1>4 DEF Places
  <2> QED  BY <1>3, <1>4, <2>1, FS_AddElement DEF Count, OneIf, r
<1>5. CASE m.t \notin T
  <2>1. Places(r, k, T) = Places(s, k, T)  BY <1>1, <1>2, <1>5 DEF Places
  <2> QED  BY <1>3, <1>5, <2>1 DEF Count, OneIf, r
<1> QED  BY <1>4, <1>5

\* the rest of a queue, from its position n on
LEMMA CountRest ==
  ASSUME NEW S, NEW s \in Seq(S), NEW r \in Seq(S), NEW n \in Nat, Len(r) + n = Len(s),
         \A i \in 1..Len(r) : r[i].t = s[i + n].t, NEW k \in Nat \ {0}, NEW T
  PROVE  Count(r, k, T) = Count(s, k + n, T)
<1> DEFINE A == Places(r, k, T)
           B == Places(s, k + n, T)
           f == [i \in A |-> i + n]
<1>1. Len(r) \in Nat /\ Len(s) \in Nat  OBVIOUS
<1>2. \A i \in k..Len(r) : i + n \in (k + n)..Len(s) /\ i \in 1..Len(r)  BY <1>1
<1>3. A \subseteq Nat /\ B \subseteq Nat  BY <1>1 DEF Places
<1>4. f \in [A -> B]
  <2>1. ASSUME NEW i \in A  PROVE i + n \in B  BY <1>2 DEF Places
  <2> QED  BY <2>1
<1>5. \A i, j \in A : f[i] = f[j] => i = j  BY <1>3
<1>6. \A j \in B : \E i \in A : f[i] = j
  <2> SUFFICES ASSUME NEW j \in B  PROVE \E i \in A : f[i] = j  OBVIOUS
  <2>1. j - n \in k..Len(r) /\ (j - n) + n = j  BY <1>1 DEF Places
  <2>2. r[j - n].t = s[j].t  BY <1>2, <2>1
  <2>3. j - n \in A  BY <2>1, <2>2 DEF Places
  <2> QED  BY <2>1, <2>3
<1> HIDE DEF f
<1>7. f \in Bijection(A, B)  BY <1>4, <1>5, <1>6, Fun_IsBij
<1>8. IsFiniteSet(A) /\ ExistsBijection(A, B)  BY <1>7, CountType DEF ExistsBijection
<1> HIDE DEF A, B
<1>9. Cardinality(B) = Cardinality(A)  BY <1>8, FS_Bijection
<1> QED  BY <1>9 DEF A, B, Count

LEMMA CountTail ==
  ASSUME NEW S, NEW s \in Seq(S), s # <<>>, NEW k \in Nat \ {0}, NEW T
  PROVE  Count(Tail(s), k, T) = Count(s, k + 1, T)
<1>1. Tail(s) \in Seq(S) /\ Len(Tail(s)) + 1 = Len(s)
      /\ \A i \in 1..Len(Tail(s)) : Tail(s)[i].t = s[i + 1].t
  BY HeadTailProperties
<1> DEFINE r == Tail(s)
<1> HIDE DEF r
<1>2. r \in Seq(S) /\ Len(r) + 1 = Len(s) /\ \A i \in 1..Len(r) : r[i].t = s[i + 1].t
  BY <1>1 DEF r
<1>3. 1 \in Nat  OBVIOUS
<1>4. Count(r, k, T) = Count(s, k + 1, T)  BY <1>2, <1>3, CountRest
<1> QED  BY <1>4 DEF r

\* kinds that exclude each other
LEMMA CountTwo ==
  ASSUME NEW S, NEW s \in Seq(S), NEW k \in Nat, NEW T, NEW U, T \cap U = {}
  PROVE  Count(s, k, T \cup U) = Count(s, k, T) + Count(s, k, U)
<1> DEFINE A == Places(s, k, T)
           B == Places(s, k, U)
<1>1. IsFiniteSet(A) /\ IsFiniteSet(B) /\ Cardinality(A) \in Nat /\ Cardinality(B) \in Nat
  BY CountType DEF Count
<1>2. A \cap B = {} /\ Places(s, k, T \cup U) = A \cup B  BY DEF Places
<1> HIDE DEF A, B
<1>3. Cardinality(A \cup B) = Cardinality(A) + Cardinality(B) - Cardinality({})
  BY <1>1, <1>2, FS_Union
<1>4. Cardinality({}) = 0  BY FS_EmptySet
<1>5. Cardinality(A \cup B) = Cardinality(A) + Cardinality(B)  BY <1>1, <1>3, <1>4
<1> QED  BY <1>2, <1>5 DEF Count, A, B

LEMMA CountEvery ==
  ASSUME NEW S, NEW s \in Seq(S), NEW T, \A m \in S : m.t \in T
  PROVE  Count(s, 1, T) = Len(s)
<1>1. Len(s) \in Nat /\ \A i \in 1..Len(s) : s[i] \in S  OBVIOUS
<1>2. Places(s, 1, T) = 1..Len(s)  BY <1>1 DEF Places
<1>3. Cardinality(1..Len(s)) = Len(s)  BY <1>1, FS_Interval
<1> QED  BY <1>2, <1>3 DEF Count
-----------------------------------------------------------------------------
(***************************************************************************)
(* How full the queues get, with or without an interrupt.  A client waits   *)
(* for one answer, and an interrupt is good for one more: what it has asked *)
(* for is in a queue or in the hands of one of the threads.                 *)
(***************************************************************************)

Replying == {"ok", "mem", "stop", "exit"}
Serves == srv.pc \in {"handle", "ok", "mem"}
LetsGo == srv.pc = "handle" /\ srv.cmd = "detach"
Goings == {"stepping", "running"}

\* the simulation thread comes to the end of the program, or has
Ends == sim.pc = "ended" \/ (sim.pc = "send" /\ sim.res = "exit")
Executes == ~Ends /\ (mode \in Goings \/ (sim.pc \in {"run", "report"} /\ sim.copied \in Goings))

\* the answers that the two threads are still to send; a detachment is one to
\* the client and the end of the program
InHand == OneIf(Serves) + OneIf(LetsGo) + OneIf(srv.pc = "signal") + OneIf(Executes)
          + OneIf(sim.pc = "send")
Leaves(m) == m.t = "packet" /\ m.cmd = "detach"
Leaving == \E i \in 1..Len(in) : Leaves(in[i])
Owed == Count(in, 1, {"packet"}) + OneIf(Leaving) + Count(in, 1, {"intr"})
        + Count(out, 1, Replying) + InHand + OneIf(~client.intr)

Few == /\ Owed <= 1 + OneIf(client.st \in {"asking", "waiting", "confused"})
                    + OneIf(client.cmd = "detach")
       /\ Count(in, 1, {"packet"}) <= 2
       /\ Count(in, 1, {"intr"}) + OneIf(~client.intr) <= 1

\* the client acknowledges one reply for each packet, and a few at the end
Ahead == CASE client.st \in {"asking", "waiting"}   -> 0
           [] client.st \in {"stopped", "detached"} -> 1
           [] client.st = "exited"                  -> 2
           [] OTHER                                 -> 3
InOrder == \A k \in 1..(Len(in) + 1) :
             Count(in, k, {"ack"}) <= Count(in, k, {"packet"}) + Ahead

\* behind each acknowledgement of the server there is an answer, or will be
Behind == OneIf(Serves) + OneIf(sim.pc = "send") + OneIf(srv.pc = "signal" \/ mode \in Goings)
OutOrder == \A k \in 1..(Len(out) + 1) :
              Count(out, k, {"ack"}) <= Count(out, k, Replying) + Behind
Taken == Count(out, 1, {"ack"}) + Count(in, 1, {"packet"})
           <= 1 + OneIf(client.st # "stopped") + OneIf(Ends)

\* what is sent and handled is what the client may ask for
InSane == /\ \A i \in 1..Len(in) : in[i].t = "packet" => in[i].cmd # "kill"
          /\ \A i, j \in 1..Len(in) : i < j /\ Leaves(in[i]) => in[j].t # "packet"
Sane == /\ client.cmd = "detach" => client.st \notin {"stopped", "waiting"}
        /\ Leaving \/ LetsGo => client.cmd = "detach"
        /\ InSane
        /\ srv.pc = "handle" => mode = "halted" /\ srv.cmd # "kill"
        /\ sim.pc = "report" /\ sim.res # "ok" => sim.copied # "halted"

\* a program ends once
Once == Count(out, 1, {"exit"}) + OneIf(client.st = "exited") <= OneIf(sim.pc = "ended")

Queues == /\ Len(in) <= 6
          /\ ~closed => Few /\ InOrder /\ OutOrder /\ Taken /\ Once /\ Sane

LEMMA Ones == \A b : OneIf(b) \in {0, 1} /\ (b => OneIf(b) = 1) /\ (~b => OneIf(b) = 0)
BY DEF OneIf

LEMMA Numbers ==
  ASSUME Types, NEW k \in Nat, NEW T
  PROVE  Count(in, k, T) \in Nat /\ Count(out, k, T) \in Nat
BY CountType DEF Types

LEMMA HandNumbers ==
  InHand \in Nat /\ InHand' \in Nat /\ Behind \in Nat /\ Behind' \in Nat
BY Ones DEF InHand, Behind

\* a step that leaves the queues and the client alone
LEMMA Unqueued ==
  ASSUME Types, Queues, ~closed, ~closed', UNCHANGED <<in, out, client>>,
         InHand' <= InHand, Behind <= Behind', Ends => Ends',
         sim.pc = "ended" => sim'.pc = "ended", Sane'
  PROVE  Queues'
<1>1. Len(in') <= 6  BY DEF Queues
<1>2. Few'
  <2> DEFINE rest == Count(in, 1, {"packet"}) + OneIf(Leaving) + Count(in, 1, {"intr"})
                     + Count(out, 1, Replying)
  <2>1. rest \in Nat /\ InHand \in Nat /\ InHand' \in Nat
    <3>1. /\ Count(in, 1, {"packet"}) \in Nat /\ Count(in, 1, {"intr"}) \in Nat
          /\ Count(out, 1, Replying) \in Nat
      BY Numbers
    <3>2. OneIf(Leaving) \in Nat  BY Ones
    <3> QED  BY <3>1, <3>2, HandNumbers
  <2>2. rest' = rest  BY DEF Leaving
  <2>3. Owed = rest + InHand + OneIf(~client.intr)  BY DEF Owed
  <2>4. Owed' = rest' + InHand' + OneIf(~client'.intr)  BY DEF Owed
  <2> HIDE DEF rest
  <2>5. Owed' <= Owed /\ Owed \in Nat /\ Owed' \in Nat  BY <2>1, <2>2, <2>3, <2>4, Ones
  <2> QED  BY <2>5, Ones DEF Queues, Few
<1>3. InOrder'  BY DEF Queues, InOrder, Ahead
<1>4. OutOrder'
  <2>1. \A k \in 1..(Len(out) + 1) :
          Count(out, k, {"ack"}) \in Nat /\ Count(out, k, Replying) \in Nat
    BY Numbers
  <2>2. Behind \in Nat /\ Behind' \in Nat /\ OutOrder  BY HandNumbers DEF Queues
  <2> SUFFICES ASSUME NEW k \in 1..(Len(out) + 1)
               PROVE  Count(out, k, {"ack"}) <= Count(out, k, Replying) + Behind'
    BY DEF OutOrder
  <2>3. Count(out, k, {"ack"}) <= Count(out, k, Replying) + Behind  BY <2>2 DEF OutOrder
  <2> QED  BY <2>1, <2>2, <2>3
<1>5. Taken'
  <2>1. Count(out, 1, {"ack"}) + Count(in, 1, {"packet"}) \in Nat  BY Numbers
  <2>2. OneIf(Ends) <= OneIf(Ends')  BY DEF OneIf
  <2> QED  BY <2>1, <2>2, Ones DEF Queues, Taken
<1>6. Once'
  <2>1. Count(out, 1, {"exit"}) \in Nat  BY Numbers
  <2>2. OneIf(sim.pc = "ended") <= OneIf(sim'.pc = "ended")  BY DEF OneIf
  <2> QED  BY <2>1, <2>2, Ones DEF Queues, Once
<1> QED  BY <1>1, <1>2, <1>3, <1>4, <1>5, <1>6 DEF Queues

\* a reply is sent
LEMMA Replied ==
  ASSUME Types, Queues, ~closed, ~closed', UNCHANGED <<in, client>>,
         NEW m \in OutMsgs, m.t \in Replying, Sent(m),
         InHand' < InHand, Behind - 1 <= Behind', Ends => Ends',
         sim.pc = "ended" => sim'.pc = "ended",
         m.t = "exit" => sim.pc # "ended" /\ sim'.pc = "ended",
         Sane'
  PROVE  Queues'
<1>0. out \in Seq(OutMsgs) /\ Len(out) \in Nat /\ Len(out') = Len(out) + 1 /\ m.t # "ack"
      /\ out' = Append(out, m)
  BY AppendProperties DEF Types, Replying, Sent
<1>1. Len(in') <= 6  BY DEF Queues
<1>2. ASSUME NEW k \in 1..(Len(out) + 1)
      PROVE  /\ Count(out', k, {"ack"}) = Count(out, k, {"ack"})
             /\ Count(out', k, Replying) = Count(out, k, Replying) + 1
             /\ Count(out, k, {"ack"}) \in Nat /\ Count(out, k, Replying) \in Nat
  <2>1. Count(out', k, {"ack"}) = Count(out, k, {"ack"}) + OneIf(m.t \in {"ack"})
    BY <1>0, CountAppend
  <2>2. Count(out', k, Replying) = Count(out, k, Replying) + OneIf(m.t \in Replying)
    BY <1>0, CountAppend
  <2>3. Count(out, k, {"ack"}) \in Nat /\ Count(out, k, Replying) \in Nat  BY Numbers
  <2> QED  BY <1>0, <2>1, <2>2, <2>3 DEF OneIf
<1>3. 1 \in 1..(Len(out) + 1)  BY <1>0
<1>4. Few'
  <2> DEFINE rest == Count(in, 1, {"packet"}) + OneIf(Leaving) + Count(in, 1, {"intr"})
             sent == Count(out, 1, Replying)
             sent1 == Count(out', 1, Replying)
  <2>1. rest \in Nat /\ InHand \in Nat /\ InHand' \in Nat
    <3>1. Count(in, 1, {"packet"}) \in Nat /\ Count(in, 1, {"intr"}) \in Nat
      BY Numbers
    <3>2. OneIf(Leaving) \in Nat  BY Ones
    <3> QED  BY <3>1, <3>2, HandNumbers
  <2>2. rest' = rest  BY DEF Leaving
  <2>3. Owed = rest + sent + InHand + OneIf(~client.intr)  BY DEF Owed
  <2>4. Owed' = rest' + sent1 + InHand' + OneIf(~client'.intr)  BY DEF Owed
  <2>5. sent1 = sent + 1 /\ sent \in Nat  BY <1>2, <1>3
  <2> HIDE DEF rest, sent, sent1
  <2>7. OneIf(~client'.intr) = OneIf(~client.intr) /\ OneIf(~client.intr) \in Nat
    BY Ones
  <2>6. Owed' <= Owed /\ Owed \in Nat /\ Owed' \in Nat
    BY <2>1, <2>2, <2>3, <2>4, <2>5, <2>7
  <2> QED  BY <2>6, Ones DEF Queues, Few
<1>5. InOrder'  BY DEF Queues, InOrder, Ahead
<1>6. OutOrder'
  <2>1. Behind \in Nat /\ Behind' \in Nat /\ OutOrder  BY HandNumbers DEF Queues
  <2> SUFFICES ASSUME NEW k \in 1..(Len(out') + 1)
               PROVE  Count(out', k, {"ack"}) <= Count(out', k, Replying) + Behind'
    BY DEF OutOrder
  <2>2. CASE k \in 1..(Len(out) + 1)
    <3> DEFINE a == Count(out, k, {"ack"})
               n == Count(out, k, Replying)
    <3>1. a <= n + Behind  BY <2>1, <2>2 DEF OutOrder
    <3>2. /\ Count(out', k, {"ack"}) = a /\ Count(out', k, Replying) = n + 1
          /\ a \in Nat /\ n \in Nat
      BY <1>2, <2>2
    <3>3. PICK b \in Nat : Behind' = b  BY <2>1
    <3>5. Behind - 1 <= b  BY <3>3
    <3> HIDE DEF a, n
    <3>4. a <= (n + 1) + b  BY <2>1, <3>1, <3>2, <3>5
    <3> QED  BY Zenon, <3>2, <3>3, <3>4
  <2>3. CASE k \notin 1..(Len(out) + 1)
    <3>1. k = Len(out') + 1  BY <1>0, <2>3
    <3>2. out' \in Seq(OutMsgs)  BY <1>0, AppendProperties
    <3>3. Count(out', k, {"ack"}) = 0 /\ Count(out', k, Replying) = 0
      BY <3>1, <3>2, CountEnd
    <3>4. PICK b \in Nat : Behind' = b  BY <2>1
    <3>5. 0 <= 0 + b  OBVIOUS
    <3> QED  BY Zenon, <3>3, <3>4, <3>5
  <2> QED  BY <2>2, <2>3
<1>7. Taken'
  <2>1. Count(out', 1, {"ack"}) = Count(out, 1, {"ack"}) /\ Count(out, 1, {"ack"}) \in Nat
    BY <1>2, <1>3
  <2>2. Count(in, 1, {"packet"}) \in Nat  BY Numbers
  <2>3. OneIf(Ends) <= OneIf(Ends')  BY DEF OneIf
  <2> QED  BY <2>1, <2>2, <2>3, Ones DEF Queues, Taken
<1>8. Once'
  <2> DEFINE n == Count(out, 1, {"exit"})
  <2>1. Count(out', 1, {"exit"}) = n + OneIf(m.t \in {"exit"}) /\ n \in Nat
    BY <1>0, <1>3, CountAppend, Numbers
  <2>2. OneIf(m.t \in {"exit"}) + OneIf(sim.pc = "ended") <= OneIf(sim'.pc = "ended")
    BY DEF OneIf
  <2>3. n + OneIf(client.st = "exited") <= OneIf(sim.pc = "ended")  BY DEF Queues, Once
  <2> HIDE DEF n
  <2>4. n + OneIf(m.t \in {"exit"}) + OneIf(client.st = "exited") <= OneIf(sim'.pc = "ended")
    BY <2>1, <2>2, <2>3, Ones
  <2> QED  BY <2>1, <2>4 DEF Once
<1> QED  BY <1>1, <1>4, <1>5, <1>6, <1>7, <1>8 DEF Queues

\* what remains of a session that the client has left
LEMMA Abandoned ==
  ASSUME Types, Queues, Types', closed', Len(in') <= Len(in)
  PROVE  Queues'
BY DEF Queues, Types

LEMMA SimQueues ==
  ASSUME Types, Types', Queues, Sim, UNCHANGED client
  PROVE  Queues'
<1>1. UNCHANGED <<srv, in, closed>>  BY DEF Sim, SimCopy, SimRun, SimReport, SimSend
<1>2. CASE closed  BY <1>1, <1>2, Abandoned DEF Types
<1>3. CASE ~closed
  <2>0. ~closed' /\ Sane  BY <1>1, <1>3 DEF Queues
  <2>1. (Serves' <=> Serves) /\ (LetsGo' <=> LetsGo) /\ srv' = srv
    BY <1>1 DEF Serves, LetsGo
  <2>2. OneIf(Serves') = OneIf(Serves) /\ OneIf(LetsGo') = OneIf(LetsGo)
        /\ OneIf(srv'.pc = "signal") = OneIf(srv.pc = "signal")
    BY <2>1 DEF OneIf
  <2>3. /\ mode' = mode \/ mode' = "halted"
        /\ sim'.pc = "report" /\ sim'.res # "ok" => sim'.copied # "halted"
    BY <2>0 DEF Sim, SimCopy, SimRun, SimReport, SimSend, Types, Sims, SimPlaces, Sane
  <2>4. Sane'
    BY <1>1, <2>0, <2>1, <2>3 DEF Sane, InSane, Leaving
  <2>5. CASE SimCopy
    <3>1. sim.pc = "top" /\ sim'.pc = "run" /\ sim'.copied = mode /\ UNCHANGED <<mode, out>>
      BY <2>5 DEF SimCopy, Types, Sims
    <3>2. (Executes' <=> Executes) /\ ~Ends
      BY <3>1 DEF Executes, Ends
    <3>3. InHand' = InHand /\ Behind' = Behind
      BY <2>2, <3>1, <3>2 DEF InHand, Behind, OneIf
    <3> QED  BY <1>1, <1>3, <2>0, <2>4, <3>1, <3>2, <3>3, HandNumbers, Unqueued
  <2>6. CASE SimRun
    <3>1. sim.pc = "run" /\ sim'.pc = "report" /\ sim'.copied = sim.copied /\ UNCHANGED <<mode, out>>
      BY <2>6 DEF SimRun, Types, Sims
    <3>2. (Executes' <=> Executes) /\ ~Ends
      BY <3>1 DEF Executes, Ends
    <3>3. InHand' = InHand /\ Behind' = Behind
      BY <2>2, <3>1, <3>2 DEF InHand, Behind, OneIf
    <3> QED  BY <1>1, <1>3, <2>0, <2>4, <3>1, <3>2, <3>3, HandNumbers, Unqueued
  <2>7. CASE SimReport
    <3>1. /\ sim.pc = "report" /\ sim'.copied = sim.copied /\ sim'.res = sim.res /\ UNCHANGED out
          /\ sim'.pc \in {"top", "send", "ended"} /\ ~Ends
      BY <2>7 DEF SimReport, Types, Sims, Ends
    <3>2. CASE sim'.pc # "send"
      <4>1. mode' = mode  BY <2>7, <3>1, <3>2 DEF SimReport, Types, Sims
      <4>2. Executes' => Executes  BY <3>1, <4>1 DEF Executes, Ends
      <4>3. InHand' <= InHand /\ Behind' = Behind
        BY <2>2, <3>1, <3>2, <4>1, <4>2 DEF InHand, Behind, OneIf
      <4> QED  BY <1>1, <1>3, <2>0, <2>4, <3>1, <4>3, HandNumbers, Unqueued
    <3>3. CASE sim'.pc = "send"
      <4>1. sim.copied # "killed" /\ (StopsHere \/ sim.res = "exit")
        BY <2>7, <3>1, <3>3 DEF SimReport, Types, Sims
      <4>2. sim.copied \in Goings
        BY <2>0, <3>1, <4>1 DEF StopsHere, Sane, Goings, Types, Sims, Modes
      <4>3. Executes  BY <3>1, <4>2 DEF Executes
      <4>4. ~Executes'
        <5>1. CASE StopsHere
          <6>1. mode' = "halted"  BY <2>7, <4>1, <5>1 DEF SimReport
          <6> QED  BY <3>3, <6>1 DEF Executes, Goings
        <5>2. CASE sim.res = "exit"
          <6>1. Ends'  BY <3>1, <3>3, <5>2 DEF Ends
          <6> QED  BY <6>1 DEF Executes
        <5> QED  BY <4>1, <5>1, <5>2
      <4>5. InHand' = InHand
        BY <2>2, <3>1, <3>3, <4>3, <4>4 DEF InHand, OneIf
      <4>6. Behind <= Behind'
        BY <2>2, <3>1, <3>3, Ones DEF Behind, OneIf
      <4> QED  BY <1>1, <1>3, <2>0, <2>4, <3>1, <4>5, <4>6, HandNumbers, Unqueued
    <3> QED  BY <3>2, <3>3
  <2>8. CASE SimSend
    <3> DEFINE m == Msg(IF sim.res = "exit" THEN "exit" ELSE "stop")
    <3>1. /\ sim.pc = "send" /\ sim'.res = sim.res /\ mode' = mode /\ out' = Append(out, m)
          /\ sim'.pc = IF sim.res = "exit" \/ ~open THEN "ended" ELSE "top"
      BY <1>3, <2>8 DEF SimSend, Sent, Types, Sims
    <3>2. m \in OutMsgs /\ m.t \in Replying  BY Messages DEF Msg, Replying
    <3>3. (Ends => Ends') /\ (Executes' => Executes)
      BY <3>1 DEF Ends, Executes
    <3>4. InHand' < InHand /\ Behind - 1 <= Behind'
      BY <2>2, <3>1, <3>3 DEF InHand, Behind, OneIf
    <3>5. Sent(m) /\ (m.t = "exit" => sim.pc # "ended" /\ sim'.pc = "ended")
      BY <1>3, <2>8, <3>1 DEF SimSend, m, Msg
    <3>6. UNCHANGED <<in, client>> /\ sim.pc # "ended"  BY <1>1, <3>1
    <3> HIDE DEF m
    <3> QED  BY <1>3, <2>0, <2>4, <3>2, <3>3, <3>4, <3>5, <3>6, Replied
  <2> QED  BY <2>5, <2>6, <2>7, <2>8 DEF Sim
<1> QED  BY <1>2, <1>3

LEMMA CountLess ==
  ASSUME NEW S, NEW s \in Seq(S), NEW k \in Nat, NEW l \in Nat, k <= l, NEW T
  PROVE  Count(s, l, T) <= Count(s, k, T)
<1>1. IsFiniteSet(Places(s, k, T))  BY CountType
<1>2. Len(s) \in Nat  OBVIOUS
<1>3. Places(s, l, T) \subseteq Places(s, k, T)  BY <1>2 DEF Places
<1> QED  BY <1>1, <1>3, FS_Subset DEF Count

\* the server takes the first n messages, whatever it does with the others
Dropped(n) ==
  /\ Len(in') + n = Len(in)
  /\ \A i \in 1..Len(in') : /\ in'[i].t = in[i + n].t
                            /\ in'[i].t = "packet" => in'[i].cmd = in[i + n].cmd

LEMMA Rest ==
  ASSUME Types, Types', NEW n \in Nat, Dropped(n)
  PROVE  /\ \A k \in Nat \ {0} : \A T : Count(in', k, T) = Count(in, k + n, T)
         /\ \A T : Count(in', 1, T) <= Count(in, 1, T)
         /\ Len(in') <= Len(in)
<1>1. in \in Seq(InMsgs) /\ in' \in Seq(InMsgs)  BY DEF Types
<1>2. Len(in') + n = Len(in) /\ \A i \in 1..Len(in') : in'[i].t = in[i + n].t
  BY DEF Dropped
<1>3. ASSUME NEW k \in Nat \ {0}, NEW T
      PROVE  Count(in', k, T) = Count(in, k + n, T)
  BY <1>1, <1>2, CountRest
<1>4. ASSUME NEW T
      PROVE  Count(in', 1, T) <= Count(in, 1, T)
  <2>1. Count(in', 1, T) = Count(in, 1 + n, T)  BY <1>3
  <2>2. 1 \in Nat /\ 1 + n \in Nat /\ 1 <= 1 + n  OBVIOUS
  <2>3. Count(in, 1 + n, T) <= Count(in, 1, T)  BY Zenon, <1>1, <2>2, CountLess
  <2> QED  BY <2>1, <2>3
<1>5. Len(in') <= Len(in)
  <2>1. Len(in') \in Nat /\ Len(in) \in Nat  BY <1>1, LenProperties
  <2> QED  BY <1>2, <2>1
<1> QED  BY <1>3, <1>4, <1>5

LEMMA RestOrder ==
  ASSUME Types, Types', NEW n \in Nat, Dropped(n), InOrder, UNCHANGED client
  PROVE  InOrder'
<1>1. Len(in') + n = Len(in) /\ Len(in') \in Nat /\ Len(in) \in Nat
  BY LenProperties DEF Types, Dropped
<1> SUFFICES ASSUME NEW k \in 1..(Len(in') + 1)
             PROVE  Count(in', k, {"ack"}) <= Count(in', k, {"packet"}) + Ahead
  BY DEF InOrder, Ahead
<1>2. k \in Nat \ {0} /\ k + n \in 1..(Len(in) + 1)  BY <1>1
<1>3. Count(in, k + n, {"ack"}) <= Count(in, k + n, {"packet"}) + Ahead
  BY <1>2 DEF InOrder
<1>4. /\ Count(in', k, {"ack"}) = Count(in, k + n, {"ack"})
      /\ Count(in', k, {"packet"}) = Count(in, k + n, {"packet"})
  BY <1>2, Rest
<1> QED  BY <1>3, <1>4

LEMMA RestSane ==
  ASSUME Types, Types', NEW n \in Nat, Dropped(n), InSane
  PROVE  InSane' /\ (Leaving' => \E i \in (n + 1)..Len(in) : Leaves(in[i]))
<1>1. Len(in') + n = Len(in) /\ Len(in') \in Nat /\ Len(in) \in Nat
  BY LenProperties DEF Types, Dropped
<1>2. ASSUME NEW i \in 1..Len(in')
      PROVE  /\ i + n \in (n + 1)..Len(in) /\ i + n \in 1..Len(in)
             /\ in'[i].t = in[i + n].t
             /\ in'[i].t = "packet" => in'[i].cmd = in[i + n].cmd
  BY <1>1 DEF Dropped
<1>3. \A i \in 1..Len(in') : Leaves(in'[i]) => Leaves(in[i + n])  BY <1>2 DEF Leaves
<1>4. \A i \in 1..Len(in') : in'[i].t = "packet" => in'[i].cmd # "kill"
  BY <1>2 DEF InSane
<1>5. ASSUME NEW i \in 1..Len(in'), NEW j \in 1..Len(in'), i < j, Leaves(in'[i])
      PROVE  in'[j].t # "packet"
  <2>1. i + n < j + n /\ Leaves(in[i + n])  BY <1>3, <1>5
  <2>2. i + n \in 1..Len(in) /\ j + n \in 1..Len(in) /\ in'[j].t = in[j + n].t  BY <1>2
  <2> HIDE DEF Leaves
  <2> QED  BY <2>1, <2>2 DEF InSane
<1>6. Leaving' => \E i \in (n + 1)..Len(in) : Leaves(in[i])
  BY <1>2, <1>3 DEF Leaving
<1> QED  BY <1>4, <1>5, <1>6 DEF InSane, Leaves

\* what goes out of the hands of the client is in those of the server
Asks == Count(in, 1, {"packet"}) + OneIf(Leaving) + Count(in, 1, {"intr"})

LEMMA AsksNumber ==
  ASSUME Types
  PROVE  /\ Asks \in Nat /\ Count(in, 1, {"packet"}) \in Nat /\ Count(in, 1, {"intr"}) \in Nat
         /\ Count(in, 1, {"packet"}) + Count(in, 1, {"intr"}) <= Asks
         /\ Owed = Asks + Count(out, 1, Replying) + InHand + OneIf(~client.intr)
         /\ Count(out, 1, Replying) \in Nat /\ Owed \in Nat
<1>1. /\ Count(in, 1, {"packet"}) \in Nat /\ Count(in, 1, {"intr"}) \in Nat
      /\ Count(out, 1, Replying) \in Nat
  BY Numbers
<1>2. OneIf(Leaving) \in {0, 1} /\ OneIf(~client.intr) \in {0, 1} /\ InHand \in Nat
  BY Ones, HandNumbers
<1> QED  BY <1>1, <1>2 DEF Asks, Owed

LEMMA AsksNumber1 ==
  ASSUME Types'
  PROVE  /\ Asks' \in Nat /\ Count(in', 1, {"packet"}) \in Nat /\ Count(in', 1, {"intr"}) \in Nat
         /\ Owed' = Asks' + Count(out', 1, Replying) + InHand' + OneIf(~client'.intr)
         /\ Count(out', 1, Replying) \in Nat /\ Owed' \in Nat
<1>1. /\ Count(in', 1, {"packet"}) \in Nat /\ Count(in', 1, {"intr"}) \in Nat
      /\ Count(out', 1, Replying) \in Nat
  BY CountType DEF Types
<1>2. OneIf(Leaving') \in {0, 1} /\ OneIf(~client'.intr) \in {0, 1} /\ InHand' \in Nat
  BY Ones, HandNumbers
<1>3. PICK h \in Nat : InHand' = h  BY <1>2
<1>4. Asks' = Count(in', 1, {"packet"}) + OneIf(Leaving') + Count(in', 1, {"intr"})
  BY DEF Asks
<1>5. Owed' = Count(in', 1, {"packet"}) + OneIf(Leaving') + Count(in', 1, {"intr"})
              + Count(out', 1, Replying) + h + OneIf(~client'.intr)
  BY <1>3 DEF Owed
<1>6. Owed' = Asks' + Count(out', 1, Replying) + h + OneIf(~client'.intr) /\ Asks' \in Nat
  BY <1>1, <1>2, <1>4, <1>5
<1> QED  BY <1>1, <1>2, <1>3, <1>6

LEMMA FewKept ==
  ASSUME Types, Types', Few, UNCHANGED client,
         NEW a \in Nat, NEW h \in Nat, NEW d \in Int, Asks' = a, InHand' = h,
         a <= Asks - d, h <= InHand + d,
         Count(out', 1, Replying) <= Count(out, 1, Replying),
         Count(in', 1, {"packet"}) <= Count(in, 1, {"packet"}),
         Count(in', 1, {"intr"}) <= Count(in, 1, {"intr"})
  PROVE  Few'
<1> DEFINE n == Count(out, 1, Replying)
           n1 == Count(out', 1, Replying)
           p == Count(in, 1, {"packet"})
           p1 == Count(in', 1, {"packet"})
           j == Count(in, 1, {"intr"})
           j1 == Count(in', 1, {"intr"})
           z == OneIf(~client.intr)
<1>1. /\ Asks \in Nat /\ n \in Nat /\ p \in Nat /\ j \in Nat
      /\ Owed = Asks + n + InHand + z
  BY AsksNumber
<1>2. /\ n1 \in Nat /\ p1 \in Nat /\ j1 \in Nat
      /\ Owed' = a + n1 + h + z
  BY AsksNumber1
<1>3. n1 <= n /\ p1 <= p /\ j1 <= j /\ z \in Nat /\ InHand \in Nat  BY Ones, HandNumbers
<1>4. p <= 2 /\ j + z <= 1  BY DEF Few
<1> DEFINE q == Owed
           q1 == a + n1 + h + z
           most == 1 + OneIf(client.st \in {"asking", "waiting", "confused"})
                     + OneIf(client.cmd = "detach")
<1>6. most \in Nat  BY Ones
<1>7. q <= most  BY DEF Few
<1> HIDE DEF n, n1, p, p1, j, j1, z, most
<1>8. q1 <= most /\ p1 <= 2 /\ j1 + z <= 1  BY <1>1, <1>2, <1>3, <1>4, <1>6, <1>7
<1>9. Few' = /\ Owed' <= most
             /\ p1 <= 2 /\ j1 + z <= 1
  BY DEF Few, p1, j1, z, most
<1> QED  BY <1>2, <1>8, <1>9

\* the server looks for an interrupt: at most one message is gone
LEMMA Dropping ==
  ASSUME Types, Types', Queues, ~closed, ~closed', UNCHANGED <<sim, out, client>>,
         NEW n \in Nat, Dropped(n),
         NEW a \in Nat, NEW h \in Nat, NEW d \in Int, Asks' = a, InHand' = h,
         a <= Asks - d, h <= InHand + d, Behind <= Behind', Sane'
  PROVE  Queues'
<1>1. Len(in') <= 6
  <2>1. Len(in') <= Len(in) /\ Len(in') \in Nat /\ Len(in) \in Nat
    BY Rest, LenProperties DEF Types
  <2> QED  BY <2>1 DEF Queues
<1>2. Count(in', 1, {"packet"}) <= Count(in, 1, {"packet"})
      /\ Count(in', 1, {"intr"}) <= Count(in, 1, {"intr"})
  BY Rest
<1>3. Few'
  <2>1. Count(out', 1, Replying) <= Count(out, 1, Replying)  BY Numbers
  <2> QED  BY <1>2, <2>1, FewKept DEF Queues
<1>4. InOrder'  BY RestOrder DEF Queues
<1>5. OutOrder'
  <2>1. \A k \in 1..(Len(out) + 1) :
          Count(out, k, {"ack"}) \in Nat /\ Count(out, k, Replying) \in Nat
    BY Numbers
  <2>2. Behind \in Nat /\ Behind' \in Nat /\ OutOrder  BY HandNumbers DEF Queues
  <2> SUFFICES ASSUME NEW k \in 1..(Len(out) + 1)
               PROVE  Count(out, k, {"ack"}) <= Count(out, k, Replying) + Behind'
    BY DEF OutOrder
  <2>3. Count(out, k, {"ack"}) <= Count(out, k, Replying) + Behind  BY <2>2 DEF OutOrder
  <2> QED  BY <2>1, <2>2, <2>3
<1>6. Taken'
  <2> DEFINE p == Count(in, 1, {"packet"})
             p1 == Count(in', 1, {"packet"})
             s == Count(out, 1, {"ack"})
  <2>1. p \in Nat /\ s \in Nat  BY Numbers
  <2>2. p1 \in Nat /\ p1 <= p  BY <1>2, AsksNumber1
  <2>3. s + p <= 1 + OneIf(client.st # "stopped") + OneIf(Ends)  BY DEF Queues, Taken
  <2>4. OneIf(client.st # "stopped") \in Nat /\ OneIf(Ends) \in Nat  BY Ones
  <2> HIDE DEF p, p1, s
  <2>5. s + p1 <= 1 + OneIf(client.st # "stopped") + OneIf(Ends)  BY <2>1, <2>2, <2>3, <2>4
  <2> QED  BY <2>5 DEF Taken, Ends, p1, s
<1>7. Once'  BY DEF Queues, Once
<1> QED  BY <1>1, <1>3, <1>4, <1>5, <1>6, <1>7 DEF Queues

LEMMA ServerRest ==
  ASSUME Types, Srv
  PROVE  closed' = closed /\ Len(in') <= Len(in)
<1> USE DEF At, Goes
<1>0. Len(in) \in Nat  BY LenProperties DEF Types
<1>1. CASE CheckSignals
  <2>1. CASE in = <<>>  BY <1>0, <1>1, <2>1 DEF CheckSignals
  <2>2. CASE in # <<>>
    <3> DEFINE m == [Head(in) EXCEPT !.cut = TRUE]
               r == <<m>>
               S == InMsgs \cup {m}
    <3>1. Tail(in) \in Seq(InMsgs) /\ Len(Tail(in)) = Len(in) - 1
      BY <2>2, HeadTailProperties DEF Types
    <3>2. r \in Seq(S) /\ Len(r) = 1  OBVIOUS
    <3>5. InMsgs \subseteq S  OBVIOUS
    <3> HIDE DEF r, S
    <3>6. Tail(in) \in Seq(S)  BY <3>1, <3>5
    <3>7. Len(r \o Tail(in)) = Len(r) + Len(Tail(in))  BY Zenon, <3>2, <3>6, ConcatProperties
    <3>3. Len(r \o Tail(in)) = Len(in)  BY <1>0, <3>1, <3>2, <3>7
    <3>4. in' \in {in, Tail(in), r \o Tail(in)}  BY <1>1, <2>2 DEF CheckSignals, r
    <3> QED  BY <1>0, <1>1, <3>1, <3>3, <3>4 DEF CheckSignals
  <2> QED  BY <2>1, <2>2
<1>2. CASE Recv
  <2>1. FirstPacket \in 1..Len(in)  BY <1>2, FirstPacketFound DEF Types, Recv
  <2>2. \A i \in 1..Len(in) : in[i] \in InMsgs  BY ElementOfSeq DEF Types
  <2>3. Len(SubSeq(in, FirstPacket + 1, Len(in))) <= Len(in)
    BY <1>0, <2>1, <2>2, SubSeqProperties
  <2> QED  BY <1>2, <2>3 DEF Recv
<1>3. CASE ~CheckSignals /\ ~Recv
  <2>1. UNCHANGED <<closed, in>>
    BY <1>3 DEF Srv, Listen, Signal, LeaveCommands, Lost, Resume, Detach, Kill, Points,
                Simple, StartMem, MemChunk, MemFail, Reply
  <2> QED  BY <1>0, <2>1
<1> QED  BY <1>1, <1>2, <1>3

LEMMA SaneKept ==
  ASSUME Sane, UNCHANGED <<sim, client>>, srv'.pc # "handle", InSane', Leaving' => Leaving
  PROVE  Sane'
BY DEF Sane, LetsGo

LEMMA InAlone ==
  ASSUME UNCHANGED in, Sane
  PROVE  InSane' /\ (Leaving' <=> Leaving)
BY DEF Sane, InSane, Leaving

\* the server goes on without the connection
LEMMA ServerAlone ==
  ASSUME Types, Types', Queues, Srv, UNCHANGED <<in, out, client>>, ~closed,
         ~CheckSignals, ~Signal, ~Recv, ~Reply
  PROVE  Queues'
<1> USE DEF At, Goes
<1>1. Sane /\ srv \in Srvs /\ ~closed'  BY ServerRest DEF Queues, Types
<1>2. InSane' /\ (Leaving' <=> Leaving)  BY <1>1, InAlone
<1>3. ~Lost /\ ~Kill  BY <1>1 DEF Lost, Kill, Sane
<1>4. UNCHANGED sim /\ srv'.pc # "handle"
  BY <1>1, <1>3 DEF Srv, Listen, LeaveCommands, Resume, Detach, Points, Simple,
                    StartMem, MemChunk, MemFail, Srvs
<1>5. Sane'  BY <1>1, <1>2, <1>4, SaneKept
<1>6. ASSUME InHand' <= InHand, Behind <= Behind'
      PROVE  Queues'
  <2>1. Ends => Ends'  BY <1>4 DEF Ends
  <2> QED  BY <1>1, <1>4, <1>5, <1>6, <2>1, Unqueued
<1>7. CASE Listen \/ LeaveCommands
  <2>1. mode' = mode /\ ~Serves /\ ~Serves' /\ ~LetsGo /\ ~LetsGo' /\ srv.pc # "signal"
        /\ srv'.pc # "signal"
    BY <1>1, <1>7 DEF Listen, LeaveCommands, Serves, LetsGo, Srvs
  <2>2. Executes' <=> Executes  BY <1>4, <2>1 DEF Executes, Ends
  <2>3. InHand' <= InHand /\ Behind <= Behind'
    BY <1>4, <2>1, <2>2 DEF InHand, Behind, OneIf
  <2> QED  BY <1>6, <2>3
<1>8. CASE Resume
  <2>1. Serves /\ ~Serves' /\ ~LetsGo /\ ~LetsGo' /\ srv.pc # "signal" /\ srv'.pc # "signal"
        /\ mode = "halted" /\ mode' \in Goings
    BY <1>1, <1>8 DEF Resume, Serves, LetsGo, Srvs, Sane, Goings
  <2>2. InHand' <= InHand /\ Behind <= Behind'
    BY <1>4, <2>1 DEF InHand, Behind, OneIf, Goings
  <2> QED  BY <1>6, <2>2
<1>9. CASE Detach
  <2>1. Serves /\ Serves' /\ LetsGo /\ ~LetsGo' /\ srv.pc # "signal" /\ srv'.pc # "signal"
        /\ mode = "halted" /\ mode' \in Goings
    BY <1>1, <1>9 DEF Detach, Serves, LetsGo, Srvs, Sane, Goings
  <2>2. InHand' <= InHand /\ Behind <= Behind'
    BY <1>4, <2>1 DEF InHand, Behind, OneIf, Goings
  <2> QED  BY <1>6, <2>2
<1>10. CASE Points \/ Simple \/ StartMem \/ MemChunk \/ MemFail
  <2>1. mode' = mode /\ Serves /\ Serves' /\ ~LetsGo /\ ~LetsGo' /\ srv.pc # "signal"
        /\ srv'.pc # "signal"
    BY <1>1, <1>10 DEF Points, Simple, StartMem, MemChunk, MemFail, Serves, LetsGo, Srvs
  <2>2. Executes' <=> Executes  BY <1>4, <2>1 DEF Executes, Ends
  <2>3. InHand' <= InHand /\ Behind <= Behind'
    BY <1>4, <2>1, <2>2 DEF InHand, Behind, OneIf
  <2> QED  BY <1>6, <2>3
<1> QED  BY <1>3, <1>7, <1>8, <1>9, <1>10 DEF Srv

\* it sends a reply
LEMMA ServerReplies ==
  ASSUME Types, Types', Queues, Signal \/ Reply, UNCHANGED client, ~closed
  PROVE  Queues'
<1> USE DEF At, Goes
<1>1. Sane /\ srv \in Srvs /\ UNCHANGED <<mode, sim, in, closed>>
  BY DEF Queues, Types, Signal, Reply
<1>2. InSane' /\ (Leaving' <=> Leaving)  BY <1>1, InAlone
<1>3. srv'.pc # "handle" /\ sim.pc # "ended"  BY <1>1 DEF Signal, Reply, Srvs, Alive
<1>4. Sane'  BY <1>1, <1>2, <1>3, SaneKept
<1>5. (Executes' <=> Executes) /\ (Ends => Ends')  BY <1>1 DEF Executes, Ends
<1>6. CASE Signal
  <2>1. ~Serves /\ ~Serves' /\ ~LetsGo /\ ~LetsGo' /\ srv.pc = "signal" /\ srv'.pc # "signal"
    BY <1>1, <1>6 DEF Signal, Serves, LetsGo, Srvs
  <2>2. InHand' < InHand /\ Behind - 1 <= Behind'
    BY <1>1, <1>5, <2>1 DEF InHand, Behind, OneIf
  <2> DEFINE m == Msg("stop")
  <2>3. m \in OutMsgs /\ m.t \in Replying /\ Sent(m) /\ m.t # "exit"
    BY <1>6, Messages DEF Signal, Msg, Replying
  <2> HIDE DEF m
  <2> QED  BY <1>1, <1>3, <1>4, <1>5, <2>2, <2>3, Replied
<1>7. CASE Reply
  <2>1. Serves /\ ~Serves' /\ ~LetsGo /\ ~LetsGo' /\ srv.pc # "signal" /\ srv'.pc # "signal"
    BY <1>1, <1>7 DEF Reply, Serves, LetsGo, Srvs
  <2>2. InHand' < InHand /\ Behind - 1 <= Behind'
    BY <1>1, <1>5, <2>1 DEF InHand, Behind, OneIf
  <2> DEFINE m == IF srv.pc = "ok" THEN Msg("ok") ELSE MemReply(srv.from, srv.data)
  <2>3. m \in OutMsgs /\ m.t \in Replying /\ Sent(m) /\ m.t # "exit"
    <3>1. MemReply(srv.from, srv.data) \in OutMsgs  BY <1>1 DEF MemReply, OutMsgs, Srvs
    <3>2. m \in OutMsgs  BY <3>1, Messages
    <3>3. m.t \in {"ok", "mem"}  BY DEF Msg, MemReply
    <3> QED  BY <1>7, <3>2, <3>3 DEF Reply, Replying
  <2> HIDE DEF m
  <2> QED  BY <1>1, <1>3, <1>4, <1>5, <2>2, <2>3, Replied
<1> QED  BY <1>6, <1>7

\* what is taken from the connection
LEMMA AsksLess ==
  ASSUME Types, Types', NEW n \in Nat, Dropped(n), InSane
  PROVE  /\ Asks' <= Asks
         /\ n = 1 /\ in[1].t = "intr" => Asks' <= Asks - 1
         /\ n > 0 /\ in[n].t = "packet" =>
              /\ Asks' <= Asks - (1 + OneIf(in[n].cmd = "detach"))
              /\ Count(in', 1, {"packet"}) < Count(in, 1, {"packet"})
<1> DEFINE p == Count(in, 1, {"packet"})
           p1 == Count(in', 1, {"packet"})
           j == Count(in, 1, {"intr"})
           j1 == Count(in', 1, {"intr"})
<1>1. p \in Nat /\ j \in Nat /\ p1 \in Nat /\ j1 \in Nat
  BY AsksNumber, AsksNumber1
<1>2. p1 <= p /\ j1 <= j  BY Rest
<1>3. /\ Asks = p + OneIf(Leaving) + j
      /\ Asks' = p1 + OneIf(Leaving') + j1
  BY DEF Asks
<1>4. Leaving' => \E i \in (n + 1)..Len(in) : Leaves(in[i])  BY RestSane
<1>5. Len(in') + n = Len(in) /\ Len(in') \in Nat /\ Len(in) \in Nat
  BY LenProperties DEF Types, Dropped
<1>6. Leaving' => Leaving
  <2>1. \A i \in (n + 1)..Len(in) : i \in 1..Len(in)  BY <1>5
  <2> QED  BY <1>4, <2>1 DEF Leaving
<1>7. OneIf(Leaving') <= OneIf(Leaving) /\ OneIf(Leaving') \in Nat /\ OneIf(Leaving) \in Nat
  BY <1>6 DEF OneIf
<1>8. in \in Seq(InMsgs)  BY DEF Types
<1> HIDE DEF p, p1, j, j1
<1>9. Asks' <= Asks  BY <1>1, <1>2, <1>3, <1>7
<1>10. ASSUME n = 1, in[1].t = "intr"  PROVE Asks' <= Asks - 1
  <2>1. 1 \in 1..Len(in) /\ 1 + 1 \in Nat  BY <1>5, <1>10
  <2>2. Count(in, 1, {"intr"}) = Count(in, 1 + 1, {"intr"}) + OneIf(in[1].t \in {"intr"})
    BY <1>8, <2>1, CountNext
  <2>3. Count(in', 1, {"intr"}) = Count(in, 1 + 1, {"intr"})  BY <1>10, Rest
  <2>4. OneIf(in[1].t \in {"intr"}) = 1  BY <1>10, Ones
  <2>5. Count(in, 1 + 1, {"intr"}) \in Nat  BY <2>1, Numbers
  <2>6. j = j1 + 1  BY <2>2, <2>3, <2>4, <2>5 DEF j, j1
  <2> QED  BY <1>1, <1>2, <1>3, <1>7, <2>6
<1>11. ASSUME n > 0, in[n].t = "packet"
       PROVE  /\ Asks' <= Asks - (1 + OneIf(in[n].cmd = "detach"))
              /\ p1 < p
  <2>1. n \in 1..Len(in) /\ 1 + n \in Nat /\ 1 \in Nat /\ 1 <= n /\ 1 + n = n + 1
    BY <1>5, <1>11
  <2>2. Count(in, n, {"packet"}) = Count(in, n + 1, {"packet"})
                                   + OneIf(in[n].t \in {"packet"})
    BY <1>8, <2>1, CountNext
  <2>3. p1 = Count(in, n + 1, {"packet"})
    <3>1. p1 = Count(in, 1 + n, {"packet"})  BY Rest DEF p1
    <3> QED  BY <2>1, <3>1
  <2>4. OneIf(in[n].t \in {"packet"}) = 1  BY <1>11, Ones
  <2>5. Count(in, n, {"packet"}) = p1 + 1  BY <2>2, <2>3, <2>4
  <2>6. Count(in, n, {"packet"}) <= p  BY Zenon, <1>8, <2>1, CountLess DEF p
  <2>7. p1 + 1 <= p  BY <2>5, <2>6
  <2>8. OneIf(Leaving') + OneIf(in[n].cmd = "detach") <= OneIf(Leaving)
    <3>1. CASE in[n].cmd = "detach"
      <4>1. Leaves(in[n])  BY <1>11, <3>1 DEF Leaves
      <4>2. Leaving  BY <2>1, <4>1 DEF Leaving
      <4>3. ~Leaving'
        <5> SUFFICES ASSUME Leaving'  PROVE FALSE  OBVIOUS
        <5>1. PICK i \in (n + 1)..Len(in) : Leaves(in[i])  BY <1>4
        <5>2. i \in 1..Len(in) /\ n < i  BY <1>5, <2>1
        <5>3. in[i].t # "packet"  BY <2>1, <4>1, <5>2 DEF InSane
        <5> QED  BY <5>1, <5>3 DEF Leaves
      <4> QED  BY <3>1, <4>2, <4>3 DEF OneIf
    <3>2. CASE in[n].cmd # "detach"  BY <1>7, <3>2 DEF OneIf
    <3> QED  BY <3>1, <3>2
  <2>9. OneIf(in[n].cmd = "detach") \in Nat  BY Ones
  <2> QED  BY <1>1, <1>2, <1>3, <1>7, <2>7, <2>8, <2>9
<1> QED  BY <1>9, <1>10, <1>11 DEF p, p1

LEMMA OneDropped ==
  ASSUME Types, in # <<>>, in' = Tail(in)
  PROVE  Dropped(1) /\ in[1] = Head(in)
<1>1. in \in Seq(InMsgs)  BY DEF Types
<1>2. Len(in') + 1 = Len(in) /\ \A i \in 1..Len(in') : in'[i] = in[i + 1]
  BY <1>1, HeadTailProperties
<1> QED  BY <1>2 DEF Dropped

LEMMA OneCut ==
  ASSUME Types, in # <<>>, Head(in).t = "packet",
         in' = <<[Head(in) EXCEPT !.cut = TRUE]>> \o Tail(in)
  PROVE  Dropped(0)
<1> DEFINE m == [Head(in) EXCEPT !.cut = TRUE]
<1>1. /\ in \in Seq(InMsgs) /\ Tail(in) \in Seq(InMsgs) /\ Head(in) \in InMsgs
      /\ in[1] = Head(in) /\ Len(Tail(in)) = Len(in) - 1 /\ Len(in) \in Nat \ {0}
      /\ \A i \in 1..Len(Tail(in)) : Tail(in)[i] = in[i + 1]
  BY HeadTailProperties DEF Types
<1>2. Head(in) \in Requests  BY <1>1 DEF InMsgs
<1>3. m.t = Head(in).t /\ m.cmd = Head(in).cmd /\ m \in InMsgs
  BY <1>2 DEF Requests, InMsgs
<1> HIDE DEF m
<1>4. <<m>> \in Seq(InMsgs) /\ Len(<<m>>) = 1 /\ <<m>>[1] = m  BY <1>3
<1>5. /\ Len(in') = Len(in)
      /\ \A i \in 1..Len(in') : in'[i] = IF i <= 1 THEN <<m>>[i] ELSE Tail(in)[i - 1]
  BY <1>1, <1>4, ConcatProperties DEF m
<1>6. ASSUME NEW i \in 1..Len(in')
      PROVE  in'[i].t = in[i].t /\ in'[i].cmd = in[i].cmd
  <2>1. CASE i = 1
    <3>1. 1 <= 1 /\ 1 \in 1..Len(in')  BY <2>1
    <3>2. in'[1] = m  BY <1>4, <1>5, <3>1
    <3> QED  BY <1>1, <1>3, <2>1, <3>2
  <2>2. CASE i # 1
    <3>1. i - 1 \in 1..Len(Tail(in)) /\ (i - 1) + 1 = i  BY <1>1, <1>5, <2>2
    <3>2. in'[i] = Tail(in)[i - 1]  BY <1>5, <2>2
    <3>3. Tail(in)[i - 1] = in[(i - 1) + 1]  BY <1>1, <3>1
    <3> QED  BY <3>1, <3>2, <3>3
  <2> QED  BY <2>1, <2>2
<1>7. Len(in') + 0 = Len(in) /\ \A i \in 1..Len(in') : i + 0 = i  BY <1>1, <1>5
<1> QED  BY <1>6, <1>7 DEF Dropped

LEMMA ServerLooks ==
  ASSUME Types, Types', Queues, CheckSignals, UNCHANGED client, ~closed
  PROVE  Queues'
<1> USE DEF At, Goes
<1>1. /\ Sane /\ srv \in Srvs /\ srv.pc = "check" /\ UNCHANGED <<sim, out, client, closed>>
      /\ srv'.pc \in {"listen", "signal"}
  BY DEF Queues, Types, CheckSignals, Srvs
<1>2. (Ends => Ends') /\ InSane  BY <1>1 DEF Ends, Sane
<1>3. ~Serves /\ ~Serves' /\ ~LetsGo /\ ~LetsGo'  BY <1>1 DEF Serves, LetsGo
<1>4. ASSUME srv'.pc = "listen", mode' = mode
      PROVE  InHand' = InHand /\ Behind <= Behind'
  <2>1. Executes' <=> Executes  BY <1>1, <1>4 DEF Executes, Ends
  <2> QED  BY <1>1, <1>3, <1>4, <2>1 DEF InHand, Behind, OneIf
<1>5. ASSUME NEW n \in Nat, Dropped(n)
      PROVE  Sane'
  <2>1. InSane' /\ (Leaving' => \E i \in (n + 1)..Len(in) : Leaves(in[i]))
    BY <1>2, <1>5, RestSane
  <2>2. \A i \in (n + 1)..Len(in) : i \in 1..Len(in)
    BY LenProperties DEF Types
  <2>3. Leaving' => Leaving  BY <2>1, <2>2 DEF Leaving
  <2> QED  BY <1>1, <2>1, <2>3, SaneKept
<1>6. ASSUME NEW n \in Nat, Dropped(n), srv'.pc = "listen", mode' = mode
      PROVE  Queues'
  <2>1. PICK a \in Nat : Asks' = a  BY AsksNumber1
  <2>2. PICK h \in Nat : InHand' = h  BY HandNumbers
  <2>3. h = InHand /\ Behind <= Behind'  BY Zenon, <1>4, <1>6, <2>2
  <2>4. Asks' <= Asks  BY <1>2, <1>6, AsksLess
  <2>5. a <= Asks - 0 /\ h <= InHand + 0 /\ 0 \in Int
    BY <2>1, <2>2, <2>3, <2>4, AsksNumber
  <2> QED  BY <1>1, <1>5, <1>6, <2>1, <2>2, <2>3, <2>5, Dropping
<1>7. CASE in = <<>>
  <2>1. in' = in /\ srv'.pc = "listen" /\ mode' = mode
    BY <1>1, <1>7 DEF CheckSignals, Srvs
  <2>2. Len(in') + 0 = Len(in) /\ \A i \in 1..Len(in') : i + 0 = i
    BY <2>1, LenProperties DEF Types
  <2>3. Dropped(0)  BY <2>1, <2>2 DEF Dropped
  <2>4. 0 \in Nat  OBVIOUS
  <2> QED  BY <1>6, <2>1, <2>3, <2>4
<1>8. CASE in # <<>> /\ Head(in).t = "intr"
  <2>1. in' = Tail(in) /\ srv'.pc = "signal" /\ mode' = "halted"
    BY <1>1, <1>8 DEF CheckSignals, Srvs
  <2>2. Dropped(1) /\ in[1].t = "intr"  BY <1>8, <2>1, OneDropped
  <2>3. PICK a \in Nat : Asks' = a  BY AsksNumber1
  <2>4. PICK h \in Nat : InHand' = h  BY HandNumbers
  <2>5. Asks' <= Asks - 1  BY <1>2, <2>2, AsksLess
  <2>6. (Executes' => Executes) /\ srv.pc # "signal"
    BY <1>1, <2>1 DEF Executes, Ends, Goings
  <2>7. InHand' - 1 <= InHand /\ Behind <= Behind'
    BY <1>1, <1>3, <2>1, <2>6 DEF InHand, Behind, OneIf, Goings
  <2>8. a <= Asks - 1 /\ h <= InHand + 1 /\ 1 \in Nat /\ 1 \in Int
    <3>1. h - 1 <= InHand  BY Zenon, <2>4, <2>7
    <3>2. InHand \in Nat  BY HandNumbers
    <3> QED  BY <2>3, <2>4, <2>5, <3>1, <3>2
  <2>9. Sane'  BY <1>5, <2>2, <2>8
  <2> QED  BY <1>1, <2>2, <2>3, <2>4, <2>7, <2>8, <2>9, Dropping
<1>9. CASE in # <<>> /\ Head(in).t = "packet" /\ ~Head(in).cut
  <2>1. /\ in' = <<[Head(in) EXCEPT !.cut = TRUE]>> \o Tail(in)
        /\ srv'.pc = "listen" /\ mode' = mode
    BY <1>1, <1>9 DEF CheckSignals, Srvs
  <2>2. Dropped(0) /\ 0 \in Nat  BY <1>9, <2>1, OneCut
  <2> QED  BY <1>6, <2>1, <2>2
<1>10. CASE in # <<>> /\ Head(in).t # "intr" /\ ~(Head(in).t = "packet" /\ ~Head(in).cut)
  <2>1. in' = Tail(in) /\ srv'.pc = "listen" /\ mode' = mode
    BY <1>1, <1>10 DEF CheckSignals, Srvs
  <2>2. Dropped(1) /\ 1 \in Nat  BY <1>10, <2>1, OneDropped
  <2> QED  BY <1>6, <2>1, <2>2
<1> QED  BY <1>7, <1>8, <1>9, <1>10

LEMMA ReceivedRest ==
  ASSUME Types, Recv
  PROVE  /\ FirstPacket \in 1..Len(in) /\ in[FirstPacket].t = "packet"
         /\ Dropped(FirstPacket)
<1>1. FirstPacket \in 1..Len(in) /\ in[FirstPacket].t = "packet"
  BY FirstPacketFound DEF Types, Recv
<1>2. \A i \in 1..Len(in) : in[i] \in InMsgs  BY ElementOfSeq DEF Types
<1>3. PICK n \in 1..Len(in) : FirstPacket = n  BY <1>1
<1>4. Len(in) \in Nat /\ in' = SubSeq(in, n + 1, Len(in))  BY <1>3 DEF Types, Recv
<1>5. /\ Len(in') = (Len(in) - (n + 1)) + 1
      /\ \A i \in 1..Len(in') : in'[i] = in[((n + 1) + i) - 1]
  BY <1>2, <1>4, SubSeqProperties
<1>6. ASSUME NEW i \in 1..Len(in')  PROVE in'[i] = in[i + n]
  <2>1. ((n + 1) + i) - 1 = i + n  OBVIOUS
  <2>2. in'[i] = in[((n + 1) + i) - 1]  BY <1>5
  <2> QED  BY <2>1, <2>2
<1>7. Len(in') + n = Len(in)  BY <1>4, <1>5
<1>8. Dropped(n)  BY <1>6, <1>7 DEF Dropped
<1> QED  BY <1>1, <1>3, <1>8

\* it takes a command
LEMMA ServerReceives ==
  ASSUME Types, Types', Queues, Recv, UNCHANGED client, ~closed
  PROVE  Queues'
<1> USE DEF At
<1>1. PICK n \in 1..Len(in) : FirstPacket = n  BY ReceivedRest
<1>2. n \in Nat /\ n > 0 /\ in[n].t = "packet" /\ Dropped(n) /\ in[n] \in InMsgs
  BY <1>1, ReceivedRest DEF Types
<1>3. /\ Sane /\ srv \in Srvs /\ srv.pc = "commands" /\ mode = "halted"
      /\ UNCHANGED <<mode, sim, client, closed>> /\ ~closed'
      /\ srv'.pc = "handle" /\ srv'.cmd = in[n].cmd /\ out' = Append(out, Ack)
  BY <1>1 DEF Queues, Types, Recv, Srvs, Sent
<1>4. /\ InSane' /\ (Leaving' => \E i \in (n + 1)..Len(in) : Leaves(in[i]))
  BY <1>2, <1>3, RestSane DEF Sane
<1>5. Leaving' => Leaving
  <2>1. \A i \in (n + 1)..Len(in) : i \in 1..Len(in)
    BY LenProperties DEF Types
  <2> QED  BY <1>4, <2>1 DEF Leaving
<1>6. LetsGo' => Leaving
  <2> SUFFICES ASSUME LetsGo'  PROVE Leaving  OBVIOUS
  <2>1. in[n].cmd = "detach"  BY <1>3 DEF LetsGo
  <2>2. Leaves(in[n])  BY <1>2, <2>1 DEF Leaves
  <2> QED  BY <2>2 DEF Leaving
<1>7. Sane'
  <2>1. in[n].cmd # "kill"  BY <1>2, <1>3 DEF Sane, InSane
  <2> QED  BY <1>3, <1>4, <1>5, <1>6, <2>1 DEF Sane
<1>8. PICK d \in {0, 1} : OneIf(in[n].cmd = "detach") = d  BY Ones
<1>9. PICK a \in Nat : Asks' = a  BY AsksNumber1
<1>10. PICK h \in Nat : InHand' = h  BY HandNumbers
<1>11. /\ Asks' <= Asks - (1 + OneIf(in[n].cmd = "detach"))
       /\ Count(in', 1, {"packet"}) < Count(in, 1, {"packet"})
  BY <1>2, <1>3, AsksLess DEF Sane
<1>12. a <= Asks - (1 + d)  BY Zenon, <1>8, <1>9, <1>11
<1>13. h = InHand + (1 + d)
  <2>1. ~Serves /\ Serves' /\ ~LetsGo /\ (Executes' <=> Executes)
    BY <1>3 DEF Serves, LetsGo, Executes, Ends
  <2>2. OneIf(LetsGo') = d
    <3>1. LetsGo' <=> in[n].cmd = "detach"  BY <1>3 DEF LetsGo
    <3>2. OneIf(LetsGo') = OneIf(in[n].cmd = "detach")  BY <3>1 DEF OneIf
    <3> QED  BY <1>8, <3>2
  <2>3. /\ OneIf(Serves) = 0 /\ OneIf(Serves') = 1 /\ OneIf(LetsGo) = 0
        /\ OneIf(srv.pc = "signal") = 0 /\ OneIf(srv'.pc = "signal") = 0
        /\ OneIf(Executes') = OneIf(Executes) /\ OneIf(sim'.pc = "send") = OneIf(sim.pc = "send")
    BY <1>3, <2>1 DEF OneIf
  <2>4. h = OneIf(Serves') + OneIf(LetsGo') + OneIf(srv'.pc = "signal") + OneIf(Executes')
            + OneIf(sim'.pc = "send")
    BY <1>10 DEF InHand
  <2>5. OneIf(Executes) \in Nat /\ OneIf(sim.pc = "send") \in Nat  BY Ones
  <2> QED  BY <2>2, <2>3, <2>4, <2>5 DEF InHand
<1>14. PICK b \in Nat : Behind' = b  BY HandNumbers
<1>15. b = Behind + 1
  <2>1. ~Serves /\ Serves'  BY <1>3 DEF Serves
  <2>2. /\ OneIf(Serves) = 0 /\ OneIf(Serves') = 1
        /\ OneIf(srv'.pc = "signal" \/ mode' \in Goings) = OneIf(srv.pc = "signal" \/ mode \in Goings)
        /\ OneIf(sim'.pc = "send") = OneIf(sim.pc = "send")
    BY <1>3, <2>1 DEF OneIf
  <2>3. b = OneIf(Serves') + OneIf(sim'.pc = "send") + OneIf(srv'.pc = "signal" \/ mode' \in Goings)
    BY <1>14 DEF Behind
  <2>4. OneIf(srv.pc = "signal" \/ mode \in Goings) \in Nat /\ OneIf(sim.pc = "send") \in Nat
    BY Ones
  <2> QED  BY <2>2, <2>3, <2>4 DEF Behind
<1>16. out \in Seq(OutMsgs) /\ Ack \in OutMsgs /\ Len(out') = Len(out) + 1 /\ Len(out) \in Nat
  BY <1>3, Messages, AppendProperties DEF Types
<1>17. ASSUME NEW k \in 1..(Len(out) + 1)
       PROVE  /\ Count(out', k, {"ack"}) = Count(out, k, {"ack"}) + 1
              /\ Count(out', k, Replying) = Count(out, k, Replying)
              /\ Count(out', k, {"exit"}) = Count(out, k, {"exit"})
              /\ Count(out, k, {"ack"}) \in Nat /\ Count(out, k, Replying) \in Nat
  <2>1. /\ OneIf(Ack.t \in {"ack"}) = 1 /\ OneIf(Ack.t \in Replying) = 0
        /\ OneIf(Ack.t \in {"exit"}) = 0
    BY DEF Ack, OneIf, Replying
  <2>2. Count(out', k, {"ack"}) = Count(out, k, {"ack"}) + OneIf(Ack.t \in {"ack"})
    BY Zenon, <1>3, <1>16, CountAppend
  <2>3. Count(out', k, Replying) = Count(out, k, Replying) + OneIf(Ack.t \in Replying)
    BY Zenon, <1>3, <1>16, CountAppend
  <2>4. Count(out', k, {"exit"}) = Count(out, k, {"exit"}) + OneIf(Ack.t \in {"exit"})
    BY Zenon, <1>3, <1>16, CountAppend
  <2>5. Count(out, k, {"ack"}) \in Nat /\ Count(out, k, Replying) \in Nat
        /\ Count(out, k, {"exit"}) \in Nat
    BY Numbers
  <2> QED  BY <2>1, <2>2, <2>3, <2>4, <2>5
<1>18. 1 \in 1..(Len(out) + 1)  BY <1>16
<1>20. Len(in') <= 6
  <2>1. Len(in') <= Len(in) /\ Len(in') \in Nat /\ Len(in) \in Nat
    BY <1>2, Rest, LenProperties DEF Types
  <2> QED  BY <2>1 DEF Queues
<1>21. Few'
  <2>1. /\ Count(in', 1, {"packet"}) <= Count(in, 1, {"packet"})
        /\ Count(in', 1, {"intr"}) <= Count(in, 1, {"intr"})
    BY <1>2, Rest
  <2>2. Count(out', 1, Replying) <= Count(out, 1, Replying)  BY <1>17, <1>18
  <2>3. 1 + d \in Int /\ h <= InHand + (1 + d)  BY <1>13
  <2> QED  BY <1>3, <1>9, <1>10, <1>12, <2>1, <2>2, <2>3, FewKept DEF Queues
<1>22. InOrder'  BY <1>2, <1>3, RestOrder DEF Queues
<1>23. OutOrder'
  <2>1. Behind \in Nat /\ OutOrder  BY HandNumbers DEF Queues
  <2> SUFFICES ASSUME NEW k \in 1..(Len(out') + 1)
               PROVE  Count(out', k, {"ack"}) <= Count(out', k, Replying) + b
    BY <1>14 DEF OutOrder
  <2>2. CASE k \in 1..(Len(out) + 1)
    <3> DEFINE s == Count(out, k, {"ack"})
               r == Count(out, k, Replying)
    <3>1. s <= r + Behind  BY <2>1, <2>2 DEF OutOrder
    <3>2. /\ Count(out', k, {"ack"}) = s + 1 /\ Count(out', k, Replying) = r
          /\ s \in Nat /\ r \in Nat
      BY <1>17, <2>2
    <3> HIDE DEF s, r
    <3> QED  BY <1>15, <2>1, <3>1, <3>2
  <2>3. CASE k \notin 1..(Len(out) + 1)
    <3>1. k = Len(out') + 1  BY <1>16, <2>3
    <3>2. out' \in Seq(OutMsgs)  BY <1>3, <1>16, AppendProperties
    <3>3. Count(out', k, {"ack"}) = 0 /\ Count(out', k, Replying) = 0
      BY <3>1, <3>2, CountEnd
    <3> QED  BY <3>3
  <2> QED  BY <2>2, <2>3
<1>24. Taken'
  <2> DEFINE p == Count(in, 1, {"packet"})
             p1 == Count(in', 1, {"packet"})
             s == Count(out, 1, {"ack"})
             most == 1 + OneIf(client.st # "stopped") + OneIf(Ends)
  <2>1. p \in Nat /\ p1 \in Nat /\ p1 < p  BY <1>11, AsksNumber, AsksNumber1
  <2>2. Count(out', 1, {"ack"}) = s + 1 /\ s \in Nat  BY <1>17, <1>18
  <2>3. s + p <= most  BY DEF Queues, Taken
  <2>4. most \in Nat  BY Ones
  <2> HIDE DEF p, p1, s, most
  <2>5. (s + 1) + p1 <= most  BY <2>1, <2>2, <2>3, <2>4
  <2>6. Taken' = (Count(out', 1, {"ack"}) + p1 <= most)
    BY <1>3 DEF Taken, Ends, p1, most
  <2> QED  BY <2>2, <2>5, <2>6
<1>25. Once'
  <2>1. Count(out', 1, {"exit"}) = Count(out, 1, {"exit"})  BY <1>17, <1>18
  <2> QED  BY <1>3, <2>1 DEF Queues, Once
<1> QED  BY <1>7, <1>20, <1>21, <1>22, <1>23, <1>24, <1>25 DEF Queues

LEMMA ServerQueues ==
  ASSUME Types, Types', Queues, Srv, UNCHANGED client
  PROVE  Queues'
<1>1. CASE closed  BY <1>1, ServerRest, Abandoned
<1>2. CASE ~closed /\ CheckSignals  BY <1>2, ServerLooks
<1>3. CASE ~closed /\ (Signal \/ Reply)  BY <1>3, ServerReplies
<1>4. CASE ~closed /\ Recv  BY <1>4, ServerReceives
<1>5. CASE ~closed /\ ~CheckSignals /\ ~Signal /\ ~Recv /\ ~Reply
  <2>1. ~Lost  BY <1>5 DEF Lost
  <2>2. UNCHANGED <<in, out>>
    BY <1>5, <2>1 DEF Srv, Listen, LeaveCommands, Resume, Detach, Kill, Points, Simple,
                      StartMem, MemChunk, MemFail
  <2> QED  BY <1>5, <2>2, ServerAlone
<1> QED  BY <1>1, <1>2, <1>3, <1>4, <1>5

\* the client sends
LEMMA Puts ==
  ASSUME Types, NEW m \in InMsgs, Put(m)
  PROVE  /\ Len(in') = Len(in) + 1 /\ Len(in) \in Nat
         /\ \A k \in 1..(Len(in) + 1) : \A T :
              Count(in', k, T) = Count(in, k, T) + OneIf(m.t \in T)
         /\ Leaving' <=> (Leaving \/ Leaves(m))
         /\ InSane /\ (m.t = "packet" => m.cmd # "kill" /\ ~Leaving) => InSane'
<1>1. /\ in \in Seq(InMsgs) /\ Len(in) \in Nat /\ in' = Append(in, m)
      /\ Len(in') = Len(in) + 1 /\ in'[Len(in) + 1] = m
      /\ \A i \in 1..Len(in) : in'[i] = in[i]
  BY AppendProperties, LenProperties DEF Types, Put
<1>2. ASSUME NEW k \in 1..(Len(in) + 1), NEW T
      PROVE  Count(in', k, T) = Count(in, k, T) + OneIf(m.t \in T)
  <2>1. Count(Append(in, m), k, T) = Count(in, k, T) + OneIf(m.t \in T)
    BY <1>1, CountAppend
  <2> QED  BY <1>1, <2>1
<1>3. \A i \in 1..Len(in') : i \in 1..Len(in) \/ i = Len(in) + 1  BY <1>1
<1>4. \A i \in 1..Len(in) : i \in 1..Len(in')  BY <1>1
<1>5. Len(in) + 1 \in 1..Len(in')  BY <1>1
<1>6. Leaving' <=> (Leaving \/ Leaves(m))
  <2>1. Leaving' => Leaving \/ Leaves(m)  BY <1>1, <1>3 DEF Leaving, Leaves
  <2>2. Leaving => Leaving'  BY <1>1, <1>4 DEF Leaving, Leaves
  <2>3. Leaves(m) => Leaving'  BY <1>1, <1>5 DEF Leaving, Leaves
  <2> QED  BY <2>1, <2>2, <2>3
<1>7. ASSUME InSane, m.t = "packet" => m.cmd # "kill" /\ ~Leaving
      PROVE  InSane'
  <2>1. ASSUME NEW i \in 1..Len(in'), in'[i].t = "packet"
        PROVE  in'[i].cmd # "kill"
    BY <1>1, <1>3, <1>7, <2>1 DEF InSane
  <2>2. ASSUME NEW i \in 1..Len(in'), NEW j \in 1..Len(in'), i < j, Leaves(in'[i])
        PROVE  in'[j].t # "packet"
    <3>1. i \in 1..Len(in) /\ Leaves(in[i])
      <4>1. i < Len(in) + 1  BY <1>1, <1>3, <2>2
      <4>2. i \in 1..Len(in)  BY <1>1, <1>3, <4>1
      <4>3. in'[i] = in[i]  BY <1>1, <4>2
      <4> QED  BY <2>2, <4>2, <4>3
    <3>2. Leaving  BY <3>1 DEF Leaving
    <3>3. CASE j \in 1..Len(in)
      <4>1. in[j].t # "packet"  BY <1>7, <2>2, <3>1, <3>3 DEF InSane
      <4> QED  BY <1>1, <3>3, <4>1
    <3>4. CASE j = Len(in) + 1  BY <1>1, <1>7, <3>2, <3>4
    <3> QED  BY <1>3, <3>3, <3>4
  <2> QED  BY <2>1, <2>2 DEF InSane, Leaves
<1> QED  BY <1>1, <1>2, <1>6, <1>7

LEMMA AheadValues ==
  /\ Ahead \in 0..3
  /\ Ahead = 0 <=> client.st \in {"asking", "waiting"}
  /\ Ahead = 1 <=> client.st \in {"stopped", "detached"}
  /\ Ahead = 2 <=> client.st = "exited"
BY DEF Ahead

LEMMA PutOrder ==
  ASSUME Types, Types', InOrder, NEW m \in InMsgs, Put(m), NEW e \in Nat, Ahead' = e,
         OneIf(m.t \in {"ack"}) + Ahead <= OneIf(m.t \in {"packet"}) + e
  PROVE  InOrder'
<1>1. Len(in') = Len(in) + 1 /\ Len(in) \in Nat  BY Puts
<1> SUFFICES ASSUME NEW k \in 1..(Len(in') + 1)
             PROVE  Count(in', k, {"ack"}) <= Count(in', k, {"packet"}) + e
  BY DEF InOrder
<1>2. CASE k \in 1..(Len(in) + 1)
  <2> DEFINE s == Count(in, k, {"ack"})
             p == Count(in, k, {"packet"})
             x == OneIf(m.t \in {"ack"})
             y == OneIf(m.t \in {"packet"})
  <2>1. Count(in', k, {"ack"}) = s + x /\ Count(in', k, {"packet"}) = p + y  BY <1>2, Puts
  <2>2. s <= p + Ahead  BY <1>2 DEF InOrder
  <2>3. s \in Nat /\ p \in Nat /\ x \in Nat /\ y \in Nat /\ Ahead \in Nat
    BY Numbers, Ones, AheadValues
  <2>4. x + Ahead <= y + e  OBVIOUS
  <2> HIDE DEF s, p, x, y
  <2>5. s + x <= (p + y) + e  BY <2>2, <2>3, <2>4
  <2> QED  BY <2>1, <2>5
<1>3. CASE k \notin 1..(Len(in) + 1)
  <2>1. k = Len(in') + 1  BY <1>1, <1>3
  <2>2. in' \in Seq(InMsgs)  BY DEF Types
  <2>3. Count(in', k, {"ack"}) = 0 /\ Count(in', k, {"packet"}) = 0
    BY <2>1, <2>2, CountEnd
  <2> QED  BY <2>3
<1> QED  BY <1>2, <1>3

LEMMA InLength ==
  ASSUME Types, InOrder
  PROVE  Len(in) <= 2 * Count(in, 1, {"packet"}) + Count(in, 1, {"intr"}) + Ahead
<1> DEFINE s == Count(in, 1, {"ack"})
           p == Count(in, 1, {"packet"})
           j == Count(in, 1, {"intr"})
<1>1. in \in Seq(InMsgs) /\ Len(in) \in Nat  BY LenProperties DEF Types
<1>2. \A m \in InMsgs : m.t \in ({"ack"} \cup {"packet"}) \cup {"intr"}
  BY DEF InMsgs, Requests
<1>3. Count(in, 1, ({"ack"} \cup {"packet"}) \cup {"intr"}) = Len(in)
  BY <1>1, <1>2, CountEvery
<1> DEFINE A == {"ack"}
           P == {"packet"}
           I == {"intr"}
<1>4. (A \cup P) \cap I = {} /\ A \cap P = {} /\ 1 \in Nat  OBVIOUS
<1> HIDE DEF s, p, j, A, P, I
<1>5. Count(in, 1, (A \cup P) \cup I) = (Count(in, 1, A) + Count(in, 1, P)) + Count(in, 1, I)
  <2>1. Count(in, 1, (A \cup P) \cup I) = Count(in, 1, A \cup P) + Count(in, 1, I)
    BY <1>1, <1>4, CountTwo
  <2>2. Count(in, 1, A \cup P) = Count(in, 1, A) + Count(in, 1, P)
    BY <1>1, <1>4, CountTwo
  <2> QED  BY <2>1, <2>2
<1> USE DEF s, p, j
<1>6. Len(in) = s + p + j  BY <1>3, <1>5 DEF A, P, I
<1>7. s <= p + Ahead  BY <1>1 DEF InOrder
<1>8. s \in Nat /\ p \in Nat /\ j \in Nat /\ Ahead \in Nat  BY Numbers, AheadValues
<1> HIDE DEF s, p, j
<1>9. Len(in) <= 2 * p + j + Ahead  BY <1>6, <1>7, <1>8
<1> QED  BY <1>9 DEF p, j

\* what depends on the threads alone
LEMMA ThreadsAlone ==
  ASSUME UNCHANGED <<mode, sim, srv>>
  PROVE  InHand' = InHand /\ Behind' = Behind /\ (Ends' <=> Ends) /\ (LetsGo' <=> LetsGo)
<1>1. (Serves' <=> Serves) /\ (LetsGo' <=> LetsGo) /\ (Ends' <=> Ends)
      /\ (Executes' <=> Executes)
  BY DEF Serves, LetsGo, Ends, Executes
<1> QED  BY <1>1 DEF InHand, Behind, OneIf

\* a command: the client has all its answers
LEMMA AskQueues ==
  ASSUME Types, Types', Queues, ~closed, ~closed', UNCHANGED <<mode, sim, srv, out>>,
         NEW m \in Requests, Put(m), client.st = "stopped", m.cmd # "kill",
         client'.st = IF m.cmd \in {"step", "continue"} THEN "waiting" ELSE "asking",
         client'.cmd = m.cmd, client'.intr = client.intr
  PROVE  Queues'
<1>1. m \in InMsgs /\ m.t = "packet"  BY Messages DEF Requests
<1>2. /\ InHand' = InHand /\ Behind' = Behind /\ (Ends' <=> Ends) /\ (LetsGo' <=> LetsGo)
  BY ThreadsAlone
<1>3. Sane /\ client.cmd # "detach" /\ ~Leaving /\ ~LetsGo  BY DEF Queues, Sane
<1>4. (Leaving' <=> Leaves(m)) /\ InSane'  BY <1>1, <1>3, Puts DEF Sane
<1>5. Leaves(m) <=> m.cmd = "detach"  BY <1>1 DEF Leaves
<1>6. Sane'  BY <1>2, <1>3, <1>4, <1>5 DEF Sane
<1> DEFINE p == Count(in, 1, {"packet"})
           p1 == Count(in', 1, {"packet"})
           j == Count(in, 1, {"intr"})
           j1 == Count(in', 1, {"intr"})
           n == Count(out, 1, Replying)
           z == OneIf(~client.intr)
           g == OneIf(m.cmd = "detach")
<1>7. p1 = p + 1 /\ j1 = j
  <2>1. 1 \in 1..(Len(in) + 1)  BY <1>1, Puts
  <2>2. p1 = p + OneIf(m.t \in {"packet"}) /\ j1 = j + OneIf(m.t \in {"intr"})
    BY <1>1, <2>1, Puts
  <2>3. OneIf(m.t \in {"packet"}) = 1 /\ OneIf(m.t \in {"intr"}) = 0  BY <1>1 DEF OneIf
  <2> QED  BY <2>2, <2>3, Numbers
<1>8. p \in Nat /\ j \in Nat /\ n \in Nat /\ z \in {0, 1} /\ g \in {0, 1} /\ InHand \in Nat
  BY Numbers, Ones, HandNumbers
<1>9. p + j + n + InHand + z <= 1
  <2>1. Owed = p + 0 + j + n + InHand + z
    <3>1. OneIf(Leaving) = 0  BY <1>3, Ones
    <3> QED  BY <3>1 DEF Owed
  <2>2. Owed <= 1 + 0 + 0
    <3>1. OneIf(client.st \in {"asking", "waiting", "confused"}) = 0
          /\ OneIf(client.cmd = "detach") = 0
      BY <1>3, Ones
    <3> QED  BY <3>1 DEF Queues, Few
  <2> HIDE DEF p, j, n, z
  <2> QED  BY <1>8, <2>1, <2>2
<1>10. Few'
  <2>1. Owed' = p1 + g + j1 + n + InHand + z
    <3>1. OneIf(Leaving') = g  BY <1>4, <1>5 DEF OneIf
    <3>2. Owed' = p1 + OneIf(Leaving') + j1 + n + InHand' + z
      BY DEF Owed
    <3> QED  BY <1>2, <3>1, <3>2
  <2>2. OneIf(client'.st \in {"asking", "waiting", "confused"}) = 1
        /\ OneIf(client'.cmd = "detach") = g
    BY DEF OneIf
  <2> HIDE DEF p, p1, j, j1, n, z, g
  <2>3. p1 + g + j1 + n + InHand + z <= 1 + 1 + g /\ p1 <= 2 /\ j1 + z <= 1
    BY <1>7, <1>8, <1>9
  <2>4. Few' = /\ Owed' <= 1 + OneIf(client'.st \in {"asking", "waiting", "confused"})
                             + OneIf(client'.cmd = "detach")
               /\ p1 <= 2
               /\ j1 + z <= 1
    BY DEF Few, p1, j1, z
  <2> QED  BY <2>1, <2>2, <2>3, <2>4
<1>11. InOrder'
  <2>1. Ahead = 1 /\ Ahead' = 0 /\ 0 \in Nat  BY DEF Ahead
  <2>2. OneIf(m.t \in {"ack"}) = 0 /\ OneIf(m.t \in {"packet"}) = 1  BY <1>1 DEF OneIf
  <2>3. 0 + 1 <= 1 + 0  OBVIOUS
  <2>4. OneIf(m.t \in {"ack"}) + Ahead <= OneIf(m.t \in {"packet"}) + 0
    BY <2>1, <2>2, <2>3
  <2> QED  BY <1>1, <2>1, <2>4, PutOrder DEF Queues
<1>12. OutOrder'  BY <1>2 DEF Queues, OutOrder
<1>13. Taken'
  <2> DEFINE s == Count(out, 1, {"ack"})
             x == OneIf(Ends)
  <2>1. s + p <= 1 + OneIf(client.st # "stopped") + x /\ s \in Nat /\ x \in Nat
    BY Numbers, Ones DEF Queues, Taken
  <2>2. OneIf(client.st # "stopped") = 0 /\ OneIf(client'.st # "stopped") = 1  BY DEF OneIf
  <2>3. OneIf(Ends') = x  BY <1>2 DEF OneIf
  <2>4. Taken' = (s + p1 <= 1 + OneIf(client'.st # "stopped") + OneIf(Ends'))
    BY DEF Taken
  <2> HIDE DEF s, x, p, p1
  <2>5. s + p1 <= 1 + 1 + x  BY <1>7, <1>8, <2>1, <2>2
  <2> QED  BY <2>2, <2>3, <2>4, <2>5
<1>14. Once'
  <2>1. OneIf(client.st = "exited") = 0 /\ OneIf(client'.st = "exited") = 0  BY DEF OneIf
  <2> QED  BY <2>1 DEF Queues, Once
<1>15. Len(in') <= 6
  <2>1. Len(in) <= 2 * p + j + Ahead  BY InLength DEF Queues
  <2>2. Ahead = 1 /\ Len(in) \in Nat /\ Len(in') = Len(in) + 1  BY <1>1, Puts DEF Ahead
  <2> HIDE DEF p, j, n, z
  <2> QED  BY <1>8, <1>9, <2>1, <2>2
<1> QED  BY <1>6, <1>10, <1>11, <1>12, <1>13, <1>14, <1>15 DEF Queues

LEMMA InterruptQueues ==
  ASSUME Types, Types', Queues, ~closed, Interrupt
  PROVE  Queues'
<1>1. /\ Put(Intr) /\ UNCHANGED <<mode, sim, srv, out, closed>> /\ client.st = "waiting"
      /\ ~client.intr /\ client'.intr /\ client'.st = client.st /\ client'.cmd = client.cmd
  BY DEF Interrupt, Types, Clients
<1>2. InHand' = InHand /\ Behind' = Behind /\ (Ends' <=> Ends) /\ (LetsGo' <=> LetsGo)
  BY <1>1, ThreadsAlone
<1>3. Intr \in InMsgs /\ Intr.t = "intr" /\ ~Leaves(Intr)  BY Messages DEF Intr, Leaves
<1>4. (Leaving' <=> Leaving) /\ InSane'  BY <1>1, <1>3, Puts DEF Queues, Sane
<1>5. Sane'  BY <1>1, <1>2, <1>4 DEF Queues, Sane
<1> DEFINE p == Count(in, 1, {"packet"})
           p1 == Count(in', 1, {"packet"})
           j == Count(in, 1, {"intr"})
           j1 == Count(in', 1, {"intr"})
           n == Count(out, 1, Replying)
           z == OneIf(~client.intr)
           z1 == OneIf(~client'.intr)
           l == OneIf(Leaving)
<1>6. z = 1 /\ z1 = 0  BY <1>1, Ones
<1>7. p1 = p /\ j1 = j + 1
  <2>1. 1 \in 1..(Len(in) + 1)  BY <1>1, <1>3, Puts
  <2>2. p1 = p + OneIf(Intr.t \in {"packet"}) /\ j1 = j + OneIf(Intr.t \in {"intr"})
    BY <1>1, <1>3, <2>1, Puts
  <2>3. OneIf(Intr.t \in {"packet"}) = 0 /\ OneIf(Intr.t \in {"intr"}) = 1  BY <1>3 DEF OneIf
  <2> QED  BY <2>2, <2>3, Numbers
<1>8. p \in Nat /\ j \in Nat /\ n \in Nat /\ l \in {0, 1} /\ InHand \in Nat
  BY Numbers, Ones, HandNumbers
<1>9. p <= 2 /\ j + z <= 1  BY DEF Queues, Few
<1>10. Few'
  <2> DEFINE most == 1 + OneIf(client.st \in {"asking", "waiting", "confused"})
                       + OneIf(client.cmd = "detach")
  <2>1. Owed = p + l + j + n + InHand + z  BY DEF Owed
  <2>2. Owed' = p1 + l + j1 + n + InHand + z1
    <3>1. OneIf(Leaving') = l  BY <1>4 DEF OneIf
    <3>2. Owed' = p1 + OneIf(Leaving') + j1 + n + InHand' + z1
      BY <1>1 DEF Owed
    <3> QED  BY <1>2, <3>1, <3>2
  <2>3. Owed <= most  BY DEF Queues, Few
  <2>4. Few' = (Owed' <= most /\ p1 <= 2 /\ j1 + z1 <= 1)  BY <1>1 DEF Few
  <2>5. most \in Nat  BY Ones
  <2> HIDE DEF p, p1, j, j1, n, z, z1, l, most
  <2>6. p1 + l + j1 + n + InHand + z1 <= most /\ p1 <= 2 /\ j1 + z1 <= 1
    BY <1>6, <1>7, <1>8, <1>9, <2>1, <2>3, <2>5
  <2> QED  BY <2>2, <2>4, <2>6
<1>11. Ahead = 0 /\ Ahead' = 0  BY <1>1 DEF Ahead
<1>12. InOrder'
  <2>1. OneIf(Intr.t \in {"ack"}) = 0 /\ OneIf(Intr.t \in {"packet"}) = 0  BY <1>3 DEF OneIf
  <2>2. 0 + 0 <= 0 + 0 /\ 0 \in Nat  OBVIOUS
  <2>3. OneIf(Intr.t \in {"ack"}) + Ahead <= OneIf(Intr.t \in {"packet"}) + 0
    BY <1>11, <2>1, <2>2
  <2> QED  BY <1>1, <1>3, <1>11, <2>2, <2>3, PutOrder DEF Queues
<1>13. OutOrder'  BY <1>1, <1>2 DEF Queues, OutOrder
<1>14. Taken'
  <2>1. OneIf(Ends') = OneIf(Ends)  BY <1>2 DEF OneIf
  <2> QED  BY <1>1, <1>7, <2>1 DEF Queues, Taken
<1>15. Once'  BY <1>1 DEF Queues, Once
<1>16. Len(in') <= 6
  <2>1. Len(in) <= 2 * p + j + Ahead  BY InLength DEF Queues
  <2>2. Len(in) \in Nat /\ Len(in') = Len(in) + 1  BY <1>1, <1>3, Puts
  <2> HIDE DEF p, j, z
  <2> QED  BY <1>6, <1>8, <1>9, <1>11, <2>1, <2>2
<1> QED  BY <1>1, <1>5, <1>10, <1>12, <1>13, <1>14, <1>15, <1>16 DEF Queues

\* the client reads
LEMMA Reads1 ==
  ASSUME Types, out # <<>>, out' = Tail(out)
  PROVE  /\ Head(out) \in OutMsgs /\ (Head(out).t = "ack" \/ Head(out).t \in Replying)
         /\ Len(out) \in Nat \ {0} /\ Len(out') = Len(out) - 1
         /\ \A k \in Nat \ {0} : \A T : Count(out', k, T) = Count(out, k + 1, T)
         /\ \A T : Count(out, 1, T) = Count(out', 1, T) + OneIf(Head(out).t \in T)
         /\ \A T : Count(out', 1, T) \in Nat
<1>1. /\ out \in Seq(OutMsgs) /\ Head(out) \in OutMsgs /\ Tail(out) \in Seq(OutMsgs)
      /\ Len(out) \in Nat \ {0} /\ Len(out') = Len(out) - 1 /\ out[1] = Head(out)
  BY HeadTailProperties DEF Types
<1>2. Head(out).t = "ack" \/ Head(out).t \in Replying  BY <1>1 DEF OutMsgs, Replying
<1>3. ASSUME NEW k \in Nat \ {0}, NEW T
      PROVE  Count(out', k, T) = Count(out, k + 1, T)
  <2>1. Count(Tail(out), k, T) = Count(out, k + 1, T)  BY <1>1, CountTail
  <2> QED  BY <2>1
<1>4. ASSUME NEW T
      PROVE  /\ Count(out, 1, T) = Count(out', 1, T) + OneIf(Head(out).t \in T)
             /\ Count(out', 1, T) \in Nat
  <2>1. 1 \in Nat \ {0} /\ 1 \in 1..Len(out) /\ 1 + 1 \in Nat  BY <1>1
  <2>2. Count(out, 1, T) = Count(out, 1 + 1, T) + OneIf(out[1].t \in T)
    BY <1>1, <2>1, CountNext
  <2>3. Count(out', 1, T) = Count(out, 1 + 1, T)  BY <1>3, <2>1
  <2>4. Count(out, 1 + 1, T) \in Nat  BY <2>1, Numbers
  <2> QED  BY <1>1, <2>2, <2>3, <2>4
<1> QED  BY <1>1, <1>2, <1>3, <1>4

LEMMA ReadOrder ==
  ASSUME Types, Types', OutOrder, out # <<>>, out' = Tail(out), Behind' = Behind
  PROVE  OutOrder'
<1>1. Len(out) \in Nat \ {0} /\ Len(out') = Len(out) - 1  BY Reads1
<1> SUFFICES ASSUME NEW k \in 1..(Len(out') + 1)
             PROVE  Count(out', k, {"ack"}) <= Count(out', k, Replying) + Behind
  BY DEF OutOrder
<1>2. k \in Nat \ {0} /\ k + 1 \in 1..(Len(out) + 1)  BY <1>1
<1>3. Count(out, k + 1, {"ack"}) <= Count(out, k + 1, Replying) + Behind
  BY <1>2 DEF OutOrder
<1>4. /\ Count(out', k, {"ack"}) = Count(out, k + 1, {"ack"})
      /\ Count(out', k, Replying) = Count(out, k + 1, Replying)
  BY <1>2, Reads1
<1> QED  BY <1>3, <1>4

LEMMA TakesAck ==
  ASSUME Types, Types', Queues, ~closed, Receive, Head(out).t = "ack"
  PROVE  Queues'
<1>1. /\ out # <<>> /\ out' = Tail(out)
      /\ UNCHANGED <<mode, sim, srv, in, client, closed>>
  BY DEF Receive
<1>2. InHand' = InHand /\ Behind' = Behind /\ (Ends' <=> Ends) /\ (LetsGo' <=> LetsGo)
  BY <1>1, ThreadsAlone
<1>3. Sane'
  <2>1. InSane' /\ (Leaving' <=> Leaving)  BY <1>1, InAlone DEF Queues
  <2> QED  BY <1>1, <1>2, <2>1 DEF Queues, Sane
<1> DEFINE s == Count(out, 1, {"ack"})
           s1 == Count(out', 1, {"ack"})
<1>4. /\ s = s1 + 1 /\ s1 \in Nat
      /\ Count(out', 1, Replying) = Count(out, 1, Replying)
      /\ Count(out', 1, {"exit"}) = Count(out, 1, {"exit"})
  <2>1. /\ OneIf(Head(out).t \in {"ack"}) = 1 /\ OneIf(Head(out).t \in Replying) = 0
        /\ OneIf(Head(out).t \in {"exit"}) = 0
    BY DEF OneIf, Replying
  <2>2. /\ s = s1 + OneIf(Head(out).t \in {"ack"}) /\ s1 \in Nat
        /\ Count(out, 1, Replying) = Count(out', 1, Replying) + OneIf(Head(out).t \in Replying)
        /\ Count(out', 1, Replying) \in Nat
        /\ Count(out, 1, {"exit"}) = Count(out', 1, {"exit"}) + OneIf(Head(out).t \in {"exit"})
        /\ Count(out', 1, {"exit"}) \in Nat
    BY <1>1, Reads1
  <2> QED  BY <2>1, <2>2
<1>5. Few'
  <2>1. Owed' = Owed  BY <1>1, <1>2, <1>4 DEF Owed, Leaving
  <2> QED  BY <1>1, <2>1 DEF Queues, Few
<1>6. InOrder'  BY <1>1 DEF Queues, InOrder, Ahead
<1>7. OutOrder'  BY <1>1, <1>2, ReadOrder DEF Queues
<1>8. Taken'
  <2> DEFINE p == Count(in, 1, {"packet"})
             most == 1 + OneIf(client.st # "stopped") + OneIf(Ends)
  <2>1. s + p <= most /\ p \in Nat /\ most \in Nat  BY Numbers, Ones DEF Queues, Taken
  <2>2. OneIf(Ends') = OneIf(Ends)  BY <1>2 DEF OneIf
  <2>3. Taken' = (s1 + p <= most)  BY <1>1, <2>2 DEF Taken
  <2> HIDE DEF s, s1, p, most
  <2>4. s1 + p <= most  BY <1>4, <2>1
  <2> QED  BY <2>3, <2>4
<1>9. Once'  BY <1>1, <1>4 DEF Queues, Once
<1> QED  BY <1>1, <1>3, <1>5, <1>6, <1>7, <1>8, <1>9 DEF Queues

\* an answer takes the client further, and a detached one to the end once
LEMMA FurtherAhead ==
  ASSUME Types, Queues, ~closed, client.st # "gone", Receive, Head(out).t # "ack"
  PROVE  /\ client'.st = After(Head(out)) /\ client'.cmd = client.cmd
         /\ client'.intr = client.intr
         /\ client'.st \in {"stopped", "exited", "detached", "confused"}
         /\ client'.st = "stopped" => client.st \in {"asking", "waiting"}
                                      /\ client.cmd # "detach"
         /\ client'.st = "exited" => Head(out).t = "exit"
         /\ Ahead + 1 <= Ahead' /\ Ahead <= 2
<1>1. /\ out # <<>> /\ client.st # "confused" /\ Sane /\ out' = Tail(out)
      /\ client' = [client EXCEPT !.st = After(Head(out))]
  BY DEF Receive, Queues
<1>2. client'.st = After(Head(out)) /\ client'.cmd = client.cmd /\ client'.intr = client.intr
  BY <1>1 DEF Types, Clients
<1>3. client.cmd = "detach" => client.st \notin {"stopped", "waiting"}  BY <1>1 DEF Sane
<1>4. /\ client'.st \in {"stopped", "exited", "detached", "confused"}
      /\ client'.st = "stopped" => client.st \in {"asking", "waiting"} /\ client.cmd # "detach"
      /\ client'.st = "detached" => client.st = "asking"
      /\ client'.st = "exited" => Head(out).t = "exit"
                                  /\ (client.st = "waiting" \/ client.cmd = "detach")
  BY <1>2, <1>3 DEF After
<1>5. ~(client.st = "exited" /\ Head(out).t = "exit")
  <2> SUFFICES ASSUME client.st = "exited", Head(out).t = "exit"  PROVE FALSE  OBVIOUS
  <2>1. Count(out, 1, {"exit"}) = Count(out', 1, {"exit"}) + OneIf(Head(out).t \in {"exit"})
        /\ Count(out', 1, {"exit"}) \in Nat
    BY <1>1, Reads1
  <2>2. OneIf(Head(out).t \in {"exit"}) = 1 /\ OneIf(client.st = "exited") = 1  BY DEF OneIf
  <2>3. Count(out, 1, {"exit"}) + OneIf(client.st = "exited") <= OneIf(sim.pc = "ended")
    BY DEF Queues, Once
  <2>4. OneIf(sim.pc = "ended") \in {0, 1}  BY Ones
  <2> QED  BY <2>1, <2>2, <2>3, <2>4
<1>6. \/ client.st \in {"asking", "waiting"} /\ Ahead = 0
      \/ client.st = "stopped" /\ Ahead = 1 /\ client'.st = "confused"
      \/ client.st = "detached" /\ Ahead = 1 /\ client'.st \in {"exited", "confused"}
      \/ client.st = "exited" /\ Ahead = 2 /\ client'.st = "confused"
  BY <1>1, <1>3, <1>4, <1>5 DEF Ahead, Types, Clients
<1>7. \/ client'.st \in {"stopped", "detached"} /\ Ahead' = 1
      \/ client'.st = "exited" /\ Ahead' = 2
      \/ client'.st = "confused" /\ Ahead' = 3
  BY <1>4 DEF Ahead
<1>8. Ahead + 1 <= Ahead' /\ Ahead <= 2  BY <1>6, <1>7
<1> QED  BY <1>2, <1>4, <1>8

\* who still works behind an acknowledgement owes an answer
LEMMA BehindHand == Behind <= InHand + OneIf(Ends)
<1>1. ~Ends /\ mode \in Goings => Executes  BY DEF Executes
<1>2. OneIf(srv.pc = "signal" \/ mode \in Goings)
        <= OneIf(srv.pc = "signal") + OneIf(Executes) + OneIf(Ends)
  BY <1>1 DEF OneIf
<1>3. /\ OneIf(Serves) \in Nat /\ OneIf(LetsGo) \in Nat /\ OneIf(sim.pc = "send") \in Nat
      /\ OneIf(srv.pc = "signal") \in Nat /\ OneIf(Executes) \in Nat /\ OneIf(Ends) \in Nat
      /\ OneIf(srv.pc = "signal" \/ mode \in Goings) \in Nat
  BY Ones
<1> QED  BY <1>2, <1>3 DEF Behind, InHand

LEMMA TakesReply ==
  ASSUME Types, Types', Queues, ~closed, client.st # "gone", Receive, Head(out).t # "ack"
  PROVE  Queues'
<1>1. /\ out # <<>> /\ out' = Tail(out) /\ Put(Ack)
      /\ UNCHANGED <<mode, sim, srv, closed>>
  BY DEF Receive
<1>2. InHand' = InHand /\ Behind' = Behind /\ (Ends' <=> Ends) /\ (LetsGo' <=> LetsGo)
  BY <1>1, ThreadsAlone
<1>3. /\ client'.cmd = client.cmd /\ client'.intr = client.intr
      /\ client'.st \in {"stopped", "exited", "detached", "confused"}
      /\ client'.st = "stopped" => client.st \in {"asking", "waiting"}
                                   /\ client.cmd # "detach"
      /\ client'.st = "exited" => Head(out).t = "exit"
      /\ Ahead + 1 <= Ahead' /\ Ahead <= 2
  BY FurtherAhead
<1>4. Ack \in InMsgs /\ Ack.t = "ack" /\ ~Leaves(Ack)  BY Messages DEF Ack, Leaves
<1>5. (Leaving' <=> Leaving) /\ InSane'  BY <1>1, <1>4, Puts DEF Queues, Sane
<1>6. Sane'  BY <1>1, <1>2, <1>3, <1>5 DEF Queues, Sane
<1> DEFINE p == Count(in, 1, {"packet"})
           p1 == Count(in', 1, {"packet"})
           j == Count(in, 1, {"intr"})
           j1 == Count(in', 1, {"intr"})
           n == Count(out, 1, Replying)
           n1 == Count(out', 1, Replying)
           s == Count(out, 1, {"ack"})
           s1 == Count(out', 1, {"ack"})
           z == OneIf(~client.intr)
           l == OneIf(Leaving)
           e == OneIf(client.st \in {"asking", "waiting", "confused"})
           e1 == OneIf(client'.st \in {"asking", "waiting", "confused"})
           g == OneIf(client.cmd = "detach")
           x == OneIf(Ends)
<1>7. p1 = p /\ j1 = j
  <2>1. 1 \in 1..(Len(in) + 1)  BY <1>1, <1>4, Puts
  <2>2. p1 = p + OneIf(Ack.t \in {"packet"}) /\ j1 = j + OneIf(Ack.t \in {"intr"})
    BY <1>1, <1>4, <2>1, Puts
  <2>3. OneIf(Ack.t \in {"packet"}) = 0 /\ OneIf(Ack.t \in {"intr"}) = 0  BY <1>4 DEF OneIf
  <2> QED  BY <2>2, <2>3, Numbers
<1>8. n = n1 + 1 /\ s = s1 /\ n1 \in Nat
  <2>1. Head(out).t \in Replying  BY <1>1, Reads1
  <2>2. OneIf(Head(out).t \in Replying) = 1 /\ OneIf(Head(out).t \in {"ack"}) = 0
    BY <2>1 DEF OneIf
  <2>3. /\ n = n1 + OneIf(Head(out).t \in Replying) /\ n1 \in Nat
        /\ s = s1 + OneIf(Head(out).t \in {"ack"}) /\ s1 \in Nat
    BY <1>1, Reads1
  <2> QED  BY <2>2, <2>3
<1>9. /\ p \in Nat /\ j \in Nat /\ s \in Nat /\ l \in {0, 1} /\ z \in {0, 1} /\ e \in {0, 1}
      /\ e1 \in {0, 1} /\ g \in {0, 1} /\ x \in {0, 1} /\ InHand \in Nat /\ Behind \in Nat
  BY Numbers, Ones, HandNumbers
<1>10. /\ p + l + j + n + InHand + z <= 1 + e + g
       /\ p <= 2 /\ j + z <= 1
  BY DEF Queues, Few, Owed
<1>11. Few'
  <2>1. Owed' = p1 + l + j1 + n1 + InHand + z
    <3>1. OneIf(Leaving') = l  BY <1>5 DEF OneIf
    <3>2. Owed' = p1 + OneIf(Leaving') + j1 + n1 + InHand' + z
      BY <1>3 DEF Owed
    <3> QED  BY <1>2, <3>1, <3>2
  <2>2. Few' = (Owed' <= 1 + e1 + g /\ p1 <= 2 /\ j1 + z <= 1)  BY <1>3 DEF Few
  <2> HIDE DEF p, p1, j, j1, n, n1, z, l, e, e1, g
  <2>3. p1 + l + j1 + n1 + InHand + z <= 1 + e1 + g /\ p1 <= 2 /\ j1 + z <= 1
    BY <1>7, <1>8, <1>9, <1>10
  <2> QED  BY <2>1, <2>2, <2>3
<1>12. InOrder'
  <2>1. Ahead' \in Nat /\ Ahead \in Nat  BY AheadValues DEF Ahead
  <2>2. PICK a \in Nat : Ahead' = a  BY <2>1
  <2>3. Ahead + 1 <= a  BY Zenon, <1>3, <2>2
  <2>4. OneIf(Ack.t \in {"ack"}) = 1 /\ OneIf(Ack.t \in {"packet"}) = 0  BY <1>4 DEF OneIf
  <2>5. OneIf(Ack.t \in {"ack"}) + Ahead <= OneIf(Ack.t \in {"packet"}) + a
    BY <2>1, <2>3, <2>4
  <2> QED  BY <1>1, <1>4, <2>2, <2>5, PutOrder DEF Queues
<1>13. OutOrder'  BY <1>1, <1>2, ReadOrder DEF Queues
<1>14. Taken'
  <2>1. OneIf(Ends') = x  BY <1>2 DEF OneIf
  <2>2. Taken' = (s1 + p1 <= 1 + OneIf(client'.st # "stopped") + x)
    BY <2>1 DEF Taken
  <2>3. CASE client'.st # "stopped"
    <3>1. OneIf(client'.st # "stopped") = 1  BY <2>3, Ones
    <3>2. s + p <= 1 + OneIf(client.st # "stopped") + x  BY DEF Queues, Taken
    <3>3. OneIf(client.st # "stopped") \in {0, 1}  BY Ones
    <3> HIDE DEF s, s1, p, p1, x
    <3>4. s1 + p1 <= 1 + 1 + x  BY <1>7, <1>8, <1>9, <3>2, <3>3
    <3> QED  BY <2>2, <3>1, <3>4
  <2>4. CASE client'.st = "stopped"
    <3>1. OneIf(client'.st # "stopped") = 0  BY <2>4, Ones
    <3>2. g = 0  BY <1>3, <2>4, Ones
    <3>3. s1 <= n1 + Behind
      <4>1. 1 \in 1..(Len(out') + 1)  BY <1>1, Reads1
      <4> QED  BY <1>2, <1>13, <4>1 DEF OutOrder
    <3>4. Behind <= InHand + x  BY BehindHand
    <3> HIDE DEF p, p1, j, n, n1, s, s1, z, l, e, g, x
    <3>5. s1 + p1 <= 1 + 0 + x  BY <1>7, <1>8, <1>9, <1>10, <3>2, <3>3, <3>4
    <3> QED  BY <2>2, <3>1, <3>5
  <2> QED  BY <2>3, <2>4
<1>15. Once'
  <2> DEFINE c == Count(out, 1, {"exit"})
             c1 == Count(out', 1, {"exit"})
             most == OneIf(sim.pc = "ended")
  <2>1. c = c1 + OneIf(Head(out).t \in {"exit"}) /\ c1 \in Nat  BY <1>1, Reads1
  <2>2. OneIf(client'.st = "exited") <= OneIf(Head(out).t \in {"exit"})
    BY <1>3 DEF OneIf
  <2>3. c + OneIf(client.st = "exited") <= most  BY DEF Queues, Once
  <2>4. /\ OneIf(client'.st = "exited") \in Nat /\ OneIf(client.st = "exited") \in Nat
        /\ OneIf(Head(out).t \in {"exit"}) \in Nat /\ most \in Nat
    BY Ones
  <2>5. Once' = (c1 + OneIf(client'.st = "exited") <= most)  BY <1>1 DEF Once
  <2> HIDE DEF c, c1, most
  <2>6. c1 + OneIf(client'.st = "exited") <= most  BY <2>1, <2>2, <2>3, <2>4
  <2> QED  BY <2>5, <2>6
<1>16. Len(in') <= 6
  <2>1. Len(in) <= 2 * p + j + Ahead  BY InLength DEF Queues
  <2>2. Len(in) \in Nat /\ Len(in') = Len(in) + 1  BY <1>1, <1>4, Puts
  <2>3. Ahead \in Nat  BY AheadValues
  <2>4. e = 0 \/ Ahead = 0
    <3>1. client.st # "confused"  BY DEF Receive
    <3> QED  BY <3>1, AheadValues DEF OneIf
  <2> HIDE DEF p, j, n, n1, z, l, e, g
  <2>5. CASE Ahead = 0  BY <1>9, <1>10, <2>1, <2>2, <2>5
  <2>6. CASE e = 0
    <3>1. p + j <= 1  BY <1>8, <1>9, <1>10, <2>6
    <3> QED  BY <1>3, <1>9, <2>1, <2>2, <2>3, <3>1
  <2> QED  BY <2>4, <2>5, <2>6
<1> QED  BY <1>1, <1>6, <1>11, <1>12, <1>13, <1>14, <1>15, <1>16 DEF Queues

LEMMA ClientQueues ==
  ASSUME Types, Types', closed <=> client.st = "gone", closed => out = <<>>, Queues, Client
  PROVE  Queues'
<1>1. CASE Ask \/ AskDetach \/ AskResume
  <2>1. /\ client.st = "stopped" /\ ~closed /\ ~closed'
        /\ UNCHANGED <<mode, sim, srv, out>>
    BY <1>1 DEF Ask, AskDetach, AskResume
  <2>2. ASSUME NEW m \in Requests, Put(m), m.cmd # "kill", client'.cmd = m.cmd,
               client'.intr = client.intr,
               client'.st = IF m.cmd \in {"step", "continue"} THEN "waiting" ELSE "asking"
        PROVE  Queues'
    BY <2>1, <2>2, AskQueues
  <2>3. \A c, a, n : Packet(c, a, n).cmd = c  BY DEF Packet
  <2>4. CASE Ask
    <3>1. CASE \E c \in Commands : /\ Put(Packet(c, 0, 0))
                                   /\ client' = [client EXCEPT !.st = "asking", !.cmd = c]
      <4>1. PICK c \in Commands : /\ Put(Packet(c, 0, 0))
                                  /\ client' = [client EXCEPT !.st = "asking", !.cmd = c]
        BY <3>1
      <4>2. client'.cmd = c /\ client'.st = "asking" /\ client'.intr = client.intr
        BY <4>1 DEF Types, Clients
      <4>3. Packet(c, 0, 0) \in Requests  BY Messages DEF Commanded
      <4>4. c \notin {"kill", "step", "continue"}  BY DEF Commands
      <4> QED  BY <2>2, <2>3, <4>1, <4>2, <4>3, <4>4
    <3>2. CASE \E r \in Reads : /\ Put(Packet("mem", r[1], r[2]))
                                /\ client' = [client EXCEPT !.st = "asking", !.cmd = "mem"]
      <4>1. PICK r \in Reads : /\ Put(Packet("mem", r[1], r[2]))
                               /\ client' = [client EXCEPT !.st = "asking", !.cmd = "mem"]
        BY <3>2
      <4>2. client'.cmd = "mem" /\ client'.st = "asking" /\ client'.intr = client.intr
        BY <4>1 DEF Types, Clients
      <4>3. Packet("mem", r[1], r[2]) \in Requests  BY Messages
      <4> QED  BY <2>2, <2>3, <4>1, <4>2, <4>3
    <3> QED  BY <2>4, <3>1, <3>2 DEF Ask
  <2>5. CASE AskDetach
    <3>1. /\ Put(Packet("detach", 0, 0)) /\ client'.cmd = "detach" /\ client'.st = "asking"
          /\ client'.intr = client.intr
      BY <2>5 DEF AskDetach, Types, Clients
    <3>2. Packet("detach", 0, 0) \in Requests  BY Messages DEF Commanded
    <3> QED  BY <2>2, <2>3, <3>1, <3>2
  <2>6. CASE AskResume
    <3>1. PICK c \in {"step", "continue"} :
            /\ Put(Packet(c, 0, 0))
            /\ client' = [client EXCEPT !.st = "waiting", !.cmd = c, !.asked = FALSE]
      BY <2>6 DEF AskResume
    <3>2. client'.cmd = c /\ client'.st = "waiting" /\ client'.intr = client.intr
      BY <3>1 DEF Types, Clients
    <3>3. Packet(c, 0, 0) \in Requests  BY Messages DEF Commanded
    <3> QED  BY <2>2, <2>3, <3>1, <3>2, <3>3
  <2> QED  BY <1>1, <2>4, <2>5, <2>6
<1>2. CASE AskKill
  <2>1. client.st = "stopped" /\ ~closed /\ closed' /\ Put(Packet("kill", 0, 0))
    BY <1>2 DEF AskKill
  <2>2. Packet("kill", 0, 0) \in InMsgs  BY Messages
  <2> DEFINE p == Count(in, 1, {"packet"})
             j == Count(in, 1, {"intr"})
  <2>3. Len(in) <= 2 * p + j + Ahead  BY <2>1, InLength DEF Queues
  <2>4. Ahead = 1 /\ p <= 2 /\ j + OneIf(~client.intr) <= 1  BY <2>1 DEF Ahead, Queues, Few
  <2>5. Len(in) \in Nat /\ Len(in') = Len(in) + 1  BY <2>1, <2>2, Puts
  <2>6. p \in Nat /\ j \in Nat /\ p + j <= 1
    <3>1. Sane  BY <2>1 DEF Queues
    <3>2. client.cmd # "detach"  BY <2>1, <3>1 DEF Sane
    <3>3. OneIf(client.st \in {"asking", "waiting", "confused"}) = 0
          /\ OneIf(client.cmd = "detach") = 0
      BY <2>1, <3>2, Ones
    <3>4. Owed <= 1 + 0 + 0  BY <2>1, <3>3 DEF Queues, Few
    <3>5. /\ p \in Nat /\ j \in Nat /\ p + j <= Asks
          /\ Owed = Asks + Count(out, 1, Replying) + InHand + OneIf(~client.intr)
          /\ Count(out, 1, Replying) \in Nat /\ Asks \in Nat
      BY AsksNumber
    <3>6. InHand \in Nat /\ OneIf(~client.intr) \in Nat  BY HandNumbers, Ones
    <3> HIDE DEF p, j
    <3> QED  BY <3>4, <3>5, <3>6
  <2> HIDE DEF p, j
  <2>7. Len(in') <= 6  BY <2>3, <2>4, <2>5, <2>6
  <2> QED  BY <2>1, <2>7 DEF Queues
<1>3. CASE Interrupt
  <2>1. ~closed /\ ~closed'  BY <1>3 DEF Interrupt
  <2> QED  BY <1>3, <2>1, InterruptQueues
<1>4. CASE Close
  <2>1. closed' /\ in' = in  BY <1>4 DEF Close
  <2> QED  BY <2>1 DEF Queues
<1>5. CASE Receive
  <2>1. ~closed /\ client.st # "gone"  BY <1>5 DEF Receive
  <2> QED  BY <1>5, <2>1, TakesAck, TakesReply
<1> QED  BY <1>1, <1>2, <1>3, <1>4, <1>5 DEF Client

LEMMA InitQueues ==
  ASSUME Init
  PROVE  Queues
<1>1. /\ in = <<>> /\ out = <<>> /\ client.st = "stopped" /\ client.cmd = "none"
      /\ ~client.intr /\ mode = "halted" /\ sim.pc = "top" /\ srv.pc = "listen"
  BY DEF Init, GdbInit, ClientInit
<1>2. Len(in) = 0 /\ Len(out) = 0  BY <1>1
<1>3. \A k \in {1} : \A T : Count(in, k, T) = 0 /\ Count(out, k, T) = 0
  <2>1. \A k \in {1} : \A T : Places(in, k, T) = {} /\ Places(out, k, T) = {}
    BY <1>2 DEF Places
  <2> QED  BY <2>1, FS_EmptySet DEF Count
<1>4. ~Leaving /\ ~LetsGo /\ InSane  BY <1>1, <1>2 DEF Leaving, LetsGo, InSane
<1>5. InHand = 0 /\ Behind = 0 /\ ~Ends /\ Ahead = 1
  BY <1>1, <1>4 DEF InHand, Behind, Serves, Executes, Ends, Ahead, Goings, OneIf
<1>6. Few
  <2>1. OneIf(Leaving) = 0 /\ OneIf(~client.intr) = 1 /\ OneIf(client.cmd = "detach") = 0
        /\ OneIf(client.st \in {"asking", "waiting", "confused"}) = 0
    BY <1>1, <1>4 DEF OneIf
  <2>2. Owed = 1  BY <1>3, <1>5, <2>1 DEF Owed
  <2> QED  BY <1>3, <2>1, <2>2 DEF Few
<1>7. InOrder /\ OutOrder  BY <1>2, <1>3, <1>5 DEF InOrder, OutOrder
<1>8. Taken /\ Once
  BY <1>1, <1>3, <1>5 DEF Taken, Once, OneIf
<1>9. Sane  BY <1>1, <1>4 DEF Sane
<1> QED  BY <1>2, <1>6, <1>7, <1>8, <1>9 DEF Queues

LEMMA QueuesStep ==
  ASSUME IInv, Queues, [Next]_vars
  PROVE  Queues'
<1>1. Types /\ (closed <=> client.st = "gone") /\ (closed => out = <<>>)  BY DEF IInv
<1>2. Types'  BY SessionStep DEF IInv
<1>3. CASE Sim /\ UNCHANGED client  BY <1>1, <1>2, <1>3, SimQueues
<1>4. CASE Srv /\ UNCHANGED client  BY <1>1, <1>2, <1>4, ServerQueues
<1>5. CASE Client  BY <1>1, <1>2, <1>5, ClientQueues
<1>6. CASE UNCHANGED vars
  <2>1. UNCHANGED <<in, out, client, mode, sim, srv, closed>>  BY <1>6 DEF vars, gdbVars
  <2>2. (Ends' <=> Ends) /\ InHand' = InHand /\ Behind' = Behind /\ (LetsGo' <=> LetsGo)
    BY <2>1, ThreadsAlone
  <2>3. CASE closed  BY <2>1, <2>3 DEF Queues
  <2>4. CASE ~closed
    <3>1. Sane' /\ InHand' <= InHand /\ Behind <= Behind'
      <4>1. InSane' /\ (Leaving' <=> Leaving)  BY <2>1, <2>4, InAlone DEF Queues
      <4> QED  BY <2>1, <2>2, <2>4, <4>1, HandNumbers DEF Queues, Sane
    <3> QED  BY <1>1, <2>1, <2>2, <2>4, <3>1, Unqueued
  <2> QED  BY <2>3, <2>4
<1> QED  BY <1>3, <1>4, <1>5, <1>6 DEF Next

LEMMA OutLength ==
  ASSUME IInv, Queues
  PROVE  Len(out) <= 6
<1>1. CASE closed  BY <1>1 DEF IInv
<1>2. CASE ~closed
  <2> DEFINE s == Count(out, 1, {"ack"})
             n == Count(out, 1, Replying)
             A == {"ack"}
  <2>1. out \in Seq(OutMsgs) /\ Types  BY DEF IInv, Types
  <2>2. \A m \in OutMsgs : m.t \in A \cup Replying  BY DEF OutMsgs, Replying
  <2>3. A \cap Replying = {} /\ 1 \in Nat  BY DEF Replying
  <2> HIDE DEF A
  <2>4. Count(out, 1, A \cup Replying) = Len(out)  BY <2>1, <2>2, CountEvery
  <2>5. Count(out, 1, A \cup Replying) = Count(out, 1, A) + Count(out, 1, Replying)
    BY <2>1, <2>3, CountTwo
  <2>6. Len(out) = s + n  BY <2>4, <2>5 DEF A
  <2>7. s <= 3
    <3>1. s + Count(in, 1, {"packet"}) <= 1 + OneIf(client.st # "stopped") + OneIf(Ends)
      BY <1>2 DEF Queues, Taken
    <3>2. OneIf(client.st # "stopped") \in {0, 1} /\ OneIf(Ends) \in {0, 1}  BY Ones
    <3>3. s \in Nat /\ Count(in, 1, {"packet"}) \in Nat  BY <2>1, Numbers
    <3> HIDE DEF s
    <3> QED  BY <3>1, <3>2, <3>3
  <2>8. n <= 3
    <3>1. Owed <= 1 + OneIf(client.st \in {"asking", "waiting", "confused"})
                    + OneIf(client.cmd = "detach")
      BY <1>2 DEF Queues, Few
    <3>2. Owed = Asks + n + InHand + OneIf(~client.intr) /\ Asks \in Nat /\ n \in Nat
      BY <2>1, AsksNumber
    <3>3. OneIf(client.st \in {"asking", "waiting", "confused"}) \in {0, 1}
          /\ OneIf(client.cmd = "detach") \in {0, 1} /\ OneIf(~client.intr) \in Nat
          /\ InHand \in Nat
      BY Ones, HandNumbers
    <3> HIDE DEF n
    <3> QED  BY <3>1, <3>2, <3>3
  <2>9. s \in Nat /\ n \in Nat  BY <2>1, Numbers
  <2> HIDE DEF s, n
  <2> QED  BY <2>6, <2>7, <2>8, <2>9
<1> QED  BY <1>1, <1>2

LEMMA DebugTypesFollow ==
  ASSUME IInv, Queues
  PROVE  DebugTypeOK
<1>1. DebugTypes  BY TypesFollow
<1>2. Len(in) <= 6  BY DEF Queues
<1> QED  BY <1>1, <1>2, OutLength DEF DebugTypeOK

\* What is waiting and what is being answered never exceeds what the client has
\* asked for, counting an interrupt (gdb.cpp:544-559, 593-617; rsp.cpp:141-172).
THEOREM QueuesInvariant == Spec => [](IInv /\ Queues)
<1>1. Init => IInv /\ Queues  BY InitSession, InitQueues
<1>2. (IInv /\ Queues) /\ [Next]_vars => (IInv /\ Queues)'  BY SessionStep, QueuesStep
<1> QED  BY <1>1, <1>2, PTL DEF Spec

\* The variables of the two threads, of the connection and of the client keep
\* their types; a memory access never leaves the space that was asked for
\* (gdb.cpp:334-366), and neither queue of the connection ever holds more than six
\* messages, whatever is interrupted (gdb.cpp:544-559, 593-617).
THEOREM DebugTypeCorrect == Spec => []DebugTypeOK
BY QueuesInvariant, DebugTypesFollow, PTL
=============================================================================
