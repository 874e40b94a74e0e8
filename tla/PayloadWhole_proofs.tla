------------------------ MODULE PayloadWhole_proofs ------------------------
(* Proof that PayloadAssembly loses no whole frame: WholeFrameIsPublished,   *)
(* for frames and buffers of any size, both endpoints and all faults.        *)
EXTENDS PayloadAssembly_proofs

-----------------------------------------------------------------------------
(* What the stream handle is like while a frame arrives whole *)

(* Before its first payload: nothing in the buffer and no error marked, or   *)
(* data of the frame before, which the flip of FID will swap out.            *)
StartReady(s, frame) ==
    /\ s.outbuf = <<>> => ~s.bfh_err
    /\ s.outbuf # <<>> => s.fid = Fid(frame - 1)

(* After its first payloads: these, without the mark. *)
Holding(s, frame, parts) ==
    /\ s.outbuf = Run(frame, 1, parts)
    /\ ~s.bfh_err
    /\ s.fid = Fid(frame)

Published(s, frame) ==
    \E i \in DOMAIN s.swapped :
        ~s.swapped[i].err /\ s.swapped[i].data = Run(frame, 1, Parts)

(* The invariant, one part for each place the camera may be at *)

ArrivedBefore == \A p \in arrived : Before(p, at)

AtStart ==
    at[2] = 1 /\ <<at[1] - 1, Parts>> \in arrived => StartReady(strmh, at[1])

InFrame ==
    /\ at[2] > 1 /\ <<at[1] - 1, Parts>> \in arrived
    /\ \A k \in 1 .. at[2] - 1 : <<at[1], k>> \in arrived
    => Holding(strmh, at[1], at[2] - 1)

AfterEnd ==
    /\ at[2] = 1 /\ ~usesEof
    /\ Whole(at[1] - 1) \union {<<at[1] - 2, Parts>>} \subseteq arrived
    => Published(strmh, at[1] - 1) \/ Holding(strmh, at[1] - 1, Parts)

Known(frame) ==
    /\ Whole(frame) \union {<<frame - 1, Parts>>} \subseteq arrived
    /\ usesEof \/ <<frame + 1, 1>> \in arrived

KnownPublished == \A frame \in 2 .. MaxFrame : Known(frame) => Published(strmh, frame)

WholeInv == ArrivedBefore /\ AtStart /\ InFrame /\ AfterEnd /\ KnownPublished

-----------------------------------------------------------------------------
(* The steps of the two functions *)

LEMMA SwapPublishes ==
  ASSUME NEW s \in Handle
  PROVE  /\ \A frame : Published(s, frame) => Published(SwapBuffers(s), frame)
         /\ \A frame : ~s.bfh_err /\ s.outbuf = Run(frame, 1, Parts)
                         => Published(SwapBuffers(s), frame)
<1> DEFINE f == [data |-> s.outbuf, err |-> s.bfh_err]
           t == SwapBuffers(s)
           n == Len(s.swapped)
<1>1. f \in Frame /\ f.data = s.outbuf /\ f.err = s.bfh_err /\ s.swapped \in Seq(Frame)
      BY DEF Handle, Frame
<1>2. t.swapped = Append(s.swapped, f)
      BY SwapType
<1> HIDE DEF f, t
<1>3. /\ n \in Nat /\ DOMAIN s.swapped = 1 .. n /\ DOMAIN t.swapped = 1 .. n + 1
      /\ \A i \in 1 .. n : t.swapped[i] = s.swapped[i]
      /\ t.swapped[n + 1] = f
      BY <1>1, <1>2
<1>4. n + 1 \in 1 .. n + 1 /\ \A i \in 1 .. n : i \in 1 .. n + 1
      BY <1>3
<1> HIDE DEF n
<1>5. \A frame : Published(s, frame) => Published(t, frame)
      BY <1>3, <1>4 DEF Published
<1>6. \A frame : ~s.bfh_err /\ s.outbuf = Run(frame, 1, Parts) => Published(t, frame)
      BY <1>1, <1>3, <1>4 DEF Published
<1> QED BY <1>5, <1>6 DEF t

LEMMA SamePublished ==
  ASSUME NEW s, NEW t, t.swapped = s.swapped
  PROVE  \A frame : Published(s, frame) => Published(t, frame)
BY DEF Published

LEMMA TogglePublishes ==
  ASSUME NEW s \in Handle, NEW p, p.frame \in Int, NEW frame
  PROVE  /\ Published(s, frame) => Published(Toggle(s, p), frame)
         /\ (s.fid # Fid(p.frame) /\ s.outbuf # <<>> /\ ~s.bfh_err
               /\ s.outbuf = Run(frame, 1, Parts)) => Published(Toggle(s, p), frame)
<1>1. CASE Toggle(s, p).swapped = s.swapped /\ ~(s.fid # Fid(p.frame) /\ s.outbuf # <<>>)
      BY <1>1, SamePublished
<1>2. CASE Toggle(s, p).swapped = SwapBuffers(s).swapped
      BY <1>2, SamePublished, SwapPublishes
<1> QED BY <1>1, <1>2, ToggleType

LEMMA EndFramePublishes ==
  ASSUME NEW s \in Handle, NEW p
  PROVE  /\ \A frame : Published(s, frame) => Published(EndFrame(s, p), frame)
         /\ \A frame : Publishes(s, p) /\ ~s.bfh_err /\ s.outbuf = Run(frame, 1, Parts)
                         => Published(EndFrame(s, p), frame)
BY EndFrameType, SwapPublishes

LEMMA MarkErrorPublishes ==
  ASSUME NEW s \in Handle
  PROVE  \A frame : Published(s, frame) => Published(MarkError(s), frame)
BY MarkErrorType DEF Published

LEMMA AppendNotEmpty ==
  ASSUME NEW S, NEW out \in Seq(S), NEW e \in S
  PROVE  Append(out, e) # <<>>
<1>1. Len(Append(out, e)) = Len(out) + 1 /\ Len(out) \in Nat
      OBVIOUS
<1>2. Len(<<>>) = 0
      OBVIOUS
<1> QED BY <1>1, <1>2

LEMMA RunLength ==
  ASSUME NEW frame \in Int, NEW k \in Nat
  PROVE  /\ Run(frame, 1, k) \in Seq(Int \X Int) /\ Len(Run(frame, 1, k)) = k
         /\ k = 0 <=> Run(frame, 1, k) = <<>>
<1>1. k - 1 + 1 = k
      OBVIOUS
<1>2. Run(frame, 1, k) \in Seq(Int \X Int) /\ Len(Run(frame, 1, k)) = k
      BY <1>1 DEF Run
<1> QED BY <1>2

(* A payload with data, through the three steps *)
Stored(s, p) == Store(Toggle(s, p), p)
Received(s, p) == EndFrame(Stored(s, p), p)

LEMMA ReceivedType ==
  ASSUME NEW s \in Handle, NEW p, p.frame \in Int, <<p.frame, p.part>> \in Payload, p.data
  PROVE  /\ Stored(s, p) \in Handle /\ Received(s, p) \in Handle
         /\ Stored(s, p).fid = Fid(p.frame) /\ Stored(s, p).outbuf # <<>>
         /\ \A frame : Published(Toggle(s, p), frame) => Published(Received(s, p), frame)
         /\ \A frame : Published(s, frame) => Published(Received(s, p), frame)
<1> DEFINE t == Toggle(s, p)
<1>1. t \in Handle /\ t.fid = Fid(p.frame)
      BY ToggleType
<1>2. \A frame : Published(s, frame) => Published(t, frame)
      BY TogglePublishes
<1>3. t.outbuf \in Seq(Payload)
      BY <1>1 DEF Handle
<1> HIDE DEF t
<1>4. /\ Store(t, p) \in Handle /\ Store(t, p).fid = t.fid
      /\ Store(t, p).swapped = t.swapped
      BY <1>1, StoreType
<1>5. Store(t, p).outbuf # <<>>
  <2>1. CASE Store(t, p).outbuf = Append(t.outbuf, <<p.frame, p.part>>)
        BY <1>3, <2>1, AppendNotEmpty
  <2>2. CASE Store(t, p).outbuf = t.outbuf /\ ~Fits(t)
    <3>1. Len(<<>>) = 0
          OBVIOUS
    <3> QED BY <2>2, <3>1, SizesAssumption DEF Fits
  <2> QED BY <1>1, <2>1, <2>2, StoreType
<1>6. \A frame : Published(t, frame) => Published(Store(t, p), frame)
      BY <1>4 DEF Published
<1>7. \A frame : Published(Store(t, p), frame) => Published(EndFrame(Store(t, p), p), frame)
      BY <1>4, EndFramePublishes
<1>8. EndFrame(Store(t, p), p) \in Handle
      BY <1>4, EndFrameType
<1> QED BY <1>1, <1>2, <1>4, <1>5, <1>6, <1>7, <1>8 DEF t, Stored, Received

(* After the payload either the buffer is empty and nothing is marked, or    *)
(* the handle still has the payload's FID.                                   *)
LEMMA ReceivedReady ==
  ASSUME NEW s \in Handle, NEW p, p.frame \in Int, <<p.frame, p.part>> \in Payload, p.data
  PROVE  StartReady(Received(s, p), p.frame + 1)
<1> DEFINE t == Stored(s, p)
<1>1. t \in Handle /\ t.fid = Fid(p.frame) /\ t.outbuf # <<>>
      BY ReceivedType
<1>2. p.frame + 1 - 1 = p.frame
      OBVIOUS
<1>3. Received(s, p) = EndFrame(t, p)
      BY DEF Received
<1> HIDE DEF t
<1>4. CASE EndFrame(t, p) = t
      BY <1>1, <1>2, <1>3, <1>4 DEF StartReady
<1>5. CASE EndFrame(t, p) = SwapBuffers(t)
      BY <1>1, <1>3, <1>5, SwapType DEF StartReady
<1> QED BY <1>1, <1>4, <1>5, EndFrameType

(* The frame grows by the payload. *)
LEMMA StoredHolds ==
  ASSUME NEW s \in Handle, NEW p, NEW frame \in Int, NEW k \in Nat,
         p.frame = frame, p.part = k + 1, p.data, <<frame, k + 1>> \in Payload,
         \/ k = 0 /\ StartReady(s, frame)
         \/ k > 0 /\ Holding(s, frame, k)
  PROVE  Holding(Stored(s, p), frame, k + 1)
<1> DEFINE t == Toggle(s, p)
           u == Store(t, p)
<1>1. k + 1 \in 1 .. Parts
      BY DEF Payload
<1>2. t \in Handle /\ t.fid = Fid(frame)
      BY ToggleType
<1>3. t.outbuf = Run(frame, 1, k) /\ ~t.bfh_err
  <2>1. CASE k = 0 /\ StartReady(s, frame)
    <3>1. Run(frame, 1, k) = <<>>
          BY <2>1, RunLength
    <3>2. s.outbuf = <<>> => ~s.bfh_err
          BY <2>1 DEF StartReady
    <3>3. s.outbuf # <<>> => s.fid # Fid(frame)
          BY <2>1, FidFlips DEF StartReady
    <3>4. t.outbuf = <<>> /\ ~t.bfh_err
          BY <3>2, <3>3, ToggleType
    <3> QED BY <3>1, <3>4
  <2>2. CASE Holding(s, frame, k)
    <3>1. s.fid = Fid(frame) /\ ~s.bfh_err /\ s.outbuf = Run(frame, 1, k)
          BY <2>2 DEF Holding
    <3>2. t.outbuf = s.outbuf /\ t.bfh_err = s.bfh_err
          BY <3>1, ToggleType
    <3> QED BY <3>1, <3>2
  <2> QED BY <2>1, <2>2
<1> HIDE DEF t
<1>4. Fits(t)
  <2>1. Len(t.outbuf) = k
        BY <1>3, RunLength
  <2> QED BY <1>1, <2>1, SizesAssumption DEF Fits
<1>5. /\ u.fid = t.fid /\ u.bfh_err = t.bfh_err
      /\ u.outbuf = Append(t.outbuf, <<frame, k + 1>>)
      BY <1>2, <1>4, StoreType
<1> HIDE DEF u
<1>6. Append(Run(frame, 1, k), <<frame, k + 1>>) = Run(frame, 1, k + 1)
  <2>1. 1 \in Int /\ k \in Int /\ 1 <= k + 1
        OBVIOUS
  <2> QED BY <2>1, RunGrows
<1>7. Holding(u, frame, k + 1)
      BY <1>2, <1>3, <1>5, <1>6 DEF Holding
<1> QED BY <1>7 DEF Stored, t, u

LEMMA ReceivedHolds ==
  ASSUME NEW s \in Handle, NEW p, p.frame \in Int, <<p.frame, p.part>> \in Payload, p.data,
         Holding(Stored(s, p), p.frame, p.part)
  PROVE  /\ ~p.eof => Holding(Received(s, p), p.frame, p.part)
         /\ p.eof /\ p.part = Parts => Published(Received(s, p), p.frame)
<1> DEFINE t == Stored(s, p)
<1>1. t \in Handle /\ t.outbuf # <<>>
      BY ReceivedType
<1>2. Received(s, p) = EndFrame(t, p) /\ Holding(t, p.frame, p.part)
      BY DEF Received
<1> HIDE DEF t
<1>3. CASE ~p.eof
      BY <1>1, <1>2, <1>3, EndFrameType DEF Publishes
<1>4. CASE p.eof /\ p.part = Parts
  <2>1. Publishes(t, p)
        BY <1>1, <1>4 DEF Publishes
  <2> QED BY <1>1, <1>2, <1>4, <2>1, EndFramePublishes DEF Holding
<1> QED BY <1>3, <1>4

(* A payload of the next frame swaps out the one that is held. *)
LEMMA FlipPublishes ==
  ASSUME NEW s \in Handle, NEW p, NEW frame \in Int, p.frame = frame + 1,
         Holding(s, frame, Parts)
  PROVE  Published(Toggle(s, p), frame)
<1>1. Fid(frame + 1) # Fid(frame)
      BY DEF Fid
<1>2. s.outbuf = Run(frame, 1, Parts) /\ ~s.bfh_err /\ s.fid = Fid(frame)
      BY DEF Holding
<1>3. Parts \in Nat /\ Parts # 0
      BY SizesAssumption
<1>4. s.outbuf # <<>>
      BY <1>2, <1>3, RunLength
<1> QED BY <1>1, <1>2, <1>4, TogglePublishes

-----------------------------------------------------------------------------
(* A payload that does not arrive: no frame is whole up to where the camera  *)
(* then is, and what was published stays so.                                 *)

LEMMA PlaceOf ==
  ASSUME TypeOK, Sending
  PROVE  \E g \in 1 .. MaxFrame, k \in 1 .. Parts :
           /\ at = <<g, k>>
           /\ k < Parts => Following(at) = <<g, k + 1>>
           /\ k = Parts => Following(at) = <<g + 1, 1>>
<1>1. /\ at \in (1 .. MaxFrame + 2) \X (1 .. Parts)
      /\ at[1] <= MaxFrame /\ Parts \in Nat /\ MaxFrame \in Nat
      BY SizesAssumption DEF TypeOK, Sending
<1>2. at[1] \in 1 .. MaxFrame /\ at[2] \in 1 .. Parts /\ at = <<at[1], at[2]>>
      BY <1>1
<1> QED BY <1>1, <1>2 DEF Following

LEMMA NothingBeforeItself ==
  ASSUME NEW g \in Int, NEW k \in Int
  PROVE  ~Before(<<g, k>>, <<g, k>>)
BY DEF Before

LEMMA MissingWhole ==
  ASSUME TypeOK, WholeInv, Sending, NEW kind, GoesMissing(kind),
         \A frame : Published(strmh, frame) => Published(strmh', frame)
  PROVE  WholeInv'
<1>1. PICK g \in 1 .. MaxFrame, k \in 1 .. Parts :
         /\ at = <<g, k>>
         /\ k < Parts => Following(at) = <<g, k + 1>>
         /\ k = Parts => Following(at) = <<g + 1, 1>>
      BY PlaceOf
<1>2. /\ at' = Following(at) /\ arrived' = arrived /\ usesEof' = usesEof
      BY DEF GoesMissing
<1>3. <<g, k>> \notin arrived
      BY <1>1, NothingBeforeItself DEF WholeInv, ArrivedBefore
<1>4. ArrivedBefore'
  <2>1. arrived \subseteq Payload /\ at \in Position /\ at[1] <= MaxFrame
        BY DEF TypeOK, Sending, Position
  <2> QED BY <1>2, <2>1, NextIsLater DEF WholeInv, ArrivedBefore
<1>5. (k < Parts /\ at' = <<g, k + 1>>) \/ (k = Parts /\ at' = <<g + 1, 1>>)
      BY <1>1, <1>2, SizesAssumption
<1>6. AtStart'
  <2>1. CASE at' = <<g, k + 1>>
        BY <2>1 DEF AtStart
  <2>2. CASE k = Parts /\ at' = <<g + 1, 1>>
    <3>1. g + 1 - 1 = g
          OBVIOUS
    <3> QED BY <1>2, <1>3, <2>2, <3>1 DEF AtStart
  <2> QED BY <1>5, <2>1, <2>2
<1>7. InFrame'
  <2>1. CASE at' = <<g, k + 1>>
    <3>1. k \in 1 .. (k + 1) - 1
          OBVIOUS
    <3> QED BY <1>2, <1>3, <2>1, <3>1 DEF InFrame
  <2>2. CASE at' = <<g + 1, 1>>
        BY <2>2 DEF InFrame
  <2> QED BY <1>5, <2>1, <2>2
<1>8. AfterEnd'
  <2>1. CASE at' = <<g, k + 1>>
        BY <2>1 DEF AfterEnd
  <2>2. CASE k = Parts /\ at' = <<g + 1, 1>>
    <3>1. <<g, k>> \in Whole((g + 1) - 1)
          BY DEF Whole
    <3> QED BY <1>2, <1>3, <2>2, <3>1 DEF AfterEnd
  <2> QED BY <1>5, <2>1, <2>2
<1>9. KnownPublished'
      BY <1>2 DEF WholeInv, KnownPublished, Known
<1> QED BY <1>4, <1>6, <1>7, <1>8, <1>9 DEF WholeInv

-----------------------------------------------------------------------------
(* A payload that arrives *)

(* When all of the frame up to it and the end of the frame before arrived,   *)
(* the buffer then holds the frame so far.                                   *)
LEMMA DataHolds ==
  ASSUME TypeOK, AtStart, InFrame,
         NEW g \in 1 .. MaxFrame, NEW k \in 1 .. Parts, at = <<g, k>>,
         <<g - 1, Parts>> \in arrived, \A i \in 1 .. k - 1 : <<g, i>> \in arrived,
         NEW p, p.frame = g, p.part = k, p.data
  PROVE  Holding(Stored(strmh, p), g, k)
<1> DEFINE n == k - 1
<1>1. n \in Nat /\ k = n + 1 /\ g \in Int /\ <<g, k>> \in Payload
      BY SizesAssumption DEF Payload
<1>2. strmh \in Handle
      BY DEF TypeOK
<1>3. CASE k = 1
  <2>1. n = 0 /\ StartReady(strmh, g)
        BY <1>3 DEF AtStart
  <2> HIDE DEF n
  <2> QED BY <1>1, <1>2, <2>1, StoredHolds
<1>4. CASE k > 1
  <2>1. n > 0 /\ Holding(strmh, g, n)
        BY <1>4 DEF InFrame
  <2> HIDE DEF n
  <2> QED BY <1>1, <1>2, <2>1, StoredHolds
<1> QED BY <1>3, <1>4, SizesAssumption

(* A whole frame that this payload completes, by its end or, from a camera   *)
(* without EOF, by the first payload of the next.                            *)
LEMMA CompletedBy ==
  ASSUME TypeOK, ArrivedBefore, NEW g \in Int, NEW k \in Int, at = <<g, k>>,
         arrived' = arrived \union {at}, usesEof' = usesEof,
         NEW frame \in 2 .. MaxFrame, Known(frame)', ~Known(frame)
  PROVE  \/ usesEof /\ g = frame /\ k = Parts
         \/ ~usesEof /\ g = frame + 1 /\ k = 1
<1>1. Parts \in Nat \ {0} /\ frame \in Int
      BY SizesAssumption
<1>2. \A q \in arrived : q[1] < g \/ (q[1] = g /\ q[2] < k)
      BY DEF ArrivedBefore, Before
<1>3. at \in Whole(frame) \union {<<frame - 1, Parts>>} \/ (~usesEof /\ at = <<frame + 1, 1>>)
      BY DEF Known
<1>4. CASE usesEof
  <2>1. <<frame, Parts>> \in arrived \union {<<g, k>>}
        BY <1>1 DEF Known, Whole
  <2>2. (g = frame /\ k \in 1 .. Parts) \/ g = frame - 1
        BY <1>3, <1>4 DEF Whole
  <2>3. <<frame, Parts>> \in arrived => frame < g \/ (frame = g /\ Parts < k)
        BY <1>2
  <2>4. <<frame, Parts>> = <<g, k>>
        BY <1>1, <2>1, <2>2, <2>3
  <2> QED BY <1>4, <2>4
<1>5. CASE ~usesEof
  <2>1. <<frame + 1, 1>> \in arrived \union {<<g, k>>}
        BY <1>5 DEF Known
  <2>2. <<frame + 1, 1>> \in arrived => frame + 1 < g \/ (frame + 1 = g /\ 1 < k)
        BY <1>2
  <2>3. (g = frame /\ k \in 1 .. Parts) \/ g = frame - 1 \/ (g = frame + 1 /\ k = 1)
        BY <1>3 DEF Whole
  <2>4. <<frame + 1, 1>> = <<g, k>>
        BY <1>1, <2>1, <2>2, <2>3
  <2> QED BY <1>5, <2>4
<1> QED BY <1>4, <1>5 DEF TypeOK

LEMMA DataWhole ==
  ASSUME TypeOK, WholeInv, Sending, Arrives, strmh' = Received(strmh, Packet)
  PROVE  WholeInv'
<1> DEFINE p == Packet
<1>1. PICK g \in 1 .. MaxFrame, k \in 1 .. Parts :
         /\ at = <<g, k>>
         /\ k < Parts => Following(at) = <<g, k + 1>>
         /\ k = Parts => Following(at) = <<g + 1, 1>>
      BY PlaceOf
<1>2. /\ at' = Following(at) /\ arrived' = arrived \union {<<g, k>>} /\ usesEof' = usesEof
      BY <1>1 DEF Arrives
<1>3. /\ p.frame = g /\ p.part = k /\ p.data /\ (p.eof <=> usesEof /\ k = Parts)
      BY <1>1 DEF Packet
<1>4. g \in Int /\ k \in Int /\ <<p.frame, p.part>> \in Payload /\ strmh \in Handle
      BY <1>3 DEF Payload, TypeOK
<1>5. (k < Parts /\ at' = <<g, k + 1>>) \/ (k = Parts /\ at' = <<g + 1, 1>>)
      BY <1>1, <1>2, SizesAssumption
<1>6. \A frame : Published(strmh, frame) => Published(strmh', frame)
      BY <1>3, <1>4, ReceivedType
<1> HIDE DEF p
<1>7. ASSUME <<g - 1, Parts>> \in arrived, \A i \in 1 .. k - 1 : <<g, i>> \in arrived
      PROVE  /\ ~(usesEof /\ k = Parts) => Holding(strmh', g, k)
             /\ usesEof /\ k = Parts => Published(strmh', g)
  <2>1. Holding(Stored(strmh, p), g, k)
        BY <1>1, <1>3, <1>7, DataHolds DEF WholeInv
  <2> QED BY <1>3, <1>4, <2>1, ReceivedHolds DEF p
<1>8. ArrivedBefore'
  <2>1. arrived \subseteq Payload /\ at \in Position
        BY DEF TypeOK, Position
  <2> QED BY <1>1, <1>2, <2>1, NextIsLater DEF WholeInv, ArrivedBefore
<1>9. AtStart'
  <2>1. StartReady(strmh', g + 1)
        BY <1>3, <1>4, ReceivedReady DEF p
  <2>2. CASE at' = <<g, k + 1>>
        BY <2>2 DEF AtStart
  <2>3. CASE at' = <<g + 1, 1>>
        BY <2>1, <2>3 DEF AtStart
  <2> QED BY <1>5, <2>2, <2>3
<1>10. InFrame'
  <2>1. CASE k < Parts /\ at' = <<g, k + 1>>
    <3> SUFFICES ASSUME <<g - 1, Parts>> \in arrived',
                        \A i \in 1 .. (k + 1) - 1 : <<g, i>> \in arrived'
                 PROVE  Holding(strmh', g, (k + 1) - 1)
      BY <2>1 DEF InFrame
    <3>1. <<g - 1, Parts>> \in arrived
          BY <1>2
    <3>2. \A i \in 1 .. k - 1 : <<g, i>> \in arrived
          BY <1>2
    <3>3. k # Parts /\ (k + 1) - 1 = k
          BY <2>1, SizesAssumption
    <3> QED BY <1>7, <3>1, <3>2, <3>3
  <2>2. CASE at' = <<g + 1, 1>>
        BY <2>2 DEF InFrame
  <2> QED BY <1>5, <2>1, <2>2
<1>11. AfterEnd'
  <2>1. CASE at' = <<g, k + 1>>
        BY <2>1 DEF AfterEnd
  <2>2. CASE k = Parts /\ at' = <<g + 1, 1>>
    <3>1. (g + 1) - 1 = g /\ (g + 1) - 2 = g - 1
          OBVIOUS
    <3> SUFFICES ASSUME ~usesEof, Whole(g) \union {<<g - 1, Parts>>} \subseteq arrived'
                 PROVE  Holding(strmh', g, Parts)
      BY <1>2, <2>2, <3>1 DEF AfterEnd
    <3>2. <<g - 1, Parts>> \in arrived
          BY <1>2
    <3>3. \A i \in 1 .. k - 1 : <<g, i>> \in arrived
          BY <1>2, <2>2 DEF Whole
    <3> QED BY <1>7, <2>2, <3>2, <3>3
  <2> QED BY <1>5, <2>1, <2>2
<1>12. KnownPublished'
  <2> SUFFICES ASSUME NEW frame \in 2 .. MaxFrame, Known(frame)'
               PROVE  Published(strmh', frame)
    BY DEF KnownPublished
  <2>1. CASE Known(frame)
        BY <1>6, <2>1 DEF WholeInv, KnownPublished
  <2>2. CASE usesEof /\ g = frame /\ k = Parts
    <3>1. <<g - 1, Parts>> \in arrived
          BY <1>2, <2>2 DEF Known
    <3>2. \A i \in 1 .. k - 1 : <<g, i>> \in arrived
          BY <1>2, <2>2 DEF Known, Whole
    <3> QED BY <1>7, <2>2, <3>1, <3>2
  <2>3. CASE ~usesEof /\ g = frame + 1 /\ k = 1
    <3>1. g - 1 = frame /\ g - 2 = frame - 1 /\ frame \in Int
          BY <2>3
    <3>2. Whole(g - 1) \union {<<g - 2, Parts>>} \subseteq arrived
          BY <1>2, <3>1 DEF Known, Whole
    <3>3. Published(strmh, frame) \/ Holding(strmh, frame, Parts)
          BY <1>1, <2>3, <3>1, <3>2 DEF WholeInv, AfterEnd
    <3>4. Published(strmh, frame) => Published(strmh', frame)
          BY <1>6
    <3>5. Holding(strmh, frame, Parts) => Published(Toggle(strmh, p), frame)
          BY <1>3, <1>4, <2>3, <3>1, FlipPublishes
    <3>6. Published(Toggle(strmh, p), frame) => Published(strmh', frame)
          BY <1>3, <1>4, ReceivedType DEF p
    <3> QED BY <3>3, <3>4, <3>5, <3>6
  <2>4. Known(frame) \/ (usesEof /\ g = frame /\ k = Parts)
          \/ (~usesEof /\ g = frame + 1 /\ k = 1)
        BY <1>1, <1>2, <1>4, CompletedBy DEF WholeInv
  <2> QED BY <2>1, <2>2, <2>3, <2>4
<1> QED BY <1>8, <1>9, <1>10, <1>11, <1>12 DEF WholeInv

-----------------------------------------------------------------------------
(* A header alone *)

LEMMA HeaderWhole ==
  ASSUME TypeOK, WholeInv, Sending,
         NEW p, p.frame = at[1] \/ (at[2] = 1 /\ p.frame = at[1] - 1), ~p.data,
         p.eof => usesEof /\ p.frame # at[1],
         strmh' = EndFrame(Toggle(strmh, p), p),
         UNCHANGED <<isochronous, usesEof, at, arrived>>
  PROVE  WholeInv'
<1> DEFINE t == Toggle(strmh, p)
<1>1. PICK g \in 1 .. MaxFrame, k \in 1 .. Parts : at = <<g, k>>
      BY PlaceOf
<1>2. /\ g \in Int /\ k \in Int /\ p.frame \in Int /\ strmh \in Handle
      /\ Parts \in Nat /\ Parts # 0 /\ Fid(g) # Fid(g - 1)
  <2>1. g \in Int /\ k \in Int /\ Parts \in Nat /\ Parts # 0 /\ strmh \in Handle
        BY SizesAssumption DEF TypeOK
  <2>2. p.frame = g \/ p.frame = g - 1
        BY <1>1
  <2>3. Fid(g) # Fid(g - 1)
        BY <2>1, FidFlips
  <2> QED BY <2>1, <2>2, <2>3
<1>3. t \in Handle
      BY <1>2, ToggleType
<1>4. \A frame : Published(strmh, frame) => Published(strmh', frame)
      BY <1>2, <1>3, TogglePublishes, EndFramePublishes
<1>5. AtStart'
  <2> SUFFICES ASSUME StartReady(strmh, g) PROVE StartReady(strmh', g)
    BY <1>1 DEF WholeInv, AtStart
  <2>1. CASE strmh' = SwapBuffers(t)
        BY <1>3, <2>1, SwapType DEF StartReady
  <2>2. CASE strmh' = t
    <3>1. CASE t.outbuf = <<>> /\ ~t.bfh_err
          BY <2>2, <3>1 DEF StartReady
    <3>2. CASE t.outbuf # <<>>
      <4>1. t.outbuf = strmh.outbuf /\ t.fid = Fid(p.frame)
            BY <1>2, <3>2, ToggleType
      <4>2. strmh.fid = t.fid
            BY <1>2, <3>2, ToggleType
      <4> QED BY <2>2, <3>2, <4>1, <4>2 DEF StartReady
    <3>3. CASE t.outbuf = <<>> /\ t.bfh_err
          BY <1>2, <3>3, ToggleType DEF StartReady
    <3> QED BY <3>1, <3>2, <3>3
  <2> QED BY <1>3, <2>1, <2>2, EndFrameType
<1>6. InFrame'
  <2> SUFFICES ASSUME k > 1, Holding(strmh, g, k - 1) PROVE Holding(strmh', g, k - 1)
    BY <1>1 DEF WholeInv, InFrame
  <2>1. p.frame = g /\ ~p.eof
        BY <1>1, <1>2
  <2>2. t.outbuf = strmh.outbuf /\ t.bfh_err = strmh.bfh_err /\ t.fid = strmh.fid
        BY <1>2, <2>1, ToggleType DEF Holding
  <2>3. strmh' = t
        BY <1>3, <2>1, EndFrameType DEF Publishes
  <2> QED BY <2>2, <2>3 DEF Holding
<1>7. AfterEnd'
  <2> SUFFICES ASSUME ~usesEof, Published(strmh, g - 1) \/ Holding(strmh, g - 1, Parts)
               PROVE  Published(strmh', g - 1) \/ Holding(strmh', g - 1, Parts)
    BY <1>1 DEF WholeInv, AfterEnd
  <2>1. CASE Published(strmh, g - 1)
        BY <1>4, <2>1
  <2>2. CASE Holding(strmh, g - 1, Parts) /\ p.frame = g
    <3>1. (g - 1) + 1 = g /\ g - 1 \in Int
          BY <1>2
    <3>2. Published(t, g - 1)
          BY <1>2, <2>2, <3>1, FlipPublishes
    <3> QED BY <1>3, <3>2, EndFramePublishes
  <2>3. CASE Holding(strmh, g - 1, Parts) /\ p.frame = g - 1
    <3>1. t.outbuf = strmh.outbuf /\ t.bfh_err = strmh.bfh_err /\ t.fid = strmh.fid
          BY <1>2, <2>3, ToggleType DEF Holding
    <3>2. strmh' = t
          BY <1>3, EndFrameType DEF Publishes
    <3> QED BY <2>3, <3>1, <3>2 DEF Holding
  <2> QED BY <1>1, <2>1, <2>2, <2>3
<1>8. ArrivedBefore' /\ KnownPublished'
      BY <1>4 DEF WholeInv, ArrivedBefore, KnownPublished, Known
<1> QED BY <1>5, <1>6, <1>7, <1>8 DEF WholeInv

-----------------------------------------------------------------------------
LEMMA WholeInit == Init => WholeInv
BY DEF Init, WholeInv, ArrivedBefore, AtStart, InFrame, AfterEnd, KnownPublished, Known, Whole

LEMMA WholeNext == TypeOK /\ WholeInv /\ [Next]_vars => WholeInv'
<1> SUFFICES ASSUME TypeOK, WholeInv, [Next]_vars PROVE WholeInv'
  OBVIOUS
<1>1. ASSUME UNCHANGED <<strmh, usesEof, at, arrived>> PROVE WholeInv'
      BY <1>1 DEF WholeInv, ArrivedBefore, AtStart, InFrame, AfterEnd, KnownPublished, Known
<1>2. CASE ReceiveData
      BY <1>1, <1>2, DataWhole DEF ReceiveData, Received, Stored
<1>3. CASE ReceiveHeader
  <2>1. PICK frame \in {at[1]} \union (IF at[2] = 1 THEN {at[1] - 1} ELSE {}) :
          LET p == [frame |-> frame, part |-> at[2], data |-> FALSE,
                    eof |-> usesEof /\ frame < at[1]]
          IN  strmh' = EndFrame(Toggle(strmh, p), p)
        BY <1>3 DEF ReceiveHeader
  <2> DEFINE p == [frame |-> frame, part |-> at[2], data |-> FALSE,
                   eof |-> usesEof /\ frame < at[1]]
  <2>2. frame = at[1] \/ (at[2] = 1 /\ frame = at[1] - 1)
        BY <2>1
  <2>3. at[1] \in Int
        BY DEF TypeOK
  <2>4. /\ p.frame = frame /\ ~p.data /\ (p.eof => usesEof /\ frame # at[1])
    <3>1. frame < at[1] => frame # at[1]
          BY <2>3
    <3> QED BY <3>1, Zenon
  <2>5. strmh' = EndFrame(Toggle(strmh, p), p)
        BY <2>1
  <2> HIDE DEF p
  <2> QED BY <1>3, <2>2, <2>4, <2>5, HeaderWhole DEF ReceiveHeader
<1>4. CASE LosePacket
  <2>1. strmh' = strmh \/ strmh' = MarkError(strmh)
        BY <1>4 DEF LosePacket, Lost
  <2>2. \A frame : Published(strmh, frame) => Published(strmh', frame)
        BY <2>1, MarkErrorPublishes DEF TypeOK
  <2> QED BY <1>4, <2>2, MissingWhole DEF LosePacket
<1>5. CASE ReceiveErrorBit
      BY <1>5, MissingWhole DEF ReceiveErrorBit
<1>6. CASE ReceiveBogus
  <2>1. Packet.frame \in Int /\ strmh \in Handle
        BY DEF Packet, TypeOK
  <2>2. strmh' = MarkError(strmh) \/ strmh' = MarkError(Toggle(strmh, Packet))
        BY <1>6 DEF ReceiveBogus, Bogus
  <2>3. \A frame : Published(strmh, frame) => Published(strmh', frame)
        BY <2>1, <2>2, ToggleType, TogglePublishes, MarkErrorPublishes
  <2> QED BY <1>6, <2>3, MissingWhole DEF ReceiveBogus
<1>7. CASE UNCHANGED vars
      BY <1>1, <1>7 DEF vars
<1> QED BY <1>2, <1>3, <1>4, <1>5, <1>6, <1>7 DEF Next

LEMMA WholeImplies == WholeInv => WholeFrameIsPublished
BY DEF WholeInv, KnownPublished, Known, WholeFrameIsPublished, Published, Good

(* A frame that arrived whole, after one whose end arrived, is handed over   *)
(* as it is and without the error mark: by either function, whatever is lost *)
(* before and after it.                                                      *)
THEOREM WholeFrames == Spec => []WholeFrameIsPublished
BY TypeInit, TypeNext, WholeInit, WholeNext, WholeImplies, PTL DEF Spec
=============================================================================
