----------------------- MODULE PayloadAssembly_proofs -----------------------
(* Proofs about PayloadAssembly, for frames and buffers of any size.         *)
EXTENDS PayloadAssembly, TLAPS

-----------------------------------------------------------------------------
(* Types *)

LEMMA FidType == ASSUME NEW n \in Int PROVE Fid(n) \in 0 .. 1
BY DEF Fid

LEMMA FidFlips == ASSUME NEW n \in Int PROVE Fid(n) # Fid(n - 1)
BY DEF Fid

(* What each step of the two functions does to the handle *)
LEMMA SwapType ==
  ASSUME NEW s \in Handle
  PROVE  /\ SwapBuffers(s) \in Handle
         /\ SwapBuffers(s).fid = s.fid
         /\ SwapBuffers(s).outbuf = <<>>
         /\ SwapBuffers(s).bfh_err = FALSE
         /\ SwapBuffers(s).swapped
              = Append(s.swapped, [data |-> s.outbuf, err |-> s.bfh_err])
<1> DEFINE frame == [data |-> s.outbuf, err |-> s.bfh_err]
           sw == Append(s.swapped, frame)
<1>1. frame \in Frame
      BY DEF Handle, Frame
<1>2. sw \in Seq(Frame)
      BY <1>1 DEF Handle
<1>3. SwapBuffers(s) = [s EXCEPT !.swapped = sw, !.outbuf = <<>>, !.bfh_err = FALSE]
      BY DEF SwapBuffers
<1>4. <<>> \in Seq(Payload)
      OBVIOUS
<1> HIDE DEF sw
<1>5. /\ SwapBuffers(s) \in Handle
      /\ SwapBuffers(s).fid = s.fid /\ SwapBuffers(s).outbuf = <<>>
      /\ SwapBuffers(s).bfh_err = FALSE /\ SwapBuffers(s).swapped = sw
      BY <1>2, <1>3, <1>4 DEF Handle
<1> QED BY <1>5 DEF sw

LEMMA MarkErrorType ==
  ASSUME NEW s \in Handle
  PROVE  /\ MarkError(s) \in Handle
         /\ MarkError(s).fid = s.fid
         /\ MarkError(s).outbuf = s.outbuf
         /\ MarkError(s).bfh_err = TRUE
         /\ MarkError(s).swapped = s.swapped
BY DEF MarkError, Handle

LEMMA ToggleType ==
  ASSUME NEW s \in Handle, NEW p, p.frame \in Int
  PROVE  /\ Toggle(s, p) \in Handle
         /\ Toggle(s, p).fid = Fid(p.frame)
         /\ \/ /\ s.fid # Fid(p.frame) /\ s.outbuf # <<>>
               /\ Toggle(s, p).outbuf = <<>>
               /\ Toggle(s, p).bfh_err = FALSE
               /\ Toggle(s, p).swapped = SwapBuffers(s).swapped
            \/ /\ s.fid = Fid(p.frame) \/ s.outbuf = <<>>
               /\ Toggle(s, p).outbuf = s.outbuf
               /\ Toggle(s, p).bfh_err = s.bfh_err
               /\ Toggle(s, p).swapped = s.swapped
<1>1. Fid(p.frame) \in 0 .. 1
      BY FidType
<1>2. CASE s.fid # Fid(p.frame) /\ s.outbuf # <<>>
  <2> DEFINE t == SwapBuffers(s)
  <2>1. Toggle(s, p) = [t EXCEPT !.fid = Fid(p.frame)]
        BY <1>2 DEF Toggle
  <2>2. t \in Handle /\ t.outbuf = <<>> /\ t.bfh_err = FALSE
        BY SwapType
  <2> HIDE DEF t
  <2> QED BY <1>1, <1>2, <2>1, <2>2 DEF Handle, t
<1>3. CASE ~(s.fid # Fid(p.frame) /\ s.outbuf # <<>>)
  <2>1. Toggle(s, p) = [s EXCEPT !.fid = Fid(p.frame)]
        BY <1>3 DEF Toggle
  <2> QED BY <1>1, <1>3, <2>1 DEF Handle
<1> QED BY <1>2, <1>3

LEMMA StoreType ==
  ASSUME NEW s \in Handle, NEW p, <<p.frame, p.part>> \in Payload
  PROVE  /\ Store(s, p) \in Handle
         /\ Store(s, p).fid = s.fid
         /\ Store(s, p).swapped = s.swapped
         /\ \/ /\ p.data /\ Fits(s)
               /\ Store(s, p).outbuf = Append(s.outbuf, <<p.frame, p.part>>)
               /\ Store(s, p).bfh_err = s.bfh_err
            \/ Store(s, p).outbuf = s.outbuf /\ ~p.data /\ Store(s, p) = s
            \/ Store(s, p).outbuf = s.outbuf /\ ~Fits(s) /\ Store(s, p).bfh_err
<1>1. CASE ~p.data
      BY <1>1 DEF Store
<1>2. CASE p.data /\ Fits(s)
  <2> DEFINE out == Append(s.outbuf, <<p.frame, p.part>>)
  <2>1. out \in Seq(Payload)
        BY DEF Handle
  <2>2. Store(s, p) = [s EXCEPT !.outbuf = out]
        BY <1>2 DEF Store
  <2> HIDE DEF out
  <2>3. /\ Store(s, p) \in Handle
        /\ Store(s, p).fid = s.fid /\ Store(s, p).swapped = s.swapped
        /\ Store(s, p).bfh_err = s.bfh_err /\ Store(s, p).outbuf = out
        BY <2>1, <2>2 DEF Handle
  <2> QED BY <1>2, <2>3 DEF out
<1>3. CASE p.data /\ ~Fits(s)
      BY <1>3, MarkErrorType DEF Store
<1> QED BY <1>1, <1>2, <1>3

LEMMA StoreFits ==
  ASSUME NEW s \in Handle, Len(s.outbuf) <= Size,
         NEW p, <<p.frame, p.part>> \in Payload
  PROVE  Len(Store(s, p).outbuf) <= Size
<1>1. s.outbuf \in Seq(Payload)
      BY DEF Handle
<1> QED BY <1>1, StoreType DEF Fits

LEMMA EndFrameType ==
  ASSUME NEW s \in Handle, NEW p
  PROVE  /\ EndFrame(s, p) \in Handle
         /\ \/ EndFrame(s, p) = s /\ ~Publishes(s, p)
            \/ EndFrame(s, p) = SwapBuffers(s) /\ Publishes(s, p)
BY SwapType DEF EndFrame

LEMMA NothingFits == Len(<<>>) <= Size
<1>1. Len(<<>>) = 0
      OBVIOUS
<1>2. Size \in Nat
      BY SizesAssumption
<1> QED BY <1>1, <1>2

LEMMA ToggleFits ==
  ASSUME NEW s \in Handle, Len(s.outbuf) <= Size, NEW p, p.frame \in Int
  PROVE  Len(Toggle(s, p).outbuf) <= Size
<1>1. Toggle(s, p).outbuf = <<>> \/ Toggle(s, p).outbuf = s.outbuf
      BY ToggleType
<1> QED BY <1>1, NothingFits

LEMMA EndFrameFits ==
  ASSUME NEW s \in Handle, Len(s.outbuf) <= Size, NEW p
  PROVE  Len(EndFrame(s, p).outbuf) <= Size
<1>1. EndFrame(s, p).outbuf = <<>> \/ EndFrame(s, p).outbuf = s.outbuf
      BY EndFrameType, SwapType
<1> QED BY <1>1, NothingFits

-----------------------------------------------------------------------------
(* TypeOK is inductive.                                                      *)

LEMMA FollowingType ==
  ASSUME NEW a \in (1 .. MaxFrame + 2) \X (1 .. Parts), a[1] <= MaxFrame
  PROVE  /\ a \in Payload
         /\ Following(a) \in (1 .. MaxFrame + 2) \X (1 .. Parts)
BY SizesAssumption DEF Following, Payload

LEMMA TypeInit == Init => TypeOK
<1> SUFFICES ASSUME Init PROVE TypeOK
  OBVIOUS
<1>1. <<>> \in Seq(Payload) /\ <<>> \in Seq(Frame) /\ 0 \in 0 .. 1
      OBVIOUS
<1>2. strmh \in Handle /\ strmh.outbuf = <<>>
      BY <1>1 DEF Init, Handle
<1>3. (1 .. 2) \X (1 .. Parts) \subseteq (1 .. MaxFrame + 2) \X (1 .. Parts)
      BY SizesAssumption
<1> QED BY <1>2, <1>3, NothingFits DEF Init, TypeOK

LEMMA TypeNext == TypeOK /\ [Next]_vars => TypeOK'
<1> SUFFICES ASSUME TypeOK, [Next]_vars PROVE TypeOK'
  OBVIOUS
<1> USE DEF TypeOK
<1>1. CASE ReceiveData
  <2> DEFINE s == Toggle(strmh, Packet)
             t == Store(s, Packet)
  <2>1. /\ at \in Payload /\ Packet.frame = at[1] /\ Packet.part = at[2]
        /\ <<Packet.frame, Packet.part>> \in Payload /\ Packet.frame \in Int
        BY <1>1, FollowingType DEF ReceiveData, Sending, Packet, Payload
  <2>2. s \in Handle /\ Len(s.outbuf) <= Size
        BY <2>1, ToggleType, ToggleFits
  <2>3. t \in Handle /\ Len(t.outbuf) <= Size
        BY <2>1, <2>2, StoreType, StoreFits
  <2>4. EndFrame(t, Packet) \in Handle /\ Len(EndFrame(t, Packet).outbuf) <= Size
        BY <2>3, EndFrameType, EndFrameFits
  <2> HIDE DEF s, t
  <2>5. CASE aborted' = TRUE /\ UNCHANGED <<strmh, isochronous, usesEof, at, arrived, skipped>>
        BY <2>5
  <2>6. CASE strmh' = EndFrame(t, Packet) /\ Arrives /\ UNCHANGED aborted
    <3>1. /\ at' \in (1 .. MaxFrame + 2) \X (1 .. Parts)
          /\ arrived' \subseteq Payload /\ UNCHANGED <<isochronous, usesEof, skipped>>
          BY <1>1, <2>1, <2>6, FollowingType DEF ReceiveData, Sending, Arrives
    <3> QED BY <2>4, <2>6, <3>1
  <2> QED BY <1>1, <2>5, <2>6 DEF ReceiveData, s, t
<1>2. CASE ReceiveHeader
  <2>1. PICK frame \in {at[1]} \union (IF at[2] = 1 THEN {at[1] - 1} ELSE {}) :
          LET p == [frame |-> frame, part |-> at[2], data |-> FALSE,
                    eof |-> usesEof /\ frame < at[1]]
          IN  strmh' = EndFrame(Toggle(strmh, p), p)
        BY <1>2 DEF ReceiveHeader
  <2> DEFINE p == [frame |-> frame, part |-> at[2], data |-> FALSE,
                   eof |-> usesEof /\ frame < at[1]]
             s == Toggle(strmh, p)
  <2>2. p.frame \in Int
        BY <2>1
  <2> HIDE DEF p
  <2>3. s \in Handle /\ Len(s.outbuf) <= Size
        BY <2>2, ToggleType, ToggleFits
  <2> HIDE DEF s
  <2>4. EndFrame(s, p) \in Handle /\ Len(EndFrame(s, p).outbuf) <= Size
        BY <2>3, EndFrameType, EndFrameFits
  <2>5. strmh' = EndFrame(s, p)
        BY <2>1 DEF p, s
  <2> QED BY <1>2, <2>4, <2>5 DEF ReceiveHeader
<1>3. ASSUME Sending, NEW kind, GoesMissing(kind),
             strmh' \in Handle, Len(strmh'.outbuf) <= Size
      PROVE  TypeOK'
  <2>1. at \in Payload /\ at' \in (1 .. MaxFrame + 2) \X (1 .. Parts)
        BY <1>3, FollowingType DEF Sending, GoesMissing
  <2> QED BY <1>3, <2>1 DEF GoesMissing
<1>4. CASE LosePacket
  <2>1. strmh' \in Handle /\ Len(strmh'.outbuf) <= Size
        BY <1>4, MarkErrorType DEF LosePacket, Lost
  <2> QED BY <1>3, <1>4, <2>1 DEF LosePacket
<1>5. CASE ReceiveErrorBit
      BY <1>3, <1>5 DEF ReceiveErrorBit
<1>6. CASE ReceiveBogus
  <2>1. Packet.frame \in Int
        BY DEF Packet
  <2>2. Toggle(strmh, Packet) \in Handle /\ Len(Toggle(strmh, Packet).outbuf) <= Size
        BY <2>1, ToggleType, ToggleFits
  <2>3. strmh' \in Handle /\ Len(strmh'.outbuf) <= Size
        BY <1>6, <2>2, MarkErrorType DEF ReceiveBogus, Bogus
  <2> QED BY <1>3, <1>6, <2>3 DEF ReceiveBogus
<1>7. CASE UNCHANGED vars
      BY <1>7 DEF vars
<1> QED BY <1>1, <1>2, <1>4, <1>5, <1>6, <1>7 DEF Next

(* Every variable keeps to its type, and got_bytes to size_buf.             *)
THEOREM TypeCorrect == Spec => []TypeOK
BY TypeInit, TypeNext, PTL DEF Spec

-----------------------------------------------------------------------------
(* GoodFrameHasNoHole: without the error mark the buffer holds a run of      *)
(* payloads that ends where the camera is.                                   *)

LastFrame(a) == IF a[2] = 1 THEN a[1] - 1 ELSE a[1]
LastPart(a) == IF a[2] = 1 THEN Parts ELSE a[2] - 1

RunsTo(s, frame, last) ==
    /\ frame \in 1 .. MaxFrame
    /\ s.fid = Fid(frame)
    /\ \E first \in 1 .. Parts : s.outbuf = Run(frame, first, last)

Unbroken(s, a) == s.bfh_err \/ s.outbuf = <<>> \/ RunsTo(s, LastFrame(a), LastPart(a))

TailOfFrame(f) == \E frame \in 1 .. MaxFrame, first \in 1 .. Parts :
               f.data = Run(frame, first, Parts)

GoodTails(s) == \A i \in DOMAIN s.swapped : s.swapped[i].err \/ TailOfFrame(s.swapped[i])

HoleInv == Unbroken(strmh, at) /\ GoodTails(strmh)

Position == (1 .. MaxFrame + 2) \X (1 .. Parts)

LEMMA RunStarts ==
  ASSUME NEW frame \in Int, NEW first \in Int
  PROVE  Append(<<>>, <<frame, first>>) = Run(frame, first, first)
BY DEF Run

LEMMA RunGrows ==
  ASSUME NEW frame \in Int, NEW first \in Int, NEW last \in Int, first <= last + 1
  PROVE  Append(Run(frame, first, last), <<frame, last + 1>>)
           = Run(frame, first, last + 1)
<1> DEFINE n == last - first + 1
           old == Run(frame, first, last)
           new == Run(frame, first, last + 1)
<1>1. n \in Nat /\ n + 1 = (last + 1) - first + 1
      OBVIOUS
<1>2. old \in Seq(Int \X Int) /\ Len(old) = n
      BY <1>1 DEF Run
<1>3. new \in Seq(Int \X Int) /\ Len(new) = n + 1
      BY <1>1 DEF Run
<1>4. /\ \A i \in 1 .. n : old[i] = <<frame, first + i - 1>>
      /\ \A i \in 1 .. n + 1 : new[i] = <<frame, first + i - 1>>
      BY <1>1 DEF Run
<1>5. first + (n + 1) - 1 = last + 1
      OBVIOUS
<1> DEFINE e == <<frame, last + 1>>
           app == Append(old, e)
<1>6. e \in Int \X Int /\ new[n + 1] = e
      BY <1>1, <1>4, <1>5
<1> HIDE DEF n, old, new, e
<1>7. /\ app \in Seq(Int \X Int) /\ Len(app) = n + 1
      /\ app[n + 1] = e /\ \A i \in 1 .. n : app[i] = old[i]
      BY <1>1, <1>2, <1>6
<1>8. \A i \in 1 .. n + 1 : i \in 1 .. n \/ i = n + 1
      BY <1>1
<1> HIDE DEF app
<1>9. \A i \in 1 .. n + 1 : app[i] = new[i]
      BY <1>1, <1>4, <1>6, <1>7, <1>8
<1>10. app = new
      BY <1>1, <1>3, <1>7, <1>9
<1> QED BY <1>10 DEF app, old, new, e

(* What the buffer swaps in is marked, or a run to the end of a frame. *)
LEMMA SwapGood ==
  ASSUME NEW s \in Handle, GoodTails(s),
         s.bfh_err \/ \E frame : RunsTo(s, frame, Parts)
  PROVE  GoodTails(SwapBuffers(s))
<1> DEFINE f == [data |-> s.outbuf, err |-> s.bfh_err]
<1>1. f.err \/ TailOfFrame(f)
      BY DEF TailOfFrame, RunsTo
<1>2. s.swapped \in Seq(Frame) /\ f \in Frame
      BY DEF Handle, Frame
<1>3. SwapBuffers(s).swapped = Append(s.swapped, f)
      BY SwapType
<1> HIDE DEF f
<1> QED BY <1>1, <1>2, <1>3 DEF GoodTails

(* The frame ID can flip only when the frame in the buffer is over. *)
LEMMA ToggleGood ==
  ASSUME NEW s \in Handle, NEW a \in Position, GoodTails(s), Unbroken(s, a),
         NEW p, p.frame \in Int, p.frame = a[1] \/ (a[2] = 1 /\ p.frame = a[1] - 1)
  PROVE  /\ GoodTails(Toggle(s, p)) /\ Unbroken(Toggle(s, p), a)
         /\ \/ Toggle(s, p).outbuf = <<>> \/ Toggle(s, p).bfh_err
            \/ RunsTo(Toggle(s, p), p.frame, LastPart(a))
<1> DEFINE t == Toggle(s, p)
<1>1. t.fid = Fid(p.frame)
      BY ToggleType
<1>2. CASE /\ s.fid # Fid(p.frame) /\ s.outbuf # <<>>
           /\ t.outbuf = <<>> /\ t.swapped = SwapBuffers(s).swapped
  <2>1. s.bfh_err \/ RunsTo(s, LastFrame(a), LastPart(a))
        BY <1>2 DEF Unbroken
  <2>2. RunsTo(s, LastFrame(a), LastPart(a)) => LastFrame(a) # p.frame
        BY <1>2 DEF RunsTo
  <2>3. LastFrame(a) # p.frame => LastPart(a) = Parts
        BY DEF LastFrame, LastPart
  <2>4. GoodTails(SwapBuffers(s))
        BY <2>1, <2>2, <2>3, SwapGood
  <2>5. GoodTails(t)
        BY <1>2, <2>4 DEF GoodTails
  <2> QED BY <1>2, <2>5 DEF Unbroken
<1>3. CASE /\ s.fid = Fid(p.frame) \/ s.outbuf = <<>>
           /\ t.outbuf = s.outbuf /\ t.bfh_err = s.bfh_err /\ t.swapped = s.swapped
  <2>1. GoodTails(t)
        BY <1>3 DEF GoodTails
  <2>2. CASE t.outbuf = <<>> \/ t.bfh_err
        BY <2>1, <2>2 DEF Unbroken
  <2>3. CASE t.outbuf # <<>> /\ ~t.bfh_err
    <3>1. RunsTo(s, LastFrame(a), LastPart(a)) /\ s.fid = Fid(p.frame)
          BY <1>3, <2>3 DEF Unbroken
    <3>2. t.fid = s.fid
          BY <1>1, <3>1
    <3>3. RunsTo(t, LastFrame(a), LastPart(a))
          BY <1>3, <3>1, <3>2 DEF RunsTo
    <3>4. Fid(LastFrame(a)) = Fid(p.frame)
          BY <3>1 DEF RunsTo
    <3>5. LastFrame(a) = p.frame
      <4>1. a[1] \in Int
            BY DEF Position
      <4>2. LastFrame(a) = p.frame \/ LastFrame(a) = p.frame - 1
            BY <4>1 DEF LastFrame
      <4>3. Fid(p.frame) # Fid(p.frame - 1)
            BY FidFlips
      <4> QED BY <3>4, <4>2, <4>3
    <3> QED BY <2>1, <3>3, <3>5 DEF Unbroken
  <2> QED BY <2>2, <2>3
<1> HIDE DEF t
<1> QED BY <1>2, <1>3, ToggleType DEF t

LEMMA EndFrameGood ==
  ASSUME NEW s \in Handle, NEW a, NEW p, GoodTails(s), Unbroken(s, a),
         s.bfh_err \/ ~p.eof \/ s.outbuf = <<>> \/ RunsTo(s, p.frame, Parts),
         isochronous
  PROVE  GoodTails(EndFrame(s, p)) /\ Unbroken(EndFrame(s, p), a)
<1>1. CASE EndFrame(s, p) = s
      BY <1>1
<1>2. CASE EndFrame(s, p) = SwapBuffers(s) /\ Publishes(s, p)
  <2>1. p.eof /\ s.outbuf # <<>>
        BY <1>2 DEF Publishes
  <2>2. s.bfh_err \/ \E frame : RunsTo(s, frame, Parts)
        BY <2>1
  <2>3. GoodTails(EndFrame(s, p))
        BY <1>2, <2>2, SwapGood
  <2>4. EndFrame(s, p).outbuf = <<>>
        BY <1>2, SwapType
  <2> QED BY <2>3, <2>4 DEF Unbroken
<1> QED BY <1>1, <1>2, EndFrameType

LEMMA HoleInit == Init => HoleInv
BY DEF Init, HoleInv, Unbroken, GoodTails

LEMMA RunEmpty ==
  ASSUME NEW frame, NEW first \in Int, NEW last \in Int, last < first
  PROVE  Run(frame, first, last) = <<>>
<1>1. 1 .. last - first + 1 = {}
      OBVIOUS
<1> QED BY <1>1 DEF Run

(* A payload stored continues the run. *)
LEMMA StoreGood ==
  ASSUME NEW s \in Handle, NEW a \in Payload, NEW p,
         p.frame = a[1], p.part = a[2], p.data,
         s.fid = Fid(a[1]), GoodTails(s), Unbroken(s, a)
  PROVE  /\ GoodTails(Store(s, p)) /\ Unbroken(Store(s, p), Following(a))
         /\ \/ Store(s, p).bfh_err \/ Store(s, p).outbuf = <<>>
            \/ RunsTo(Store(s, p), a[1], a[2])
<1> DEFINE t == Store(s, p)
<1>1. a[1] \in 1 .. MaxFrame /\ a[2] \in 1 .. Parts /\ <<p.frame, p.part>> \in Payload
      BY DEF Payload
<1>2. LastFrame(Following(a)) = a[1] /\ LastPart(Following(a)) = a[2]
      BY <1>1, SizesAssumption DEF LastFrame, LastPart, Following
<1>3. t.fid = s.fid /\ t.swapped = s.swapped
      BY <1>1, StoreType
<1>4. GoodTails(t)
      BY <1>3 DEF GoodTails
<1>5. CASE t.bfh_err
      BY <1>4, <1>5 DEF Unbroken
<1>6. CASE ~t.bfh_err
  <2>1. ~s.bfh_err /\ t.outbuf = Append(s.outbuf, <<a[1], a[2]>>)
        BY <1>1, <1>6, StoreType
  <2>2. \E first \in 1 .. Parts : t.outbuf = Run(a[1], first, a[2])
    <3>1. CASE s.outbuf = <<>>
          BY <1>1, <2>1, <3>1, RunStarts
    <3>2. CASE s.outbuf # <<>>
      <4>1. RunsTo(s, LastFrame(a), LastPart(a))
            BY <2>1, <3>2 DEF Unbroken
      <4>2. a[2] # 1
        <5>1. Fid(a[1]) = Fid(LastFrame(a))
              BY <4>1 DEF RunsTo
        <5> QED BY <1>1, <5>1, FidFlips DEF LastFrame
      <4>3. PICK first \in 1 .. Parts : s.outbuf = Run(a[1], first, a[2] - 1)
            BY <4>1, <4>2 DEF RunsTo, LastFrame, LastPart
      <4>4. first \in Int /\ a[1] \in Int /\ a[2] - 1 \in Int /\ (a[2] - 1) + 1 = a[2]
            BY <1>1
      <4>5. first <= (a[2] - 1) + 1
            BY <3>2, <4>3, <4>4, RunEmpty
      <4>6. Append(Run(a[1], first, a[2] - 1), <<a[1], (a[2] - 1) + 1>>)
              = Run(a[1], first, (a[2] - 1) + 1)
            BY <4>4, <4>5, RunGrows
      <4> QED BY <2>1, <4>3, <4>4, <4>6
    <3> QED BY <3>1, <3>2
  <2>3. RunsTo(t, a[1], a[2])
        BY <1>1, <1>3, <2>2 DEF RunsTo
  <2> QED BY <1>2, <1>4, <2>3 DEF Unbroken
<1> QED BY <1>5, <1>6

LEMMA HoleData ==
  ASSUME TypeOK, HoleInv, ReceiveData, isochronous
  PROVE  HoleInv'
<1> DEFINE s == Toggle(strmh, Packet)
           t == Store(s, Packet)
<1>1. /\ strmh \in Handle /\ at \in Position /\ at \in Payload
      /\ Packet.frame = at[1] /\ Packet.part = at[2] /\ Packet.data
      /\ Packet.eof => at[2] = Parts
      /\ <<Packet.frame, Packet.part>> \in Payload /\ Packet.frame \in Int
      BY FollowingType DEF TypeOK, Position, ReceiveData, Sending, Packet, Payload
<1>2. s \in Handle /\ s.fid = Fid(at[1])
      BY <1>1, ToggleType
<1>3. GoodTails(s) /\ Unbroken(s, at)
      BY <1>1, ToggleGood DEF HoleInv
<1>4. t \in Handle
      BY <1>1, <1>2, StoreType
<1>5. /\ GoodTails(t) /\ Unbroken(t, Following(at))
      /\ t.bfh_err \/ t.outbuf = <<>> \/ RunsTo(t, at[1], at[2])
      BY <1>1, <1>2, <1>3, StoreGood
<1> HIDE DEF s, t
<1>6. t.bfh_err \/ ~Packet.eof \/ t.outbuf = <<>> \/ RunsTo(t, Packet.frame, Parts)
      BY <1>1, <1>5
<1>7. GoodTails(EndFrame(t, Packet)) /\ Unbroken(EndFrame(t, Packet), Following(at))
      BY <1>4, <1>5, <1>6, EndFrameGood
<1>8. CASE UNCHANGED <<strmh, at>>
      BY <1>8 DEF HoleInv
<1>9. CASE strmh' = EndFrame(t, Packet) /\ at' = Following(at)
      BY <1>7, <1>9 DEF HoleInv
<1> QED BY <1>8, <1>9 DEF ReceiveData, Arrives, s, t

LEMMA HoleHeader ==
  ASSUME TypeOK, HoleInv, ReceiveHeader, isochronous
  PROVE  HoleInv'
<1>1. PICK frame \in {at[1]} \union (IF at[2] = 1 THEN {at[1] - 1} ELSE {}) :
        LET p == [frame |-> frame, part |-> at[2], data |-> FALSE,
                  eof |-> usesEof /\ frame < at[1]]
        IN  strmh' = EndFrame(Toggle(strmh, p), p)
      BY DEF ReceiveHeader
<1> DEFINE p == [frame |-> frame, part |-> at[2], data |-> FALSE,
                 eof |-> usesEof /\ frame < at[1]]
           s == Toggle(strmh, p)
<1>2. strmh \in Handle /\ at \in Position
      BY DEF TypeOK, Position
<1>3. /\ p.frame \in Int /\ p.frame = frame
      /\ p.frame = at[1] \/ (at[2] = 1 /\ p.frame = at[1] - 1)
      BY <1>1, <1>2 DEF Position
<1>4. p.eof => p.frame < at[1]
      BY <1>3
<1>5. strmh' = EndFrame(s, p)
      BY <1>1
<1> HIDE DEF p
<1>6. s \in Handle
      BY <1>2, <1>3, ToggleType
<1>7. /\ GoodTails(s) /\ Unbroken(s, at)
      /\ s.outbuf = <<>> \/ s.bfh_err \/ RunsTo(s, p.frame, LastPart(at))
      BY <1>2, <1>3, ToggleGood DEF HoleInv
<1> HIDE DEF s
<1>8. p.eof => LastPart(at) = Parts
      BY <1>2, <1>3, <1>4 DEF LastPart, Position
<1>9. GoodTails(EndFrame(s, p)) /\ Unbroken(EndFrame(s, p), at)
      BY <1>6, <1>7, <1>8, EndFrameGood
<1>10. at' = at
       BY DEF ReceiveHeader
<1> QED BY <1>5, <1>9, <1>10 DEF HoleInv

LEMMA HoleNext ==
  ASSUME TypeOK, HoleInv, [Next]_vars, isochronous, ~skipped'
  PROVE  HoleInv'
<1>1. ASSUME NEW s \in Handle, GoodTails(s), strmh' = MarkError(s) PROVE HoleInv'
  <2>1. strmh'.bfh_err /\ strmh'.swapped = s.swapped
        BY <1>1, MarkErrorType
  <2> QED BY <1>1, <2>1 DEF HoleInv, Unbroken, GoodTails
<1>2. CASE LosePacket
      BY <1>1, <1>2 DEF LosePacket, Lost, TypeOK, HoleInv
<1>3. CASE ReceiveErrorBit
      BY <1>3 DEF ReceiveErrorBit, GoesMissing
<1>4. CASE ReceiveBogus
  <2>1. /\ strmh \in Handle /\ at \in Position
        /\ Packet.frame = at[1] /\ Packet.frame \in Int
        BY DEF TypeOK, Position, Packet
  <2>2. Toggle(strmh, Packet) \in Handle /\ GoodTails(Toggle(strmh, Packet))
        BY <2>1, ToggleType, ToggleGood DEF HoleInv
  <2> QED BY <1>1, <1>4, <2>2 DEF ReceiveBogus, Bogus
<1>5. CASE UNCHANGED vars
      BY <1>5 DEF vars, HoleInv
<1> QED BY <1>2, <1>3, <1>4, <1>5, HoleData, HoleHeader DEF Next

(* On an isochronous endpoint that had only lost or bogus packets, a frame   *)
(* without the error mark has no hole: _uvc_process_payload_iso marks every  *)
(* frame from whose middle or end it lost something.                        *)
THEOREM NoHoles == Spec => []GoodFrameHasNoHole
<1> DEFINE Inv == isochronous /\ ~skipped => HoleInv
<1>1. Inv => GoodFrameHasNoHole
      BY DEF HoleInv, GoodTails, TailOfFrame, GoodFrameHasNoHole, Good
<1>2. TypeOK /\ Inv /\ [Next]_vars => Inv'
  <2> SUFFICES ASSUME TypeOK, Inv, [Next]_vars, isochronous', ~skipped'
               PROVE  HoleInv'
    OBVIOUS
  <2>1. isochronous' = isochronous
        BY DEF Next, vars, ReceiveData, ReceiveHeader, LosePacket, ReceiveErrorBit,
               ReceiveBogus, Arrives, GoesMissing
  <2>2. ~skipped
    <3>1. ASSUME NEW kind, GoesMissing(kind) PROVE ~skipped
          BY <3>1 DEF GoesMissing
    <3>2. CASE UNCHANGED skipped
          BY <3>2
    <3> QED BY <3>1, <3>2 DEF Next, vars, ReceiveData, ReceiveHeader, LosePacket,
               ReceiveErrorBit, ReceiveBogus, Arrives
  <2> QED BY <2>1, <2>2, HoleNext
<1>3. Init => Inv
      BY HoleInit
<1> HIDE DEF Inv
<1> QED BY <1>1, <1>2, <1>3, TypeInit, TypeNext, PTL DEF Spec

-----------------------------------------------------------------------------
(* FramesInOrder: all that was stored comes before the payload the camera    *)
(* sends next, and all that was swapped before what is in the buffer.        *)

Before(p, q) == p[1] < q[1] \/ (p[1] = q[1] /\ p[2] < q[2])

AllBefore(data, a) == \A x \in DOMAIN data : Before(data[x], a)
Precedes(data, later) ==
    \A x \in DOMAIN data, y \in DOMAIN later : Before(data[x], later[y])

SwappedBefore(s, a) == \A i \in DOMAIN s.swapped : AllBefore(s.swapped[i].data, a)
BufferLast(s) == \A i \in DOMAIN s.swapped : Precedes(s.swapped[i].data, s.outbuf)
SwappedInOrder(s) ==
    \A i, j \in DOMAIN s.swapped :
        i < j => Precedes(s.swapped[i].data, s.swapped[j].data)

Ascending(data) == \A x, y \in DOMAIN data : x < y => Before(data[x], data[y])
FramesAscend(s) ==
    Ascending(s.outbuf) /\ \A i \in DOMAIN s.swapped : Ascending(s.swapped[i].data)

Ordered(s, a) ==
    /\ AllBefore(s.outbuf, a) /\ SwappedBefore(s, a)
    /\ BufferLast(s) /\ SwappedInOrder(s) /\ FramesAscend(s)

LEMMA NextIsLater ==
  ASSUME NEW a \in Position
  PROVE  /\ Before(a, Following(a))
         /\ \A p \in Payload : Before(p, a) => Before(p, Following(a))
<1>1. a[1] \in Int /\ a[2] \in Int /\ \A p \in Payload : p[1] \in Int /\ p[2] \in Int
      BY SizesAssumption DEF Position, Payload
<1> QED BY <1>1 DEF Before, Following

LEMMA OrderedMoves ==
  ASSUME NEW s \in Handle, NEW a \in Position, Ordered(s, a)
  PROVE  Ordered(s, Following(a))
<1>1. s.outbuf \in Seq(Payload)
      BY DEF Handle
<1>2. \A i \in DOMAIN s.swapped : s.swapped[i].data \in Seq(Payload)
  <2>1. s.swapped \in Seq(Frame)
        BY DEF Handle
  <2>2. \A i \in DOMAIN s.swapped : s.swapped[i] \in Frame
        BY <2>1
  <2> QED BY <2>2 DEF Frame
<1>3. ASSUME NEW d \in Seq(Payload), AllBefore(d, a) PROVE AllBefore(d, Following(a))
  <2>1. \A x \in DOMAIN d : d[x] \in Payload
        OBVIOUS
  <2> QED BY <1>3, <2>1, NextIsLater DEF AllBefore
<1> QED BY <1>1, <1>2, <1>3 DEF Ordered, SwappedBefore

LEMMA SwapOrdered ==
  ASSUME NEW s \in Handle, NEW a, Ordered(s, a)
  PROVE  Ordered(SwapBuffers(s), a)
<1> DEFINE f == [data |-> s.outbuf, err |-> s.bfh_err]
           t == SwapBuffers(s)
           n == Len(s.swapped)
<1>1. f \in Frame /\ f.data = s.outbuf /\ s.swapped \in Seq(Frame)
      BY DEF Handle, Frame
<1>2. t.swapped = Append(s.swapped, f) /\ t.outbuf = <<>>
      BY SwapType
<1> HIDE DEF f, t
<1>3. /\ n \in Nat /\ DOMAIN s.swapped = 1 .. n /\ DOMAIN t.swapped = 1 .. n + 1
      /\ \A i \in 1 .. n : t.swapped[i] = s.swapped[i]
      /\ t.swapped[n + 1] = f
      BY <1>1, <1>2
<1>4. AllBefore(t.outbuf, a) /\ BufferLast(t)
      BY <1>2 DEF AllBefore, BufferLast, Precedes
<1> HIDE DEF n
<1>5. \A i \in 1 .. n + 1 : i \in 1 .. n \/ i = n + 1
      BY <1>3
<1>6. SwappedBefore(t, a)
      BY <1>1, <1>3, <1>5 DEF Ordered, SwappedBefore
<1>7. ASSUME NEW i \in 1 .. n + 1, NEW j \in 1 .. n + 1, i < j
      PROVE  Precedes(t.swapped[i].data, t.swapped[j].data)
  <2>1. i \in 1 .. n
        BY <1>3, <1>7
  <2>2. CASE j \in 1 .. n
        BY <1>3, <1>7, <2>1, <2>2 DEF Ordered, SwappedInOrder
  <2>3. CASE j = n + 1
        BY <1>1, <1>3, <2>1, <2>3 DEF Ordered, BufferLast
  <2> QED BY <1>5, <2>2, <2>3
<1>8. SwappedInOrder(t)
      BY <1>3, <1>7 DEF SwappedInOrder
<1>9. FramesAscend(t)
  <2>1. Ascending(t.outbuf)
        BY <1>2 DEF Ascending
  <2>2. \A i \in 1 .. n + 1 : Ascending(t.swapped[i].data)
        BY <1>1, <1>3, <1>5 DEF Ordered, FramesAscend
  <2> QED BY <1>3, <2>1, <2>2 DEF FramesAscend
<1> QED BY <1>4, <1>6, <1>8, <1>9 DEF Ordered, t

(* Ordered looks at the buffer and at what was swapped only. *)
LEMMA OrderedSame ==
  ASSUME NEW s, NEW t, NEW a, Ordered(s, a),
         t.outbuf = s.outbuf, t.swapped = s.swapped
  PROVE  Ordered(t, a)
BY DEF Ordered, SwappedBefore, BufferLast, SwappedInOrder, FramesAscend

LEMMA MarkErrorOrdered ==
  ASSUME NEW s \in Handle, NEW a, Ordered(s, a)
  PROVE  Ordered(MarkError(s), a)
BY MarkErrorType, OrderedSame

LEMMA ToggleOrdered ==
  ASSUME NEW s \in Handle, NEW a, NEW p, p.frame \in Int, Ordered(s, a)
  PROVE  Ordered(Toggle(s, p), a)
<1>1. CASE Toggle(s, p).outbuf = s.outbuf /\ Toggle(s, p).swapped = s.swapped
      BY <1>1, OrderedSame
<1>2. CASE /\ Toggle(s, p).outbuf = <<>>
           /\ Toggle(s, p).swapped = SwapBuffers(s).swapped
      BY <1>2, SwapType, SwapOrdered, OrderedSame
<1> QED BY <1>1, <1>2, ToggleType

LEMMA EndFrameOrdered ==
  ASSUME NEW s \in Handle, NEW a, NEW p, Ordered(s, a)
  PROVE  Ordered(EndFrame(s, p), a)
BY EndFrameType, SwapOrdered

(* The payload stored is the latest of all. *)
LEMMA StoreOrdered ==
  ASSUME NEW s \in Handle, NEW a \in Payload, a \in Position, NEW p,
         p.frame = a[1], p.part = a[2], Ordered(s, a)
  PROVE  Ordered(Store(s, p), Following(a))
<1> DEFINE t == Store(s, p)
           n == Len(s.outbuf)
<1>1. <<p.frame, p.part>> = a /\ <<p.frame, p.part>> \in Payload
      BY DEF Payload
<1>2. t.swapped = s.swapped /\ (t.outbuf = s.outbuf \/ t.outbuf = Append(s.outbuf, a))
      BY <1>1, StoreType
<1>3. s.outbuf \in Seq(Payload)
      BY DEF Handle
<1>4. Ordered(s, Following(a))
      BY OrderedMoves
<1> HIDE DEF t
<1>5. CASE t.outbuf = s.outbuf
      BY <1>2, <1>4, <1>5, OrderedSame DEF t
<1>6. CASE t.outbuf = Append(s.outbuf, a)
  <2>1. /\ DOMAIN s.outbuf = 1 .. n /\ DOMAIN t.outbuf = 1 .. n + 1
        /\ \A x \in 1 .. n : t.outbuf[x] = s.outbuf[x]
        /\ t.outbuf[n + 1] = a /\ n \in Nat
        BY <1>3, <1>6
  <2> HIDE DEF n
  <2>2. \A x \in 1 .. n + 1 : x \in 1 .. n \/ x = n + 1
        BY <2>1
  <2>3. AllBefore(t.outbuf, Following(a))
        BY <1>4, <2>1, <2>2, NextIsLater DEF Ordered, AllBefore
  <2>4. SwappedBefore(t, Following(a)) /\ SwappedInOrder(t)
        BY <1>2, <1>4 DEF Ordered, SwappedBefore, SwappedInOrder
  <2>5. BufferLast(t)
    <3> SUFFICES ASSUME NEW i \in DOMAIN s.swapped,
                        NEW x \in DOMAIN s.swapped[i].data, NEW y \in 1 .. n + 1
                 PROVE  Before(s.swapped[i].data[x], t.outbuf[y])
      BY <1>2, <2>1 DEF BufferLast, Precedes
    <3>1. CASE y \in 1 .. n
          BY <2>1, <3>1 DEF Ordered, BufferLast, Precedes
    <3>2. CASE y = n + 1
          BY <2>1, <3>2 DEF Ordered, SwappedBefore, AllBefore
    <3> QED BY <2>2, <3>1, <3>2
  <2>6. FramesAscend(t)
    <3>1. ASSUME NEW x \in 1 .. n + 1, NEW y \in 1 .. n + 1, x < y
          PROVE  Before(t.outbuf[x], t.outbuf[y])
      <4>1. x \in 1 .. n
            BY <2>1, <3>1
      <4>2. CASE y \in 1 .. n
            BY <2>1, <3>1, <4>1, <4>2 DEF Ordered, FramesAscend, Ascending
      <4>3. CASE y = n + 1
            BY <2>1, <4>1, <4>3 DEF Ordered, AllBefore
      <4> QED BY <2>2, <4>2, <4>3
    <3>2. Ascending(t.outbuf)
          BY <2>1, <3>1 DEF Ascending
    <3> QED BY <1>2, <3>2 DEF Ordered, FramesAscend
  <2> QED BY <2>3, <2>4, <2>5, <2>6 DEF Ordered, t
<1> QED BY <1>2, <1>5, <1>6

LEMMA OrderedNext ==
  ASSUME TypeOK, Ordered(strmh, at), [Next]_vars
  PROVE  Ordered(strmh, at)'
<1>1. strmh \in Handle /\ at \in Position
      BY DEF TypeOK, Position
<1>2. /\ Packet.frame = at[1] /\ Packet.part = at[2] /\ Packet.frame \in Int
      BY <1>1 DEF Packet, Position
<1>3. Sending => at \in Payload
      BY <1>1, FollowingType DEF Sending, Position
<1>4. CASE ReceiveData
  <2> DEFINE s == Toggle(strmh, Packet)
             t == Store(s, Packet)
  <2>1. s \in Handle /\ Ordered(s, at)
        BY <1>1, <1>2, ToggleType, ToggleOrdered
  <2>2. at \in Payload /\ <<Packet.frame, Packet.part>> \in Payload
        BY <1>2, <1>3, <1>4 DEF ReceiveData, Payload
  <2>3. t \in Handle /\ Ordered(t, Following(at))
        BY <1>1, <1>2, <2>1, <2>2, StoreType, StoreOrdered
  <2> HIDE DEF s, t
  <2>4. Ordered(EndFrame(t, Packet), Following(at))
        BY <2>3, EndFrameOrdered
  <2>5. CASE UNCHANGED <<strmh, at>>
        BY <2>5
  <2>6. CASE strmh' = EndFrame(t, Packet) /\ at' = Following(at)
        BY <2>4, <2>6
  <2> QED BY <1>4, <2>5, <2>6 DEF ReceiveData, Arrives, s, t
<1>5. CASE ReceiveHeader
  <2>1. PICK frame \in {at[1]} \union (IF at[2] = 1 THEN {at[1] - 1} ELSE {}) :
          LET p == [frame |-> frame, part |-> at[2], data |-> FALSE,
                    eof |-> usesEof /\ frame < at[1]]
          IN  strmh' = EndFrame(Toggle(strmh, p), p)
        BY <1>5 DEF ReceiveHeader
  <2> DEFINE p == [frame |-> frame, part |-> at[2], data |-> FALSE,
                   eof |-> usesEof /\ frame < at[1]]
  <2>2. p.frame \in Int /\ strmh' = EndFrame(Toggle(strmh, p), p)
        BY <1>1, <2>1 DEF Position
  <2> HIDE DEF p
  <2>3. Ordered(EndFrame(Toggle(strmh, p), p), at)
        BY <1>1, <2>2, ToggleType, ToggleOrdered, EndFrameOrdered
  <2>4. at' = at
        BY <1>5 DEF ReceiveHeader
  <2> QED BY <2>2, <2>3, <2>4
<1>6. ASSUME NEW s \in Handle, Ordered(s, at), strmh' = s, at' = Following(at)
      PROVE  Ordered(strmh, at)'
  <2>1. Ordered(s, Following(at))
        BY <1>1, <1>6, OrderedMoves
  <2> QED BY <1>6, <2>1
<1>7. CASE LosePacket
  <2>1. Lost(strmh) \in Handle /\ Ordered(Lost(strmh), at)
        BY <1>1, MarkErrorType, MarkErrorOrdered DEF Lost
  <2> QED BY <1>6, <1>7, <2>1 DEF LosePacket, GoesMissing
<1>8. CASE ReceiveErrorBit
      BY <1>1, <1>6, <1>8 DEF ReceiveErrorBit, GoesMissing
<1>9. CASE ReceiveBogus
  <2>1. Toggle(strmh, Packet) \in Handle /\ Ordered(Toggle(strmh, Packet), at)
        BY <1>1, <1>2, ToggleType, ToggleOrdered
  <2>2. Bogus(strmh, Packet) \in Handle /\ Ordered(Bogus(strmh, Packet), at)
        BY <1>1, <2>1, MarkErrorType, MarkErrorOrdered DEF Bogus
  <2> QED BY <1>6, <1>9, <2>2 DEF ReceiveBogus, GoesMissing
<1>10. CASE UNCHANGED vars
       BY <1>10 DEF vars
<1> QED BY <1>4, <1>5, <1>7, <1>8, <1>9, <1>10 DEF Next

(* No payload is handed over twice or after a later one, be it in one frame  *)
(* or the next, whatever is lost, bogus or marked, on either kind of         *)
(* endpoint: _uvc_swap_buffers empties the buffer it hands over.             *)
THEOREM OrderKept == Spec => []FramesInOrder
<1>1. Init => Ordered(strmh, at)
      BY DEF Init, Ordered, AllBefore, SwappedBefore, BufferLast, SwappedInOrder,
         FramesAscend, Ascending
<1>2. TypeOK /\ Ordered(strmh, at) => FramesInOrder
  <2> SUFFICES ASSUME TypeOK, Ordered(strmh, at),
                      NEW i \in DOMAIN strmh.swapped, NEW j \in DOMAIN strmh.swapped,
                      NEW x \in DOMAIN strmh.swapped[i].data,
                      NEW y \in DOMAIN strmh.swapped[j].data,
                      i < j \/ (i = j /\ x < y)
               PROVE  Before(strmh.swapped[i].data[x], strmh.swapped[j].data[y])
    BY DEF FramesInOrder, Before
  <2>1. CASE i < j
        BY <2>1 DEF Ordered, SwappedInOrder, Precedes
  <2>2. CASE i = j /\ x < y
        BY <2>2 DEF Ordered, FramesAscend, Ascending
  <2> QED BY <2>1, <2>2
<1> QED BY <1>1, <1>2, OrderedNext, TypeInit, TypeNext, PTL DEF Spec
=============================================================================
