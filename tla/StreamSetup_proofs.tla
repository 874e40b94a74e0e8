------------------------- MODULE StreamSetup_proofs -------------------------
(***************************************************************************)
(* Proofs about StreamSetup for any camera, any settings, any number of    *)
(* workers and previews: its types, that a stream runs with the block it   *)
(* agreed on and on the altsetting it looked for, and what it means that a *)
(* worker found the camera's values to fit.                                *)
(***************************************************************************)
EXTENDS StreamSetup, TLAPS

-----------------------------------------------------------------------------
(* Types *)

LEMMA BlankIsBlock == Blank \in Block
BY BlockAssumption DEF Blank, Block

(* The camera makes a block of its own of whatever it is sent. *)
LEMMA AdjustedSupported == \A b : Adjusted(b) \subseteq Supported
BY DEF Adjusted

LEMMA AdjustedKeeps == \A b \in Supported : Adjusted(b) = {b}
BY DEF Adjusted

LEMMA ArrivedIsBlock ==
    \A k \in 0 .. 4 : \A b, c \in Block :
        Arrived(k, b, c) \in Block /\ (k = 4 => Arrived(k, b, c) = b)
BY DEF Arrived, Block

LEMMA InterfaceType ==
    TypeOK => /\ interface \in Seq(Nat)
              /\ Last \in Nat
<1> SUFFICES ASSUME TypeOK PROVE interface \in Seq(Nat) /\ Last \in Nat
  OBVIOUS
<1>1. interface \in Seq(Nat) /\ interface # <<>>
      BY InterfacesAssumption DEF TypeOK
<1>2. Len(interface) \in Nat /\ Len(interface) # 0
      BY <1>1
<1> QED BY <1>1, <1>2 DEF Last

LEMMA TypeInit == Init => TypeOK
<1> SUFFICES ASSUME Init PROVE TypeOK
  OBVIOUS
<1>1. interface \in Seq(Nat) /\ interface # <<>>
      BY InterfacesAssumption DEF Init
<1>2. Len(interface) \in Nat /\ Len(interface) # 0
      BY <1>1
<1>3. 0 \in 0 .. Last
      BY <1>2 DEF Last
<1>4. alt \in 0 .. Last /\ altsetting \in 0 .. Last /\ previews \in 0 .. MaxPreview
      BY <1>3, OthersAssumption DEF Init
<1>5. /\ pc \in [Workers -> WorkerPc]
      /\ buffer \in [Workers -> Block]
      /\ probed \in Block /\ final \in Block /\ ctrl \in Block
      BY BlankIsBlock DEF Init, WorkerPc
<1> QED BY <1>4, <1>5 DEF Init, TypeOK, PreviewPc

LEMMA WorkerTypes ==
    ASSUME TypeOK, NEW w \in Workers, Worker(w)
    PROVE  TypeOK'
<1> USE DEF TypeOK, WorkerPc, WorkerGoto, arrays, camera, thread
<1>a. Asked \in Block /\ Blank \in Block /\ Supported \subseteq Block
      BY BlockAssumption, BlankIsBlock
<1>1. CASE Begin(w)  BY <1>1, <1>a DEF Begin, Last
<1>2. CASE SelectNone(w)
  <2>1. 0 \in 0 .. Last
        BY InterfaceType
  <2> QED BY <1>2, <1>a, <2>1 DEF SelectNone, Last
<1>3. CASE SelectNoneFails(w)  BY <1>3, <1>a DEF SelectNoneFails, Last
<1>4. CASE SendProbe(w)  BY <1>4, <1>a, AdjustedSupported DEF SendProbe, Last
<1>5. CASE ReadProbe(w)
  <2>1. PICK k \in 0 .. 4 : buffer' = [buffer EXCEPT ![w] = Arrived(k, probe, @)]
        BY <1>5 DEF ReadProbe
  <2>2. Arrived(k, probe, buffer[w]) \in Block
        BY <1>a, ArrivedIsBlock
  <2>3. buffer' \in [Workers -> Block]
        BY <2>1, <2>2
  <2> QED BY <1>5, <2>3 DEF ReadProbe, Last
<1>6. CASE KeepProbe(w)  BY <1>6, <1>a DEF KeepProbe, Last
<1>7. CASE SendCommit(w)  BY <1>7, <1>a, AdjustedSupported DEF SendCommit, Last
<1>8. CASE KeepCommit(w)  BY <1>8, <1>a DEF KeepCommit, Last
<1>9. CASE ReadCommit(w)
  <2>1. PICK k \in 0 .. 4 : buffer' = [buffer EXCEPT ![w] = Arrived(k, commit, @)]
        BY <1>9 DEF ReadCommit
  <2>2. Arrived(k, commit, buffer[w]) \in Block
        BY <1>a, ArrivedIsBlock
  <2>3. buffer' \in [Workers -> Block]
        BY <2>1, <2>2
  <2> QED BY <1>9, <2>3 DEF ReadCommit, Last
<1>10. CASE Compare(w)  BY <1>10, <1>a DEF Compare, Last
<1> QED BY <1>1, <1>2, <1>3, <1>4, <1>5, <1>6, <1>7, <1>8, <1>9, <1>10 DEF Worker

LEMMA PreviewTypes ==
    ASSUME TypeOK, PreviewThread
    PROVE  TypeOK'
<1> USE DEF TypeOK, PreviewPc, workers, arrays, camera, CommitTransfer
<1>a. Asked \in Block /\ Supported \subseteq Block /\ MaxPreview \in Nat /\ Last \in Nat
      BY BlockAssumption, OthersAssumption, InterfaceType
<1>1. CASE BeginPreview  BY <1>1, <1>a, AdjustedSupported DEF BeginPreview, Last
<1>2. CASE FirstCommit  BY <1>2, <1>a, AdjustedSupported DEF FirstCommit, Last
<1>3. CASE ReadBack  BY <1>3, <1>a, AdjustedSupported DEF ReadBack, Last
<1>4. CASE SendPreviewProbe  BY <1>4, <1>a, AdjustedSupported DEF SendPreviewProbe, Last
<1>5. CASE ReadPreviewProbe  BY <1>5, <1>a, AdjustedSupported DEF ReadPreviewProbe, Last
<1>6. CASE OpenBusy  BY <1>6, <1>a, AdjustedSupported DEF OpenBusy, Last
<1>7. CASE Open  BY <1>7, <1>a, AdjustedSupported DEF Open, Last
<1>8. CASE StartFails  BY <1>8, <1>a, AdjustedSupported DEF StartFails, Last
<1>9. CASE Start  BY <1>9, <1>a, AdjustedSupported DEF Start, Last
<1>10. CASE LookAt  BY <1>10, <1>a, AdjustedSupported DEF LookAt, Last
<1>11. CASE Select  BY <1>11, <1>a, AdjustedSupported DEF Select, Last
<1>12. CASE Submit  BY <1>12, <1>a, AdjustedSupported DEF Submit, Last
<1>13. CASE Close
  <2>1. Last' = Last
        BY <1>13 DEF Close, Last
  <2>2. alt' \in 0 .. Last'
        BY <1>13, <1>a, <2>1 DEF Close
  <2> QED BY <1>13, <2>1, <2>2 DEF Close
<1> QED BY <1>1, <1>2, <1>3, <1>4, <1>5, <1>6, <1>7, <1>8, <1>9, <1>10, <1>11, <1>12, <1>13 DEF PreviewThread

LEMMA TypeNext == TypeOK /\ [Next]_vars => TypeOK'
<1> SUFFICES ASSUME TypeOK, [Next]_vars PROVE TypeOK'
  OBVIOUS
<1>1. CASE PreviewThread                 BY <1>1, PreviewTypes
<1>2. CASE \E w \in Workers : Worker(w)  BY <1>2, WorkerTypes
<1>3. CASE UNCHANGED vars
      BY <1>3 DEF vars, arrays, camera, thread, TypeOK, Last
<1> QED BY <1>1, <1>2, <1>3 DEF Next

(* Every variable keeps to its type: the camera always has a block it       *)
(* supports, and the search stays among the altsettings.                   *)
THEOREM TypeCorrect == Spec => []TypeOK
BY TypeInit, TypeNext, PTL DEF Spec

-----------------------------------------------------------------------------
(* The block of a stream *)

(* What the preview opens a stream with is what the camera answered last,   *)
(* so the camera supports it and keeps it as it is.                        *)
AgreedInv ==
    /\ preview \in {"open", "start", "search", "select", "submit", "streaming"} =>
           ctrl \in Supported
    /\ preview \in {"start", "search", "select", "submit", "streaming"} =>
           commit = ctrl \/ committer \in Workers

LEMMA AgreedInvNext == TypeOK /\ AgreedInv /\ [Next]_vars => AgreedInv'
<1> SUFFICES ASSUME TypeOK, AgreedInv, [Next]_vars PROVE AgreedInv'
  OBVIOUS
<1> USE DEF TypeOK, AgreedInv, WorkerGoto, arrays, camera, thread, workers, CommitTransfer
<1>1. ASSUME NEW w \in Workers, Worker(w) PROVE AgreedInv'
  <2>1. CASE Begin(w)  BY <2>1 DEF Begin
  <2>2. CASE SelectNone(w)  BY <2>2 DEF SelectNone
  <2>3. CASE SelectNoneFails(w)  BY <2>3 DEF SelectNoneFails
  <2>4. CASE SendProbe(w)  BY <2>4 DEF SendProbe
  <2>5. CASE ReadProbe(w)  BY <2>5 DEF ReadProbe
  <2>6. CASE KeepProbe(w)  BY <2>6 DEF KeepProbe
  <2>7. CASE SendCommit(w)  BY <2>7 DEF SendCommit
  <2>8. CASE KeepCommit(w)  BY <2>8 DEF KeepCommit
  <2>9. CASE ReadCommit(w)  BY <2>9 DEF ReadCommit
  <2>10. CASE Compare(w)  BY <2>10 DEF Compare
  <2> QED BY <1>1, <2>1, <2>2, <2>3, <2>4, <2>5, <2>6, <2>7, <2>8, <2>9, <2>10 DEF Worker
<1>2. CASE PreviewThread
  <2>1. CASE BeginPreview  BY <2>1, AdjustedKeeps DEF BeginPreview
  <2>2. CASE FirstCommit  BY <2>2, AdjustedKeeps DEF FirstCommit
  <2>3. CASE ReadBack  BY <2>3, AdjustedKeeps DEF ReadBack
  <2>4. CASE SendPreviewProbe  BY <2>4, AdjustedKeeps DEF SendPreviewProbe
  <2>5. CASE ReadPreviewProbe  BY <2>5, AdjustedKeeps DEF ReadPreviewProbe
  <2>6. CASE OpenBusy  BY <2>6, AdjustedKeeps DEF OpenBusy
  <2>7. CASE Open  BY <2>7, AdjustedKeeps DEF Open
  <2>8. CASE StartFails  BY <2>8, AdjustedKeeps DEF StartFails
  <2>9. CASE Start  BY <2>9, AdjustedKeeps DEF Start
  <2>10. CASE LookAt  BY <2>10, AdjustedKeeps DEF LookAt
  <2>11. CASE Select  BY <2>11, AdjustedKeeps DEF Select
  <2>12. CASE Submit  BY <2>12, AdjustedKeeps DEF Submit
  <2>13. CASE Close  BY <2>13, AdjustedKeeps DEF Close
  <2> QED BY <1>2, <2>1, <2>2, <2>3, <2>4, <2>5, <2>6, <2>7, <2>8, <2>9, <2>10, <2>11, <2>12, <2>13 DEF PreviewThread
<1>3. CASE UNCHANGED vars  BY <1>3 DEF vars
<1> QED BY <1>1, <1>2, <1>3 DEF Next

(* A stream runs with the block its handle has, for any camera.             *)
THEOREM StreamsWithItsBlock == Spec => []StreamsAsAgreed
<1>1. Init => AgreedInv
      BY DEF Init, AgreedInv
<1>2. AgreedInv => StreamsAsAgreed
      BY DEF AgreedInv, StreamsAsAgreed
<1> QED BY <1>1, <1>2, TypeInit, TypeNext, AgreedInvNext, PTL DEF Spec

-----------------------------------------------------------------------------
(* Its altsetting *)

NoMatchBelow(n) == \A i \in 0 .. n - 1 : Packet(i) # MaxPacketSize

Chosen(n) == Packet(n) # MaxPacketSize => n = Last

(* The search has passed no altsetting that matches, and stops on one that  *)
(* does or on the last; until a worker selects, that is the one in use.    *)
MatchInv ==
    /\ preview \in {"search", "select"} => NoMatchBelow(altsetting)
    /\ preview = "select" => Chosen(altsetting)
    /\ preview \in {"submit", "streaming"} /\ Isochronous =>
           \/ selector \in Workers
           \/ Packet(alt) # 0 /\ NoMatchBelow(alt) /\ Chosen(alt)

LEMMA MatchInvNext == TypeOK /\ MatchInv /\ [Next]_vars => MatchInv'
<1> SUFFICES ASSUME TypeOK, MatchInv, [Next]_vars PROVE MatchInv'
  OBVIOUS
<1> USE DEF TypeOK, MatchInv, WorkerGoto, arrays, camera, thread, workers, CommitTransfer, NoMatchBelow, Chosen, Packet, Isochronous, Last
<1>a. Len(interface) \in Nat /\ MaxPacketSize \in Nat
      BY InterfaceType, OthersAssumption
<1>1. ASSUME NEW w \in Workers, Worker(w) PROVE MatchInv'
  <2>1. CASE Begin(w)  BY <2>1 DEF Begin
  <2>2. CASE SelectNone(w)  BY <2>2 DEF SelectNone
  <2>3. CASE SelectNoneFails(w)  BY <2>3 DEF SelectNoneFails
  <2>4. CASE SendProbe(w)  BY <2>4 DEF SendProbe
  <2>5. CASE ReadProbe(w)  BY <2>5 DEF ReadProbe
  <2>6. CASE KeepProbe(w)  BY <2>6 DEF KeepProbe
  <2>7. CASE SendCommit(w)  BY <2>7 DEF SendCommit
  <2>8. CASE KeepCommit(w)  BY <2>8 DEF KeepCommit
  <2>9. CASE ReadCommit(w)  BY <2>9 DEF ReadCommit
  <2>10. CASE Compare(w)  BY <2>10 DEF Compare
  <2> QED BY <1>1, <2>1, <2>2, <2>3, <2>4, <2>5, <2>6, <2>7, <2>8, <2>9, <2>10 DEF Worker
<1>2. CASE PreviewThread
  <2>1. CASE BeginPreview  BY <2>1, <1>a DEF BeginPreview
  <2>2. CASE FirstCommit  BY <2>2, <1>a DEF FirstCommit
  <2>3. CASE ReadBack  BY <2>3, <1>a DEF ReadBack
  <2>4. CASE SendPreviewProbe  BY <2>4, <1>a DEF SendPreviewProbe
  <2>5. CASE ReadPreviewProbe  BY <2>5, <1>a DEF ReadPreviewProbe
  <2>6. CASE OpenBusy  BY <2>6, <1>a DEF OpenBusy
  <2>7. CASE Open  BY <2>7, <1>a DEF Open
  <2>8. CASE StartFails  BY <2>8, <1>a DEF StartFails
  <2>9. CASE Start  BY <2>9, <1>a DEF Start
  <2>10. CASE LookAt  BY <2>10, <1>a DEF LookAt
  <2>11. CASE Select  BY <2>11, <1>a DEF Select
  <2>12. CASE Submit  BY <2>12, <1>a DEF Submit
  <2>13. CASE Close  BY <2>13, <1>a DEF Close
  <2> QED BY <1>2, <2>1, <2>2, <2>3, <2>4, <2>5, <2>6, <2>7, <2>8, <2>9, <2>10, <2>11, <2>12, <2>13 DEF PreviewThread
<1>3. CASE UNCHANGED vars  BY <1>3 DEF vars
<1> QED BY <1>1, <1>2, <1>3 DEF Next

(* An isochronous stream runs on the altsetting the search is for.          *)
THEOREM StreamsOnItsAltsetting == Spec => []StreamsOnMatch
<1>1. Init => MatchInv
      BY DEF Init, MatchInv
<1>2. MatchInv => StreamsOnMatch
      BY DEF MatchInv, NoMatchBelow, Chosen, StreamsOnMatch
<1> QED BY <1>1, <1>2, TypeInit, TypeNext, MatchInvNext, PTL DEF Spec

-----------------------------------------------------------------------------
(* What a worker reports *)

(* Workers that do not overlap have the arrays to themselves. *)
AloneInv ==
    \/ overlapped
    \/ \A v, w \in Workers : Working(v) /\ Working(w) => v = w

LEMMA AloneInvNext == TypeOK /\ AloneInv /\ [Next]_vars => AloneInv'
<1> SUFFICES ASSUME TypeOK, AloneInv, [Next]_vars PROVE AloneInv'
  OBVIOUS
<1> USE DEF TypeOK, AloneInv, Working, WorkerGoto, arrays, camera, thread, workers, CommitTransfer
<1>1. ASSUME NEW w \in Workers, Worker(w) PROVE AloneInv'
  <2>1. CASE Begin(w)  BY <2>1 DEF Begin
  <2>2. CASE SelectNone(w)  BY <2>2 DEF SelectNone
  <2>3. CASE SelectNoneFails(w)  BY <2>3 DEF SelectNoneFails
  <2>4. CASE SendProbe(w)  BY <2>4 DEF SendProbe
  <2>5. CASE ReadProbe(w)  BY <2>5 DEF ReadProbe
  <2>6. CASE KeepProbe(w)  BY <2>6 DEF KeepProbe
  <2>7. CASE SendCommit(w)  BY <2>7 DEF SendCommit
  <2>8. CASE KeepCommit(w)  BY <2>8 DEF KeepCommit
  <2>9. CASE ReadCommit(w)  BY <2>9 DEF ReadCommit
  <2>10. CASE Compare(w)  BY <2>10 DEF Compare
  <2> QED BY <1>1, <2>1, <2>2, <2>3, <2>4, <2>5, <2>6, <2>7, <2>8, <2>9, <2>10 DEF Worker
<1>2. CASE PreviewThread
  <2>1. CASE BeginPreview  BY <2>1 DEF BeginPreview
  <2>2. CASE FirstCommit  BY <2>2 DEF FirstCommit
  <2>3. CASE ReadBack  BY <2>3 DEF ReadBack
  <2>4. CASE SendPreviewProbe  BY <2>4 DEF SendPreviewProbe
  <2>5. CASE ReadPreviewProbe  BY <2>5 DEF ReadPreviewProbe
  <2>6. CASE OpenBusy  BY <2>6 DEF OpenBusy
  <2>7. CASE Open  BY <2>7 DEF Open
  <2>8. CASE StartFails  BY <2>8 DEF StartFails
  <2>9. CASE Start  BY <2>9 DEF Start
  <2>10. CASE LookAt  BY <2>10 DEF LookAt
  <2>11. CASE Select  BY <2>11 DEF Select
  <2>12. CASE Submit  BY <2>12 DEF Submit
  <2>13. CASE Close  BY <2>13 DEF Close
  <2> QED BY <1>2, <2>1, <2>2, <2>3, <2>4, <2>5, <2>6, <2>7, <2>8, <2>9, <2>10, <2>11, <2>12, <2>13 DEF PreviewThread
<1>3. CASE UNCHANGED vars  BY <1>3 DEF vars
<1> QED BY <1>1, <1>2, <1>3 DEF Next

(* A worker has committed only if it came so far.  If it was answered, what *)
(* it read is what the camera supports and keeps; as long as nobody else    *)
(* commits, that stays in finalStreamingParmsIntArray_first and in the      *)
(* camera, and is what it compares.                                         *)
Answered(w) ==
    /\ pc[w] \in {"keep_probe", "send_commit", "keep_commit"} => buffer[w] \in Supported
    /\ pc[w] = "keep_commit" /\ committer = w => commit = buffer[w]
    /\ pc[w] \in {"read_commit", "compare"} /\ committer = w => commit = final
    /\ pc[w] = "ready" /\ committer = w => Same(Asked, commit)

ReadyInv ==
    \A w \in Workers :
        /\ pc[w] \in {"new", "select", "send_probe", "read_probe", "keep_probe", "send_commit"} =>
               committer # w
        /\ overlapped \/ w \in unanswered \/ Answered(w)

LEMMA ReadyInvNext == TypeOK /\ AloneInv /\ ReadyInv /\ [Next]_vars => ReadyInv'
<1> SUFFICES ASSUME TypeOK, AloneInv, ReadyInv, [Next]_vars PROVE ReadyInv'
  OBVIOUS
<1> USE DEF TypeOK, AloneInv, ReadyInv, Answered, Working, WorkerPc, WorkerGoto, arrays, camera, thread, workers, CommitTransfer
<1>1. ASSUME NEW w \in Workers, Worker(w) PROVE ReadyInv'
  <2>1. CASE Begin(w)  BY <2>1, AdjustedKeeps, ArrivedIsBlock, BlockAssumption DEF Begin
  <2>2. CASE SelectNone(w)  BY <2>2, AdjustedKeeps, ArrivedIsBlock, BlockAssumption DEF SelectNone
  <2>3. CASE SelectNoneFails(w)  BY <2>3, AdjustedKeeps, ArrivedIsBlock, BlockAssumption DEF SelectNoneFails
  <2>4. CASE SendProbe(w)  BY <2>4, AdjustedKeeps, ArrivedIsBlock, BlockAssumption DEF SendProbe
  <2>5. CASE ReadProbe(w)  BY <2>5, AdjustedKeeps, ArrivedIsBlock, BlockAssumption DEF ReadProbe
  <2>6. CASE KeepProbe(w)  BY <2>6, AdjustedKeeps, ArrivedIsBlock, BlockAssumption DEF KeepProbe
  <2>7. CASE SendCommit(w)  BY <2>7, AdjustedKeeps, ArrivedIsBlock, BlockAssumption DEF SendCommit
  <2>8. CASE KeepCommit(w)  BY <2>8, AdjustedKeeps, ArrivedIsBlock, BlockAssumption DEF KeepCommit
  <2>9. CASE ReadCommit(w)  BY <2>9, AdjustedKeeps, ArrivedIsBlock, BlockAssumption DEF ReadCommit
  <2>10. CASE Compare(w)  BY <2>10, AdjustedKeeps, ArrivedIsBlock, BlockAssumption DEF Compare
  <2> QED BY <1>1, <2>1, <2>2, <2>3, <2>4, <2>5, <2>6, <2>7, <2>8, <2>9, <2>10 DEF Worker
<1>2. CASE PreviewThread
  <2>1. CASE BeginPreview  BY <2>1, OthersAssumption DEF BeginPreview
  <2>2. CASE FirstCommit  BY <2>2, OthersAssumption DEF FirstCommit
  <2>3. CASE ReadBack  BY <2>3, OthersAssumption DEF ReadBack
  <2>4. CASE SendPreviewProbe  BY <2>4, OthersAssumption DEF SendPreviewProbe
  <2>5. CASE ReadPreviewProbe  BY <2>5, OthersAssumption DEF ReadPreviewProbe
  <2>6. CASE OpenBusy  BY <2>6, OthersAssumption DEF OpenBusy
  <2>7. CASE Open  BY <2>7, OthersAssumption DEF Open
  <2>8. CASE StartFails  BY <2>8, OthersAssumption DEF StartFails
  <2>9. CASE Start  BY <2>9, OthersAssumption DEF Start
  <2>10. CASE LookAt  BY <2>10, OthersAssumption DEF LookAt
  <2>11. CASE Select  BY <2>11, OthersAssumption DEF Select
  <2>12. CASE Submit  BY <2>12, OthersAssumption DEF Submit
  <2>13. CASE Close  BY <2>13, OthersAssumption DEF Close
  <2> QED BY <1>2, <2>1, <2>2, <2>3, <2>4, <2>5, <2>6, <2>7, <2>8, <2>9, <2>10, <2>11, <2>12, <2>13 DEF PreviewThread
<1>3. CASE UNCHANGED vars  BY <1>3 DEF vars
<1> QED BY <1>1, <1>2, <1>3 DEF Next

(* A worker that says the values fit is right about the fields it compares, *)
(* unless a worker overlapped with it, nobody answered it, or another has   *)
(* committed since.                                                         *)
THEOREM ReadyAgrees == Spec => []ReadyMeansAgreed
<1>1. Init => AloneInv /\ ReadyInv
      BY OthersAssumption DEF Init, AloneInv, Working, ReadyInv, Answered
<1>2. ReadyInv => ReadyMeansAgreed
      BY DEF ReadyInv, Answered, ReadyMeansAgreed
<1> QED BY <1>1, <1>2, TypeInit, TypeNext, AloneInvNext, ReadyInvNext, PTL DEF Spec
=============================================================================
