----------------------- MODULE VisionPipeline_proofs -----------------------
(***************************************************************************)
(* Theorems about VisionPipeline, for videos of any length, any number of  *)
(* plays, clients' requests, models, restarts and any capacities.          *)
(***************************************************************************)
EXTENDS VisionPipeline, SequenceTheorems, TLAPS

Signals == {"none", "Flush"}
Frames == [play : Nat, number : Nat, image : Nat, signal : Signals]
Messages == [play : Nat, number : Nat, image : Nat, signal : Signals,
             detections : SUBSET Nat, policy : {"default", "NoDrop"}]

TypeInv ==
  /\ setup \in Setups
  /\ requests \in Seq(Frames) /\ images \in Seq(Frames)
  /\ turn \in {"reply", "send", "push"}
  /\ pool \in Seq(Models(setup)) /\ Len(pool) = setup.models
  /\ tensor \in [Models(setup) -> Nat]
  /\ inHand \in Messages /\ output \in Seq(Messages)
  /\ goals \in Seq(Messages) /\ track \in Seq(Messages)
  /\ play \in Nat \ {0} /\ {next, asked} \subseteq Nat /\ crashed \in BOOLEAN

(* The frames between the source and the end of a track.                    *)
Elements(s) == {s[k] : k \in DOMAIN s}
Hand == IF turn = "push" THEN {inHand} ELSE {}
Past == Elements(track) \cup Elements(goals) \cup Elements(output) \cup Hand
Line == Past \cup Elements(images)

Before(x, y) == x.play < y.play \/ (x.play = y.play /\ x.number < y.number)
Sorted(s) == \A j, k \in DOMAIN s : j < k => Before(s[j], s[k])
Precede(S, R) == \A x \in S, y \in R : Before(x, y)

(* A flush signal has the number that follows the last frame's. *)
Numbered(m) ==
  /\ m.play \in Nat /\ m.number \in Nat /\ m.signal \in Signals
  /\ m.signal = "none" <=> m.number < PlayLength
  /\ m.signal = "Flush" <=> m.number = PlayLength

(* They stay in the order in which the source sent them.                    *)
OrderInv ==
  /\ \A s \in {track, goals, output, images} : Sorted(s)
  /\ Precede(Elements(track), Elements(goals) \cup Elements(output) \cup Hand)
  /\ Precede(Elements(goals), Elements(output) \cup Hand)
  /\ Precede(Elements(output), Hand)
  /\ Precede(Past, Elements(images))
  /\ \A m \in Line :
       /\ Numbered(m)
       /\ m.play < play \/ (m.play = play /\ m.number < next)
  /\ \A m \in Elements(track) : m.signal = "none"

FlushOf(x, S) == \E f \in S : f.signal = "Flush" /\ f.play = x.play

(* No frame is without the signal that ends its play, as long as none was   *)
(* dropped: between it and a frame of a later play, or the source.          *)
SignalInv ==
  dropped = {} =>
    /\ \A x, y \in Past :
         x.signal = "none" /\ x.play < y.play => FlushOf(x, Past)
    /\ ~crashed =>
         \A x \in Line : x.signal = "none" /\ x.play # play => FlushOf(x, Line)

(* Without a model nothing passes the detector.                             *)
PoolInv == setup.models = 0 => Past = {}

IInv ==
  TypeInv /\ OrderInv /\ SignalInv /\ PoolInv /\ DetectionsAreOfTheirImage

-----------------------------------------------------------------------------
(* The head of a sorted sequence precedes the rest. *)
LEMMA TailOfSorted ==
  ASSUME NEW S, NEW s \in Seq(S), s # <<>>, \A m \in S : m.play \in Nat /\ m.number \in Nat,
         Sorted(s)
  PROVE  /\ Tail(s) \in Seq(S) /\ Sorted(Tail(s)) /\ Head(s) \in S
         /\ Head(s) \in Elements(s)
         /\ Elements(s) = Elements(Tail(s)) \cup {Head(s)}
         /\ Precede({Head(s)}, Elements(Tail(s)))
         /\ Head(s) \notin Elements(Tail(s))
<1>1. /\ Tail(s) \in Seq(S) /\ Len(s) \in Nat /\ Len(s) > 0
      /\ DOMAIN s = 1 .. Len(s) /\ DOMAIN Tail(s) = 1 .. Len(s) - 1
      /\ \A k \in 1 .. Len(s) - 1 : Tail(s)[k] = s[k + 1]
      /\ Head(s) = s[1] /\ Head(s) \in S
  OBVIOUS
<1>2. \A k \in 1 .. Len(s) - 1 : k + 1 \in 1 .. Len(s) /\ 1 < k + 1
  BY <1>1
<1>3. \A k \in 1 .. Len(s) : k = 1 \/ \E j \in 1 .. Len(s) - 1 : k = j + 1
  <2> SUFFICES ASSUME NEW k \in 1 .. Len(s), k # 1
               PROVE  \E j \in 1 .. Len(s) - 1 : k = j + 1
    OBVIOUS
  <2>1. k - 1 \in 1 .. Len(s) - 1 /\ k = (k - 1) + 1
    BY <1>1
  <2> QED BY <2>1
<1>4. Sorted(Tail(s))
  <2> SUFFICES ASSUME NEW j \in 1 .. Len(s) - 1, NEW k \in 1 .. Len(s) - 1, j < k
               PROVE  Before(s[j + 1], s[k + 1])
    BY <1>1 DEF Sorted
  <2>1. j + 1 \in DOMAIN s /\ k + 1 \in DOMAIN s /\ j + 1 < k + 1
    BY <1>1
  <2> QED BY <2>1 DEF Sorted
<1>5. 1 \in DOMAIN s
  BY <1>1
<1>6. \A k \in DOMAIN Tail(s) : Before(s[1], Tail(s)[k])
  BY <1>1, <1>2, <1>5 DEF Sorted
<1>7. Precede({Head(s)}, Elements(Tail(s)))
  BY <1>1, <1>6 DEF Precede, Elements
<1>8. Elements(s) = Elements(Tail(s)) \cup {Head(s)}
  BY <1>1, <1>2, <1>3, <1>5 DEF Elements
<1>9. ~Before(Head(s), Head(s))
  BY <1>1 DEF Before
<1>10. Head(s) \notin Elements(Tail(s))
  BY <1>7, <1>9 DEF Precede
<1> QED BY <1>1, <1>4, <1>7, <1>8, <1>10

LEMMA AppendToSorted ==
  ASSUME NEW S, NEW s \in Seq(S), NEW e \in S
  PROVE  /\ Append(s, e) \in Seq(S)
         /\ Elements(Append(s, e)) = Elements(s) \cup {e}
         /\ Sorted(s) /\ Precede(Elements(s), {e}) => Sorted(Append(s, e))
<1>1. /\ Append(s, e) \in Seq(S) /\ Len(s) \in Nat
      /\ DOMAIN s = 1 .. Len(s) /\ DOMAIN Append(s, e) = 1 .. Len(s) + 1
      /\ \A k \in 1 .. Len(s) : Append(s, e)[k] = s[k]
      /\ Append(s, e)[Len(s) + 1] = e
  OBVIOUS
<1>2. 1 .. Len(s) + 1 = (1 .. Len(s)) \cup {Len(s) + 1}
  BY <1>1
<1>3. Elements(Append(s, e)) = Elements(s) \cup {e}
  BY <1>1, <1>2 DEF Elements
<1>4. ASSUME Sorted(s), Precede(Elements(s), {e})
      PROVE  Sorted(Append(s, e))
  <2> SUFFICES ASSUME NEW j \in 1 .. Len(s) + 1, NEW k \in 1 .. Len(s) + 1, j < k
               PROVE  Before(Append(s, e)[j], Append(s, e)[k])
    BY <1>1 DEF Sorted
  <2>1. j \in 1 .. Len(s) /\ Append(s, e)[j] = s[j]
    BY <1>1
  <2>2. CASE k \in 1 .. Len(s)
    BY <1>1, <1>4, <2>1, <2>2 DEF Sorted
  <2>3. CASE k = Len(s) + 1
    BY <1>1, <1>4, <2>1, <2>3 DEF Precede, Elements
  <2> QED BY <1>2, <2>2, <2>3
<1> QED BY <1>1, <1>3, <1>4

LEMMA EmptySorted ==
  Elements(<<>>) = {} /\ Sorted(<<>>)
BY DEF Elements, Sorted

LEMMA BeforeIsAnOrder ==
  ASSUME NEW S, \A m \in S : m.play \in Nat /\ m.number \in Nat
  PROVE  /\ \A x \in S : ~Before(x, x)
         /\ \A x, y, z \in S : Before(x, y) /\ Before(y, z) => Before(x, z)
BY DEF Before

(* What the state looks like to the steps below. *)
LEMMA LineFacts ==
  ASSUME IInv
  PROVE  /\ \A m \in Line : Numbered(m)
         /\ \A x, f \in Line : x.signal = "none" /\ f.signal = "Flush" /\ f.play = x.play
              => Before(x, f) /\ ~Before(f, x) /\ x # f
<1>1. \A m \in Line : Numbered(m)
  BY DEF IInv, OrderInv
<1> QED BY <1>1, SourceAssumption DEF Numbered, Before

(* Frames that leave the line take no signal with them that ends a play of  *)
(* others.                                                                  *)
LEMMA SignalKept ==
  ASSUME IInv, play' = play, dropped' = {} => dropped = {}, crashed => crashed',
         Past' \subseteq Past, Line' \subseteq Line,
         dropped' = {} =>
           \A f \in Past \ Past', x \in Past' :
             f.signal = "Flush" /\ x.signal = "none" => x.play # f.play,
         dropped' = {} /\ ~crashed' =>
           \A f \in Line \ Line', x \in Line' :
             f.signal = "Flush" /\ x.signal = "none" => x.play # f.play
  PROVE  SignalInv'
BY DEF IInv, SignalInv, FlushOf

(* Frames leave the line, and those that stay keep their places. *)
LEMMA OrderKept ==
  ASSUME IInv, play' = play, next' \in Nat, next' >= next,
         Elements(track)' \subseteq Elements(track), Sorted(track)',
         Elements(goals)' \subseteq Elements(goals), Sorted(goals)',
         Elements(output)' \subseteq Elements(output), Sorted(output)',
         Elements(images)' \subseteq Elements(images), Sorted(images)',
         Hand' \subseteq Hand
  PROVE  OrderInv'
<1>1. Line' \subseteq Line /\ Past' \subseteq Past
  BY DEF Line, Past
<1>2. \A m \in Line :
        /\ Numbered(m)
        /\ m.play < play \/ (m.play = play /\ m.number < next)
  BY DEF IInv, OrderInv
<1>3. \A m \in Line : m.number \in Nat
  BY <1>2 DEF Numbered
<1>4. next \in Nat
  BY DEF IInv, TypeInv
<1>5. \A m \in Line' : /\ Numbered(m)'
                       /\ m.play < play' \/ (m.play = play' /\ m.number < next')
  BY <1>1, <1>2, <1>3, <1>4 DEF Numbered
<1>6. /\ Precede(Elements(track)', (Elements(goals) \cup Elements(output) \cup Hand)')
      /\ Precede(Elements(goals)', (Elements(output) \cup Hand)')
      /\ Precede(Elements(output)', Hand')
      /\ Precede(Past', Elements(images)')
      /\ \A m \in Elements(track)' : m.signal = "none"
  BY <1>1 DEF IInv, OrderInv, Precede
<1> QED BY <1>5, <1>6 DEF OrderInv, Precede, Before

-----------------------------------------------------------------------------
LEMMA InitEstablishes ==
  ASSUME Init
  PROVE  IInv
<1>1. Init /\ setup.models \in Nat /\ 1 .. setup.models = Models(setup)
  BY SetupAssumption DEF Init, DetectorInit, DetectorSetups, Models
<1>2. pool \in Seq(Models(setup)) /\ Len(pool) = setup.models
  BY <1>1 DEF Init, DetectorInit, FreshPool
<1>3. inHand \in Messages /\ inHand.detections = {} /\ inHand.image = Empty
  BY DEF Init, DetectorInit, NoMessage, Messages, Signals, Empty
<1>4. TypeInv
  <2>1. /\ setup \in Setups /\ turn = "reply" /\ crashed = FALSE
        /\ play = 1 /\ next = 0 /\ asked = 0
        /\ requests = <<>> /\ images = <<>> /\ output = <<>> /\ goals = <<>> /\ track = <<>>
        /\ tensor = [m \in Models(setup) |-> Empty]
    BY DEF Init, DetectorInit, TrackerInit
  <2>2. tensor \in [Models(setup) -> Nat]
    BY <2>1 DEF Empty
  <2>3. /\ requests \in Seq(Frames) /\ images \in Seq(Frames) /\ output \in Seq(Messages)
        /\ goals \in Seq(Messages) /\ track \in Seq(Messages)
    BY <2>1
  <2>4. play \in Nat \ {0} /\ {next, asked} \subseteq Nat
    BY <2>1
  <2>5. crashed \in BOOLEAN /\ turn \in {"reply", "send", "push"} /\ setup \in Setups
    BY <2>1, Zenon
  <2> QED BY <1>2, <1>3, <2>2, <2>3, <2>4, <2>5, Zenon DEF TypeInv
<1>5. Line = {} /\ Past = {} /\ Hand = {}
      /\ \A s \in {track, goals, output, images} : Elements(s) = {} /\ Sorted(s)
  BY EmptySorted DEF Init, DetectorInit, TrackerInit, Line, Past, Hand
<1>6. OrderInv /\ PoolInv
  BY <1>5 DEF OrderInv, Precede, PoolInv
<1>7. SignalInv
  BY <1>5 DEF SignalInv
<1>8. DetectionsAreOfTheirImage
  <2>1. InFlight = {inHand}
    BY DEF Init, DetectorInit, TrackerInit, InFlight
  <2>2. answer.detections = {}
    BY DEF Init, DetectorInit, NoAnswer
  <2> QED BY <1>3, <2>1, <2>2 DEF DetectionsAreOfTheirImage
<1> QED BY <1>4, <1>6, <1>7, <1>8 DEF IInv

-----------------------------------------------------------------------------
(* The source.  A frame or a flush signal comes after all others.           *)
LEMMA SourceSends ==
  ASSUME IInv, NEW m \in Frames, Numbered(m), m.play = play, m.number = next,
         images' = Append(images, m),
         UNCHANGED <<trackerVars, setup, requests, output, turn, modelVars, inHand,
                     clientVars, crashed, dropped, asked>>,
         play' \in Nat \ {0}, next' \in Nat,
         \/ play' = play /\ next' = next + 1
         \/ play' = play + 1 /\ m.signal = "Flush"
  PROVE  IInv'
<1>1. images \in Seq(Frames) /\ play \in Nat /\ next \in Nat
  BY DEF IInv, TypeInv
<1>2. \A x \in Line : x.play < play \/ (x.play = play /\ x.number < next)
  BY DEF IInv, OrderInv
<1>3. \A x \in Line : Before(x, m)
  BY <1>2 DEF Before
<1>4. Precede(Elements(images), {m})
  BY <1>3 DEF Precede, Line
<1>5. /\ images' \in Seq(Frames) /\ Elements(images') = Elements(images) \cup {m}
      /\ Sorted(images')
  BY <1>1, <1>4, AppendToSorted DEF IInv, OrderInv
<1>6. Past' = Past /\ Line' = Line \cup {m} /\ Hand' = Hand /\ m \in Line'
  BY <1>5 DEF Past, Line, Hand, trackerVars
<1>7. TypeInv'
  BY <1>5 DEF IInv, TypeInv, trackerVars, modelVars
<1>8. OrderInv'
  <2>1. Precede(Past', Elements(images'))
    BY <1>3, <1>5, <1>6 DEF IInv, OrderInv, Precede, Line
  <2>2. ASSUME NEW x \in Line'
        PROVE  /\ Numbered(x)
               /\ x.play < play' \/ (x.play = play' /\ x.number < next')
    <3>1. x \in Line \/ x = m
      BY <1>6
    <3>2. x.play \in Nat /\ x.number \in Nat /\ Numbered(x)
      BY <3>1 DEF IInv, OrderInv, Numbered
    <3>3. x.play < play \/ (x.play = play /\ x.number <= next)
      BY <1>1, <1>2, <3>1, <3>2
    <3> QED BY <1>1, <3>2, <3>3
  <2> QED BY <1>5, <1>6, <2>1, <2>2 DEF IInv, OrderInv, trackerVars
<1>9. SignalInv'
  <2> SUFFICES ASSUME dropped = {} PROVE SignalInv'
    BY DEF SignalInv
  <2>1. /\ \A x, y \in Past : x.signal = "none" /\ x.play < y.play => FlushOf(x, Past)
        /\ ~crashed =>
             \A x \in Line : x.signal = "none" /\ x.play # play => FlushOf(x, Line)
    BY DEF IInv, SignalInv
  <2>2. ASSUME ~crashed, NEW x \in Line', x.signal = "none", x.play # play'
        PROVE  FlushOf(x, Line')
    <3>1. CASE x \in Line /\ x.play # play
      BY <1>6, <2>1, <2>2, <3>1 DEF FlushOf
    <3>2. CASE x.play = play
      <4>1. m.signal = "Flush"
        BY <2>2, <3>2
      <4> QED BY <1>6, <3>2, <4>1 DEF FlushOf
    <3> QED BY <1>6, <3>1, <3>2
  <2> QED BY <1>6, <2>1, <2>2 DEF SignalInv
<1>10. PoolInv' /\ DetectionsAreOfTheirImage'
  BY <1>6 DEF IInv, PoolInv, DetectionsAreOfTheirImage, InFlight, clientVars, trackerVars
<1> QED BY <1>7, <1>8, <1>9, <1>10 DEF IInv

LEMMA SourceKeeps ==
  ASSUME IInv, SendFrame \/ SendFlush \/ SkipFrame
  PROVE  IInv'
<1>1. play \in Nat \ {0} /\ next \in Nat /\ PlayLength \in Nat
  BY SourceAssumption DEF IInv, TypeInv
<1>2. CASE SendFrame
  <2> DEFINE m == [play |-> play, number |-> next, image |-> ImageOf(play, next),
                   signal |-> "none"]
  <2>1. ImageOf(play, next) \in Nat
    <3>1. play - 1 \in Nat
      BY DEF IInv, TypeInv
    <3>2. \A a, b \in Nat : a * b \in Nat
      OBVIOUS
    <3>3. (play - 1) * PlayLength \in Nat
      BY <1>1, <3>1, <3>2
    <3> DEFINE before == (play - 1) * PlayLength
    <3>4. ImageOf(play, next) = before + next + 1
      BY DEF ImageOf
    <3> HIDE DEF before
    <3> QED BY <1>1, <3>3, <3>4 DEF before
  <2>2. m \in Frames /\ Numbered(m) /\ m.play = play /\ m.number = next
    BY <1>1, <1>2, <2>1 DEF SendFrame, Frames, Signals, Numbered
  <2> HIDE DEF m
  <2> QED BY <1>1, <1>2, <2>2, SourceSends DEF SendFrame, AcceptImage, m
<1>3. CASE SendFlush
  <2> DEFINE m == [play |-> play, number |-> PlayLength, image |-> Empty,
                   signal |-> "Flush"]
  <2>1. m \in Frames /\ Numbered(m) /\ m.play = play /\ m.number = next /\ m.signal = "Flush"
    BY <1>1, <1>3 DEF SendFlush, Frames, Signals, Numbered, Empty
  <2> HIDE DEF m
  <2>2. images' = Append(images, m) /\ play' = play + 1 /\ next' = 0
    BY <1>3 DEF SendFlush, AcceptImage, m
  <2> QED BY <1>1, <1>3, <2>1, <2>2, SourceSends DEF SendFlush, AcceptImage
<1>4. CASE SkipFrame
  <2>1. /\ next' = next + 1
        /\ UNCHANGED <<detectorVars, trackerVars, play, asked, dropped>>
    BY <1>4 DEF SkipFrame
  <2>2. /\ UNCHANGED <<setup, requests, images, output, turn, pool, tensor, inHand, answer,
                       answered, crashed, goals, track, play, dropped, asked>>
    BY <2>1 DEF detectorVars, portVars, modelVars, clientVars, trackerVars
  <2>3. Past' = Past /\ Line' = Line /\ Hand' = Hand
    BY <2>2 DEF Past, Line, Hand
  <2>4. TypeInv'
    BY <1>1, <2>1, <2>2 DEF IInv, TypeInv
  <2>5. OrderInv'
    BY <1>1, <2>1, <2>2, <2>3, OrderKept DEF IInv, OrderInv
  <2>6. SignalInv' /\ PoolInv' /\ DetectionsAreOfTheirImage'
    BY <2>2, <2>3 DEF IInv, SignalInv, PoolInv, DetectionsAreOfTheirImage, InFlight
  <2> QED BY <2>4, <2>5, <2>6 DEF IInv
<1> QED BY <1>2, <1>3, <1>4

-----------------------------------------------------------------------------
(* The detector.  What a step leaves of the line when it leaves it alone.   *)
LEMMA LineStays ==
  ASSUME IInv, TypeInv', DetectionsAreOfTheirImage', Hand' = Hand,
         UNCHANGED <<setup, images, output, goals, track, play, next, dropped, crashed>>
  PROVE  IInv'
<1>1. Past' = Past /\ Line' = Line
  BY DEF Past, Line
<1>2. OrderInv' /\ SignalInv' /\ PoolInv'
  BY <1>1 DEF IInv, OrderInv, SignalInv, PoolInv
<1> QED BY <1>2 DEF IInv

LEMMA ModelFacts ==
  ASSUME TypeInv, pool # <<>>
  PROVE  /\ Head(pool) \in Models(setup)
         /\ ReleaseToken => pool' \in Seq(Models(setup)) /\ Len(pool') = setup.models
         /\ \A image \in Nat : SetInput(Head(pool), image) =>
              /\ tensor' \in [Models(setup) -> Nat]
              /\ Detections(Head(pool)) \in SUBSET Nat
              /\ image # Empty => Detections(Head(pool)) = {image}
         /\ setup.models # 0
<1>1. pool \in Seq(Models(setup)) /\ Len(pool) = setup.models
      /\ tensor \in [Models(setup) -> Nat]
  BY DEF TypeInv
<1>2. Head(pool) \in Models(setup) /\ Len(pool) \in Nat /\ Len(pool) > 0
      /\ Tail(pool) \in Seq(Models(setup)) /\ Len(Tail(pool)) = Len(pool) - 1
  BY <1>1
<1>3. Append(Tail(pool), Head(pool)) \in Seq(Models(setup))
      /\ Len(Append(Tail(pool), Head(pool))) = Len(Tail(pool)) + 1
  BY <1>2
<1>4. ASSUME NEW image \in Nat, SetInput(Head(pool), image)
      PROVE  /\ tensor' \in [Models(setup) -> Nat]
             /\ Detections(Head(pool)) \in SUBSET Nat
             /\ image # Empty => Detections(Head(pool)) = {image}
  <2>1. tensor' = IF image = Empty THEN tensor ELSE [tensor EXCEPT ![Head(pool)] = image]
    BY <1>4 DEF SetInput
  <2>2. tensor' \in [Models(setup) -> Nat]
    BY <1>1, <1>2, <2>1
  <2>3. image # Empty => tensor'[Head(pool)] = image
    BY <1>1, <1>2, <2>1
  <2> QED BY <1>2, <2>2, <2>3 DEF Detections
<1>5. ReleaseToken => pool' \in Seq(Models(setup)) /\ Len(pool') = setup.models
  <2>1. Len(Tail(pool)) + 1 = setup.models
    BY <1>1, <1>2
  <2> QED BY <1>3, <2>1, Zenon DEF ReleaseToken
<1>6. setup.models # 0
  BY <1>1, <1>2
<1> QED BY <1>2, <1>4, <1>5, <1>6, Zenon

LEMMA HeadOfFrames ==
  ASSUME NEW s \in Seq(Frames), s # <<>>
  PROVE  /\ Head(s) \in Frames /\ Tail(s) \in Seq(Frames) /\ Head(s).image \in Nat
         /\ Head(s).play \in Nat /\ Head(s).number \in Nat /\ Head(s).signal \in Signals
<1>1. Head(s) \in Frames /\ Tail(s) \in Seq(Frames)
  OBVIOUS
<1> QED BY <1>1 DEF Frames

LEMMA AskKeeps ==
  ASSUME IInv, AskForDetections
  PROVE  IInv'
<1>1. PICK image \in {Empty, PictureOf(asked + 1)} :
        AcceptRequest([play |-> 0, number |-> asked + 1, image |-> image, signal |-> "none"])
  BY DEF AskForDetections
<1>2. asked \in Nat /\ asked' = asked + 1
      /\ UNCHANGED <<trackerVars, play, next, dropped>>
  BY DEF AskForDetections, IInv, TypeInv
<1>3. image \in Nat
  <2>1. \A a, b \in Nat : a * b \in Nat
    OBVIOUS
  <2>2. MaxPlays * PlayLength \in Nat
    BY <2>1, SourceAssumption
  <2>3. PictureOf(asked + 1) \in Nat
    <3> DEFINE base == MaxPlays * PlayLength
    <3>1. PictureOf(asked + 1) = base + (asked + 1)
      BY DEF PictureOf
    <3> HIDE DEF base
    <3> QED BY <1>2, <2>2, <3>1 DEF base
  <2> QED BY <2>3 DEF Empty
<1> DEFINE m == [play |-> 0, number |-> asked + 1, image |-> image, signal |-> "none"]
<1>4. m \in Frames
  BY <1>2, <1>3 DEF Frames, Signals
<1>5. requests' = Append(requests, m)
      /\ UNCHANGED <<setup, images, output, turn, modelVars, inHand, clientVars, crashed>>
  BY <1>1 DEF AcceptRequest
<1> HIDE DEF m
<1>6. TypeInv'
  BY <1>2, <1>4, <1>5 DEF IInv, TypeInv, trackerVars, modelVars
<1>7. Hand' = Hand /\ DetectionsAreOfTheirImage'
  BY <1>2, <1>5 DEF Hand, IInv, DetectionsAreOfTheirImage, InFlight, trackerVars, clientVars
<1> QED BY <1>2, <1>5, <1>6, <1>7, LineStays DEF trackerVars

LEMMA ReplyKeeps ==
  ASSUME IInv, DetectorReplies
  PROVE  IInv'
<1>1. /\ turn = "reply" /\ turn' = "send"
      /\ UNCHANGED <<setup, images, output, inHand, crashed, trackerVars, sourceVars, dropped>>
  BY DEF DetectorReplies, ReplyStep, ProcessDetectionRequest, AbortDetectionRequest,
         ForgetDetectionRequest, NoDetectionRequest, NextTurn, portVars
<1>2. UNCHANGED <<goals, track, play, next, asked>> /\ Hand' = Hand
  BY <1>1 DEF trackerVars, sourceVars, Hand
<1>3. /\ requests' \in Seq(Frames)
      /\ pool' \in Seq(Models(setup)) /\ Len(pool') = setup.models
      /\ tensor' \in [Models(setup) -> Nat]
      /\ answer'.detections \subseteq {answer'.image} \ {Empty}
  <2>1. /\ requests \in Seq(Frames) /\ pool \in Seq(Models(setup)) /\ Len(pool) = setup.models
        /\ tensor \in [Models(setup) -> Nat]
        /\ answer.detections \subseteq {answer.image} \ {Empty}
    BY DEF IInv, TypeInv, DetectionsAreOfTheirImage
  <2>2. CASE ProcessDetectionRequest
    <3> DEFINE image == Head(requests).image
               found == IF image = Empty THEN {} ELSE Detections(Head(pool))
    <3>1. /\ requests # <<>> /\ pool # <<>> /\ SetInput(Head(pool), image)
          /\ Answer("succeeded", found) /\ ReleaseToken /\ requests' = Tail(requests)
      BY <2>2 DEF ProcessDetectionRequest, NextTurn
    <3>2. image \in Nat /\ requests' \in Seq(Frames)
      BY <2>1, <3>1, HeadOfFrames
    <3>3. /\ pool' \in Seq(Models(setup)) /\ Len(pool') = setup.models
          /\ tensor' \in [Models(setup) -> Nat]
          /\ found \subseteq {image} \ {Empty}
      BY <3>1, <3>2, ModelFacts DEF IInv
    <3>4. answer'.detections = found /\ answer'.image = image
      BY <3>1 DEF Answer
    <3> HIDE DEF image, found
    <3> QED BY <3>2, <3>3, <3>4
  <2>3. CASE AbortDetectionRequest
    <3>1. /\ requests # <<>> /\ pool # <<>> /\ tensor' = tensor
          /\ Answer("aborted", {}) /\ ReleaseToken /\ requests' = Tail(requests)
      BY <2>3 DEF AbortDetectionRequest, NextTurn
    <3>2. pool' \in Seq(Models(setup)) /\ Len(pool') = setup.models
      BY <3>1, ModelFacts DEF IInv
    <3>3. answer'.detections = {}
      BY <3>1 DEF Answer
    <3> QED BY <2>1, <3>1, <3>2, <3>3, HeadOfFrames
  <2>4. CASE ForgetDetectionRequest
    <3>1. /\ requests # <<>> /\ UNCHANGED modelVars
          /\ Answer("forgotten", {}) /\ requests' = Tail(requests)
      BY <2>4 DEF ForgetDetectionRequest, NextTurn
    <3>2. answer'.detections = {}
      BY <3>1 DEF Answer
    <3> QED BY <2>1, <3>1, <3>2, HeadOfFrames DEF modelVars
  <2>5. CASE NoDetectionRequest
    BY <2>1, <2>5 DEF NoDetectionRequest, portVars, modelVars, clientVars
  <2> QED BY <2>2, <2>3, <2>4, <2>5 DEF DetectorReplies, ReplyStep
<1>4. TypeInv'
  BY <1>1, <1>2, <1>3 DEF IInv, TypeInv
<1>5. DetectionsAreOfTheirImage'
  BY <1>1, <1>2, <1>3 DEF IInv, DetectionsAreOfTheirImage, InFlight
<1> QED BY <1>1, <1>2, <1>4, <1>5, LineStays

(* What the first image handler's turn does with the head of its queue.     *)
LEMMA ImageTaken ==
  ASSUME IInv, images # <<>>, turn = "send"
  PROVE  /\ images \in Seq(Frames) /\ Tail(images) \in Seq(Frames) /\ Head(images) \in Frames
         /\ Sorted(Tail(images))
         /\ Elements(images) = Elements(Tail(images)) \cup {Head(images)}
         /\ Precede({Head(images)}, Elements(Tail(images)))
         /\ Head(images) \in Line /\ Hand = {}
         /\ \A x \in Past : Before(x, Head(images))
         /\ \A x \in Elements(Tail(images)) :
              ~(x.signal = "none" /\ Head(images).signal = "Flush"
                  /\ x.play = Head(images).play)
<1>1. images \in Seq(Frames) /\ Sorted(images)
      /\ \A m \in Frames : m.play \in Nat /\ m.number \in Nat
  BY DEF IInv, TypeInv, OrderInv, Frames
<1>2. /\ Tail(images) \in Seq(Frames) /\ Head(images) \in Frames
      /\ Sorted(Tail(images)) /\ Head(images) \in Elements(images)
      /\ Elements(images) = Elements(Tail(images)) \cup {Head(images)}
      /\ Precede({Head(images)}, Elements(Tail(images)))
  BY <1>1, TailOfSorted
<1>3. Head(images) \in Line /\ Elements(Tail(images)) \subseteq Line
  BY <1>2 DEF Line
<1>4. \A x \in Elements(Tail(images)) : Before(Head(images), x)
  BY <1>2 DEF Precede
<1>5. \A x \in Past : Before(x, Head(images))
  BY <1>2 DEF IInv, OrderInv, Precede
<1> QED BY <1>1, <1>2, <1>3, <1>4, <1>5, LineFacts DEF Hand

(* The head of the images becomes the message in hand. *)
LEMMA ImageInHand ==
  ASSUME IInv, images # <<>>, turn = "send", ~crashed, setup.models # 0,
         NEW detections \in SUBSET Nat,
         Head(images).image # Empty => detections \subseteq {Head(images).image},
         images' = Tail(images), turn' = "push",
         inHand' = Message(Head(images), detections, "default"),
         pool' \in Seq(Models(setup)), Len(pool') = setup.models,
         tensor' \in [Models(setup) -> Nat],
         UNCHANGED <<setup, requests, output, clientVars, crashed, trackerVars,
                     sourceVars, dropped>>
  PROVE  IInv'
<1> DEFINE x0 == Head(images)
           m == Message(x0, detections, "default")
<1>1. /\ images \in Seq(Frames) /\ Tail(images) \in Seq(Frames) /\ x0 \in Frames
      /\ Sorted(Tail(images))
      /\ Elements(images) = Elements(Tail(images)) \cup {x0}
      /\ Precede({x0}, Elements(Tail(images)))
      /\ x0 \in Line /\ Hand = {}
      /\ \A x \in Past : Before(x, x0)
  BY ImageTaken
<1>2. /\ m \in Messages /\ m.play = x0.play /\ m.number = x0.number /\ m.signal = x0.signal
      /\ m.image = x0.image /\ m.detections = detections
  BY <1>1 DEF Message, Messages, Frames
<1> HIDE DEF x0, m
<1>3. inHand' = m /\ images' = Tail(images)
  BY DEF x0, m
<1>4. UNCHANGED <<goals, track, play, next, asked, answer>>
  BY DEF trackerVars, sourceVars, clientVars
<1>5. TypeInv'
  BY <1>1, <1>2, <1>3, <1>4 DEF IInv, TypeInv
<1>6. Hand' = {m} /\ Past' = Past \cup {m}
      /\ Line' = Past \cup {m} \cup Elements(Tail(images))
  BY <1>1, <1>3, <1>4 DEF Hand, Past, Line
<1>7. \A x : /\ Before(x, x0) <=> Before(x, m)
             /\ Before(x0, x) <=> Before(m, x)
  BY <1>2 DEF Before
<1>8. OrderInv'
  <2>1. \A s \in {track, goals, output, images}' : Sorted(s)
    BY <1>1, <1>3, <1>4 DEF IInv, OrderInv
  <2>2. \A x \in Past : Before(x, m)
    BY <1>1, <1>7
  <2>3. \A x \in Elements(Tail(images)) : Before(m, x)
    BY <1>1, <1>7 DEF Precede
  <2>4. /\ Precede(Elements(track)', (Elements(goals) \cup Elements(output) \cup Hand)')
        /\ Precede(Elements(goals)', (Elements(output) \cup Hand)')
        /\ Precede(Elements(output)', Hand')
    BY <1>1, <1>4, <1>6, <2>2 DEF IInv, OrderInv, Precede, Past
  <2>5. Precede(Past', Elements(images)')
    BY <1>1, <1>3, <1>6, <2>3 DEF IInv, OrderInv, Precede
  <2>6. \A x \in Line' : /\ Numbered(x)
                         /\ x.play < play \/ (x.play = play /\ x.number < next)
    <3>1. \A x \in Line : /\ Numbered(x)
                          /\ x.play < play \/ (x.play = play /\ x.number < next)
      BY DEF IInv, OrderInv
    <3>2. Numbered(m) /\ (m.play < play \/ (m.play = play /\ m.number < next))
      BY <1>1, <1>2, <3>1 DEF Numbered
    <3>3. \A x \in Line' : x = m \/ x \in Line
      BY <1>1, <1>6 DEF Line
    <3> QED BY <3>1, <3>2, <3>3
  <2> QED BY <1>4, <2>1, <2>4, <2>5, <2>6 DEF IInv, OrderInv
<1>9. SignalInv'
  <2> SUFFICES ASSUME dropped = {} PROVE SignalInv'
    BY DEF SignalInv
  <2>1. /\ \A x, y \in Past : x.signal = "none" /\ x.play < y.play => FlushOf(x, Past)
        /\ ~crashed =>
             \A x \in Line : x.signal = "none" /\ x.play # play => FlushOf(x, Line)
    BY DEF IInv, SignalInv
  <2>2. ~crashed
    OBVIOUS
  <2>3. ASSUME NEW x, FlushOf(x, Line)
        PROVE  FlushOf(x, Line')
    BY <1>1, <1>2, <1>6, <2>3 DEF FlushOf, Line
  <2>4. ASSUME NEW x \in Line', x.signal = "none", x.play # play
        PROVE  FlushOf(x, Line')
    <3>1. CASE x = m
      <4>1. FlushOf(x0, Line)
        BY <1>1, <1>2, <2>1, <2>2, <2>4, <3>1
      <4>2. FlushOf(x, Line)
        BY <1>2, <3>1, <4>1 DEF FlushOf
      <4> QED BY <2>3, <4>2
    <3>2. CASE x \in Line
      BY <2>1, <2>2, <2>3, <2>4, <3>2
    <3> QED BY <1>1, <1>6, <3>1, <3>2 DEF Line
  <2>5. ASSUME NEW x \in Past', NEW y \in Past', x.signal = "none", x.play < y.play
        PROVE  FlushOf(x, Past')
    <3>1. /\ \A z \in Line : z.play \in Nat
          /\ x0.play \in Nat /\ play \in Nat /\ x0.play <= play
      <4>1. \A z \in Line : z.play \in Nat /\ (z.play < play \/ z.play = play)
        BY DEF IInv, OrderInv, Numbered
      <4>2. play \in Nat
        BY DEF IInv, TypeInv
      <4> QED BY <1>1, <4>1, <4>2
    <3>2. ASSUME NEW z \in Past
          PROVE  z.play <= x0.play
      <4>1. z.play < x0.play \/ z.play = x0.play
        BY <1>1 DEF Before
      <4>2. z.play \in Nat /\ x0.play \in Nat
        BY <3>1 DEF Line
      <4> QED BY <4>1, <4>2
    <3>3. x \in Past /\ x \in Line /\ x.play < x0.play
      BY <1>2, <1>6, <2>5, <3>1, <3>2 DEF Line
    <3>4. PICK f \in Line : f.signal = "Flush" /\ f.play = x.play
      <4>1. x.play # play
        BY <3>1, <3>3
      <4> QED BY <2>1, <2>2, <2>5, <3>3, <4>1 DEF FlushOf
    <3>5. f \notin Elements(Tail(images)) /\ f # x0
      <4>1. ~Before(x0, f)
        BY <3>1, <3>3, <3>4 DEF Before
      <4> QED BY <1>1, <3>1, <3>3, <3>4, <4>1 DEF Precede
    <3>6. f \in Past
      BY <1>1, <3>4, <3>5 DEF Line
    <3> QED BY <1>6, <3>4, <3>6 DEF FlushOf
  <2> QED BY <1>4, <2>4, <2>5 DEF SignalInv
<1>10. DetectionsAreOfTheirImage'
  <2>1. InFlight' \subseteq InFlight \cup {m}
    BY <1>3, <1>4 DEF InFlight
  <2>2. m.image # Empty => m.detections \subseteq {m.image}
    BY <1>2 DEF x0
  <2> QED BY <1>4, <2>1, <2>2 DEF IInv, DetectionsAreOfTheirImage
<1> QED BY <1>5, <1>8, <1>9, <1>10 DEF IInv, PoolInv

(* The other steps of that handler. *)
LEMMA SendKeeps ==
  ASSUME IInv, DetectorSends
  PROVE  IInv'
<1>1. UNCHANGED <<setup, requests, clientVars, goals, track, play, next, asked, dropped>>
  BY DEF DetectorSends, SendStep, ProcessImageRequest, ProcessLostImage, ForgetImageRequest,
         NoImageRequest, PushDetections, RefuseDetections, Pushed, portVars, trackerVars,
         sourceVars
<1>2. UNCHANGED <<trackerVars, sourceVars>>
  BY DEF DetectorSends
<1>3. CASE ProcessImageRequest /\ crashed' = crashed
  <2> DEFINE image == Head(images).image
             found == Detections(Head(pool))
  <2>1. /\ turn = "send" /\ images # <<>> /\ pool # <<>> /\ ~crashed
        /\ SetInput(Head(pool), image) /\ images' = Tail(images) /\ ReleaseToken
        /\ inHand' = Message(Head(images), found, "default") /\ turn' = "push"
        /\ UNCHANGED output
    BY <1>3 DEF ProcessImageRequest, DeliveryPolicy
  <2>2. image \in Nat
    BY <2>1, HeadOfFrames DEF IInv, TypeInv
  <2>3. /\ pool' \in Seq(Models(setup)) /\ Len(pool') = setup.models /\ setup.models # 0
        /\ tensor' \in [Models(setup) -> Nat] /\ found \in SUBSET Nat
        /\ image # Empty => found \subseteq {image}
    BY <2>1, <2>2, ModelFacts DEF IInv
  <2> HIDE DEF found
  <2> QED BY <1>1, <1>2, <1>3, <2>1, <2>3, ImageInHand
<1>4. CASE ProcessLostImage
  <2>1. /\ turn = "send" /\ images # <<>> /\ pool # <<>> /\ ~crashed
        /\ images' = Tail(images) /\ ReleaseToken
        /\ inHand' = Message(Head(images), {}, "default") /\ turn' = "push"
        /\ UNCHANGED <<output, tensor, crashed>>
    BY <1>4 DEF ProcessLostImage, DeliveryPolicy
  <2>2. /\ pool' \in Seq(Models(setup)) /\ Len(pool') = setup.models /\ setup.models # 0
        /\ tensor' \in [Models(setup) -> Nat]
    BY <2>1, ModelFacts DEF IInv, TypeInv
  <2> QED BY <1>1, <1>2, <2>1, <2>2, ImageInHand
<1>5. ASSUME images # <<>>, turn = "send", images' = Tail(images), turn' # "push",
             turn' \in {"reply", "send"}, crashed' \in BOOLEAN,
             UNCHANGED <<inHand, output>>, crashed => crashed',
             pool' \in Seq(Models(setup)), Len(pool') = setup.models,
             tensor' \in [Models(setup) -> Nat],
             ~crashed' => Past = {}
      PROVE  IInv'
  <2>1. /\ Tail(images) \in Seq(Frames) /\ Sorted(Tail(images)) /\ Hand = {}
        /\ Elements(images) = Elements(Tail(images)) \cup {Head(images)}
        /\ \A x \in Elements(Tail(images)) :
             ~(x.signal = "none" /\ Head(images).signal = "Flush"
                 /\ x.play = Head(images).play)
    BY <1>5, ImageTaken
  <2>2. Hand' = {} /\ Past' = Past /\ Line' = Past \cup Elements(Tail(images))
    BY <1>1, <1>5, <2>1 DEF Hand, Past, Line
  <2>3. TypeInv'
    BY <1>1, <1>5, <2>1 DEF IInv, TypeInv
  <2>4. OrderInv'
    <3>1. next \in Nat /\ next >= next
      BY DEF IInv, TypeInv
    <3> QED BY <1>1, <1>5, <2>1, <2>2, <3>1, OrderKept DEF IInv, OrderInv
  <2>5. SignalInv'
    <3>1. Line' \subseteq Line
      BY <2>1, <2>2 DEF Line
    <3>2. ~crashed' => \A f \in Line \ Line', x \in Line' :
            f.signal = "Flush" /\ x.signal = "none" => x.play # f.play
      BY <1>5, <2>1, <2>2 DEF Line
    <3> QED BY <1>1, <1>5, <2>2, <3>1, <3>2, SignalKept
  <2>6. PoolInv' /\ DetectionsAreOfTheirImage'
    BY <1>1, <1>5, <2>2 DEF IInv, PoolInv, DetectionsAreOfTheirImage, InFlight, clientVars
  <2> QED BY <2>3, <2>4, <2>5, <2>6 DEF IInv
<1>6. CASE ProcessImageRequest /\ crashed' # crashed
  <2>1. /\ turn = "send" /\ images # <<>> /\ pool # <<>>
        /\ SetInput(Head(pool), Head(images).image) /\ images' = Tail(images) /\ ReleaseToken
        /\ crashed' = TRUE /\ UNCHANGED <<inHand, turn, output>>
    BY <1>6 DEF ProcessImageRequest
  <2>2. Head(images).image \in Nat
    BY <2>1, HeadOfFrames DEF IInv, TypeInv
  <2>3. /\ pool' \in Seq(Models(setup)) /\ Len(pool') = setup.models
        /\ tensor' \in [Models(setup) -> Nat]
    BY <2>1, <2>2, ModelFacts DEF IInv
  <2> QED BY <1>5, <2>1, <2>3
<1>7. CASE ForgetImageRequest
  <2>1. /\ turn = "send" /\ images # <<>> /\ pool = <<>> /\ turn' = "reply"
        /\ images' = Tail(images)
        /\ UNCHANGED <<output, pool, tensor, inHand, crashed>>
    BY <1>7 DEF ForgetImageRequest, modelVars
  <2>2. setup.models = 0
    BY <2>1 DEF IInv, TypeInv
  <2>3. Past = {}
    BY <2>2 DEF IInv, PoolInv
  <2>4. crashed' \in BOOLEAN
    BY <2>1 DEF IInv, TypeInv
  <2> QED BY <1>5, <2>1, <2>3, <2>4 DEF IInv, TypeInv
<1>8. CASE NoImageRequest
  <2>1. turn = "send" /\ turn' = "reply"
        /\ UNCHANGED <<images, output, pool, tensor, inHand, crashed>>
    BY <1>8 DEF NoImageRequest, portVars, modelVars
  <2>2. TypeInv' /\ Hand' = Hand /\ DetectionsAreOfTheirImage'
    BY <1>1, <2>1 DEF IInv, TypeInv, Hand, DetectionsAreOfTheirImage, InFlight, clientVars
  <2> QED BY <1>1, <2>1, <2>2, LineStays
<1>9. CASE PushDetections \/ RefuseDetections
  <2>1. /\ turn = "push" /\ turn' = "reply" /\ inHand' = NoMessage
        /\ UNCHANGED <<images, pool, tensor, crashed>>
        /\ \/ output' = Append(output, inHand)
           \/ output' = output /\ inHand.signal = "none"
    BY <1>9 DEF PushDetections, RefuseDetections, Pushed, modelVars
  <2>2. NoMessage \in Messages /\ NoMessage.image = Empty
    BY DEF NoMessage, Messages, Signals, Empty
  <2>3. output \in Seq(Messages) /\ inHand \in Messages /\ Hand = {inHand} /\ Hand' = {}
        /\ next \in Nat /\ next >= next
    BY <2>1 DEF IInv, TypeInv, Hand
  <2>4. CASE output' = Append(output, inHand)
    <3>1. /\ output' \in Seq(Messages) /\ Sorted(output')
          /\ Elements(output') = Elements(output) \cup {inHand}
      BY <2>3, <2>4, AppendToSorted DEF IInv, OrderInv
    <3>2. Past' = Past /\ Line' = Line
      BY <1>1, <2>1, <2>3, <3>1 DEF Past, Line
    <3>3. TypeInv'
      BY <1>1, <2>1, <2>2, <3>1 DEF IInv, TypeInv
    <3>4. OrderInv'
      BY <1>1, <2>1, <2>3, <3>1, <3>2 DEF IInv, OrderInv, Precede
    <3>5. SignalInv' /\ PoolInv'
      BY <1>1, <2>1, <3>2 DEF IInv, SignalInv, PoolInv
    <3>6. DetectionsAreOfTheirImage'
      <4>1. InFlight' \subseteq InFlight \cup {NoMessage}
        BY <1>1, <2>1, <3>1 DEF InFlight, Elements
      <4> QED BY <1>1, <2>2, <4>1 DEF IInv, DetectionsAreOfTheirImage, clientVars
    <3> QED BY <3>3, <3>4, <3>5, <3>6 DEF IInv
  <2>5. CASE output' = output /\ inHand.signal = "none"
    <3>1. /\ Past' \subseteq Past /\ Line' \subseteq Line
          /\ \A f \in Line \ Line' : f = inHand
          /\ \A f \in Past \ Past' : f = inHand
      BY <1>1, <2>1, <2>3, <2>5 DEF Past, Line
    <3>2. TypeInv'
      BY <1>1, <2>1, <2>2, <2>5 DEF IInv, TypeInv
    <3>3. OrderInv'
      BY <1>1, <2>1, <2>3, <2>5, OrderKept DEF IInv, OrderInv
    <3>4. SignalInv'
      <4>1. inHand.signal # "Flush"
        BY <2>5
      <4>2. \A f \in (Past \ Past') \cup (Line \ Line') : f.signal # "Flush"
        <5> SUFFICES ASSUME NEW f \in (Past \ Past') \cup (Line \ Line')
                     PROVE  f.signal # "Flush"
          OBVIOUS
        <5>1. f = inHand
          BY <3>1
        <5> QED BY <4>1, <5>1
      <4> QED BY <1>1, <2>1, <3>1, <4>2, SignalKept
    <3>5. PoolInv'
      BY <1>1, <3>1 DEF IInv, PoolInv
    <3>6. DetectionsAreOfTheirImage'
      <4>1. InFlight' \subseteq InFlight \cup {NoMessage}
        BY <1>1, <2>1, <2>5 DEF InFlight
      <4> QED BY <1>1, <2>2, <4>1 DEF IInv, DetectionsAreOfTheirImage, clientVars
    <3> QED BY <3>2, <3>3, <3>4, <3>5, <3>6 DEF IInv
  <2> QED BY <2>1, <2>4, <2>5
<1> QED BY <1>3, <1>4, <1>6, <1>7, <1>8, <1>9 DEF DetectorSends, SendStep

LEMMA RestartKeeps ==
  ASSUME IInv, DetectorRestarts
  PROVE  IInv'
<1>1. /\ requests' = <<>> /\ images' = <<>>
      /\ UNCHANGED <<setup, output, turn, pool, tensor, inHand, answer, crashed, goals, track,
                     play, next, asked>>
      /\ dropped' = dropped \cup ({images[k].signal : k \in DOMAIN images} \ {"none"})
  BY DEF DetectorRestarts, StopAndStart, modelVars, trackerVars, sourceVars
<1>2. Past' = Past /\ Hand' = Hand /\ Line' = Past
  BY <1>1, EmptySorted DEF Past, Line, Hand
<1>3. TypeInv'
  BY <1>1 DEF IInv, TypeInv
<1>4. OrderInv'
  <2>1. next \in Nat /\ next >= next
    BY DEF IInv, TypeInv
  <2> QED BY <1>1, <1>2, <2>1, EmptySorted, OrderKept DEF IInv, OrderInv
<1>5. SignalInv'
  <2>1. dropped' = {} => dropped = {} /\ \A f \in Elements(images) : f.signal = "none"
    BY <1>1 DEF Elements
  <2>2. \A f \in Line \ Line' : f \in Elements(images)
    BY <1>2 DEF Line
  <2> QED BY <1>1, <1>2, <2>1, <2>2, SignalKept DEF Line
<1>6. PoolInv' /\ DetectionsAreOfTheirImage'
  BY <1>1, <1>2 DEF IInv, PoolInv, DetectionsAreOfTheirImage, InFlight
<1> QED BY <1>3, <1>4, <1>5, <1>6 DEF IInv

-----------------------------------------------------------------------------
(* What is removed from the head of a queue of messages. *)
LEMMA HeadOfMessages ==
  ASSUME IInv, NEW s \in Seq(Messages), s # <<>>, Sorted(s)
  PROVE  /\ Tail(s) \in Seq(Messages) /\ Head(s) \in Messages /\ Sorted(Tail(s))
         /\ Head(s) \in Elements(s) /\ Elements(s) = Elements(Tail(s)) \cup {Head(s)}
         /\ Precede({Head(s)}, Elements(Tail(s)))
<1>1. \A m \in Messages : m.play \in Nat /\ m.number \in Nat
  BY DEF Messages
<1> QED BY <1>1, TailOfSorted

(* The delivery task. *)
LEMMA DeliveryKeeps ==
  ASSUME IInv, DeliverToTracker \/ DropDetections
  PROVE  IInv'
<1> DEFINE m == Head(output)
<1>1. /\ output # <<>> /\ output' = Tail(output)
      /\ UNCHANGED <<setup, requests, images, turn, pool, tensor, inHand, answer, crashed,
                     track, play, next, asked>>
  BY DEF DeliverToTracker, DropDetections, Deliver, AcceptGoal, modelVars, clientVars,
         trackerVars, sourceVars
<1>2. output \in Seq(Messages) /\ Sorted(output) /\ goals \in Seq(Messages) /\ Sorted(goals)
      /\ next \in Nat /\ next >= next
  BY DEF IInv, TypeInv, OrderInv
<1>3. /\ Tail(output) \in Seq(Messages) /\ m \in Messages /\ Sorted(Tail(output))
      /\ m \in Elements(output) /\ Elements(output) = Elements(Tail(output)) \cup {m}
      /\ Precede({m}, Elements(Tail(output)))
  BY <1>1, <1>2, HeadOfMessages
<1> HIDE DEF m
<1>4. Hand' = Hand
  BY <1>1 DEF Hand
<1>5. CASE DeliverToTracker
  <2>1. goals' = Append(goals, m) /\ dropped' = dropped
    BY <1>5 DEF DeliverToTracker, AcceptGoal, m
  <2>2. Precede(Elements(goals), {m})
    BY <1>3 DEF IInv, OrderInv, Precede
  <2>3. /\ goals' \in Seq(Messages) /\ Elements(goals') = Elements(goals) \cup {m}
        /\ Sorted(goals')
    BY <1>2, <1>3, <2>1, <2>2, AppendToSorted
  <2>4. Past' = Past /\ Line' = Line
    BY <1>1, <1>3, <1>4, <2>3 DEF Past, Line
  <2>5. TypeInv'
    BY <1>1, <1>3, <2>3 DEF IInv, TypeInv
  <2>6. OrderInv'
    <3>1. \A s \in {track, goals, output, images}' : Sorted(s)
      BY <1>1, <1>3, <2>3 DEF IInv, OrderInv
    <3>2. /\ Precede(Elements(track)', (Elements(goals) \cup Elements(output) \cup Hand)')
          /\ Precede(Elements(goals)', (Elements(output) \cup Hand)')
          /\ Precede(Elements(output)', Hand')
      BY <1>1, <1>3, <1>4, <2>3 DEF IInv, OrderInv, Precede
    <3>3. Precede(Past', Elements(images)')
      BY <1>1, <2>4 DEF IInv, OrderInv
    <3>4. \A x \in Line' : /\ Numbered(x)
                           /\ x.play < play \/ (x.play = play /\ x.number < next)
      BY <2>4 DEF IInv, OrderInv
    <3>5. \A x \in Elements(track)' : x.signal = "none"
      BY <1>1 DEF IInv, OrderInv
    <3> QED BY <1>1, <3>1, <3>2, <3>3, <3>4, <3>5 DEF OrderInv
  <2>7. SignalInv' /\ PoolInv'
    BY <1>1, <2>1, <2>4 DEF IInv, SignalInv, PoolInv
  <2>8. DetectionsAreOfTheirImage'
    <3>1. InFlight' \subseteq InFlight
      BY <1>1, <1>3, <2>3 DEF InFlight, Elements
    <3> QED BY <1>1, <3>1 DEF IInv, DetectionsAreOfTheirImage
  <2> QED BY <2>5, <2>6, <2>7, <2>8 DEF IInv
<1>6. CASE DropDetections
  <2>1. goals' = goals /\ dropped' = dropped \cup ({m.signal} \ {"none"})
    BY <1>6 DEF DropDetections, trackerVars, m
  <2>2. /\ Past' \subseteq Past /\ Line' \subseteq Line
        /\ \A f \in (Past \ Past') \cup (Line \ Line') : f = m
    BY <1>1, <1>3, <1>4, <2>1 DEF Past, Line
  <2>3. TypeInv'
    BY <1>1, <1>3, <2>1 DEF IInv, TypeInv
  <2>4. OrderInv'
    BY <1>1, <1>2, <1>3, <1>4, <2>1, OrderKept DEF IInv, OrderInv
  <2>5. SignalInv'
    <3>1. dropped' = {} => dropped = {} /\ m.signal = "none"
      BY <2>1
    <3>2. dropped' = {} => \A f \in (Past \ Past') \cup (Line \ Line') : f.signal # "Flush"
      <4> SUFFICES ASSUME dropped' = {}, NEW f \in (Past \ Past') \cup (Line \ Line')
                   PROVE  f.signal # "Flush"
        OBVIOUS
      <4>1. f = m
        BY <2>2
      <4> QED BY <3>1, <4>1
    <3> QED BY <1>1, <2>2, <3>1, <3>2, SignalKept
  <2>6. PoolInv' /\ DetectionsAreOfTheirImage'
    <3>1. InFlight' \subseteq InFlight
      BY <1>1, <1>3, <2>1 DEF InFlight, Elements
    <3> QED BY <1>1, <2>2, <3>1 DEF IInv, PoolInv, DetectionsAreOfTheirImage
  <2> QED BY <2>3, <2>4, <2>5, <2>6 DEF IInv
<1> QED BY <1>5, <1>6

-----------------------------------------------------------------------------
(* The tracker.  Its goals and its track get shorter; what it ends or       *)
(* throws away is over.                                                     *)
LEMMA TrackerForgets ==
  ASSUME IInv, goals' \in Seq(Messages), track' \in Seq(Messages),
         Sorted(goals'), Sorted(track'),
         Elements(goals') \subseteq Elements(goals), Elements(track') \subseteq Elements(track),
         UNCHANGED <<detectorVars, sourceVars, dropped>>,
         \A f \in Elements(goals) \ Elements(goals'), x \in Line' :
           f.signal = "Flush" /\ x.signal = "none" => x.play # f.play
  PROVE  IInv'
<1>1. UNCHANGED <<setup, requests, images, output, turn, pool, tensor, inHand, answer, crashed,
                  play, next, asked, dropped>>
  BY DEF detectorVars, portVars, modelVars, clientVars, sourceVars
<1>2. Hand' = Hand /\ next \in Nat /\ next >= next
  BY <1>1 DEF Hand, IInv, TypeInv
<1>3. /\ Past' \subseteq Past /\ Line' \subseteq Line /\ Past' \subseteq Line'
      /\ \A f \in (Past \ Past') \cup (Line \ Line') :
           f \in Elements(track) \/ f \in Elements(goals) \ Elements(goals')
  BY <1>1, <1>2 DEF Past, Line
<1>4. TypeInv'
  BY <1>1 DEF IInv, TypeInv
<1>5. OrderInv'
  BY <1>1, <1>2, OrderKept DEF IInv, OrderInv
<1>6. SignalInv'
  <2>1. \A f \in (Past \ Past') \cup (Line \ Line'), x \in Line' :
          f.signal = "Flush" /\ x.signal = "none" => x.play # f.play
    BY <1>3 DEF IInv, OrderInv
  <2> QED BY <1>1, <1>3, <2>1, SignalKept
<1>7. PoolInv' /\ DetectionsAreOfTheirImage'
  <2>1. InFlight' \subseteq InFlight
    BY <1>1 DEF InFlight, Elements
  <2> QED BY <1>1, <1>3, <2>1 DEF IInv, PoolInv, DetectionsAreOfTheirImage
<1> QED BY <1>4, <1>5, <1>6, <1>7 DEF IInv

LEMMA TrackerKeeps ==
  ASSUME IInv, TrackerTracks \/ TrackerFinishes \/ TrackerRefuses \/ TrackerReopens
  PROVE  IInv'
<1> DEFINE m == Head(goals)
<1>1. /\ goals \in Seq(Messages) /\ Sorted(goals) /\ track \in Seq(Messages) /\ Sorted(track)
      /\ next \in Nat /\ next >= next
  BY DEF IInv, TypeInv, OrderInv
<1>2. UNCHANGED <<detectorVars, sourceVars, dropped>>
  BY DEF TrackerTracks, TrackerFinishes, TrackerRefuses, TrackerReopens
<1>3. ASSUME goals # <<>>
      PROVE  /\ Tail(goals) \in Seq(Messages) /\ m \in Messages /\ Sorted(Tail(goals))
             /\ m \in Elements(goals) /\ Elements(goals) = Elements(Tail(goals)) \cup {m}
             /\ Precede({m}, Elements(Tail(goals))) /\ Numbered(m) /\ m \in Line
  <2>1. /\ Tail(goals) \in Seq(Messages) /\ m \in Messages /\ Sorted(Tail(goals))
        /\ m \in Elements(goals) /\ Elements(goals) = Elements(Tail(goals)) \cup {m}
        /\ Precede({m}, Elements(Tail(goals)))
    BY <1>1, <1>3, HeadOfMessages
  <2> QED BY <2>1, LineFacts DEF Line, Past
<1> HIDE DEF m
<1>4. ASSUME NEW f \in Line, NEW x \in Line, Before(f, x), f.signal = "Flush",
             x.signal = "none"
      PROVE  x.play # f.play
  BY <1>4, LineFacts
<1>5. CASE TrackerTracks
  <2>1. /\ goals # <<>> /\ goals' = Tail(goals) /\ track' = Append(track, m)
        /\ ~IsEndOfTracking(m)
    BY <1>5 DEF TrackerTracks, Track, Handled, m
  <2>2. m.signal = "none"
    BY <1>3, <2>1 DEF IsEndOfTracking, Numbered, Signals
  <2>3. UNCHANGED <<setup, requests, images, output, turn, pool, tensor, inHand, answer,
                    crashed, play, next, asked, dropped>> /\ Hand' = Hand
    BY <1>2 DEF detectorVars, portVars, modelVars, clientVars, sourceVars, Hand
  <2>4. Precede(Elements(track), {m})
    BY <1>3, <2>1 DEF IInv, OrderInv, Precede
  <2>5. /\ track' \in Seq(Messages) /\ Elements(track') = Elements(track) \cup {m}
        /\ Sorted(track')
    BY <1>1, <1>3, <2>1, <2>4, AppendToSorted
  <2>6. /\ goals' \in Seq(Messages) /\ Sorted(goals')
        /\ Elements(goals) = Elements(goals') \cup {m} /\ Precede({m}, Elements(goals'))
    BY <1>3, <2>1
  <2>7. Past' = Past /\ Line' = Line
    BY <2>3, <2>5, <2>6 DEF Past, Line
  <2>8. TypeInv'
    BY <2>3, <2>5, <2>6 DEF IInv, TypeInv
  <2>9. OrderInv'
    <3>1. \A s \in {track, goals, output, images}' : Sorted(s)
      BY <2>3, <2>5, <2>6 DEF IInv, OrderInv
    <3>2. /\ Precede(Elements(track)', (Elements(goals) \cup Elements(output) \cup Hand)')
          /\ Precede(Elements(goals)', (Elements(output) \cup Hand)')
          /\ Precede(Elements(output)', Hand')
      BY <2>3, <2>5, <2>6 DEF IInv, OrderInv, Precede
    <3>3. Precede(Past', Elements(images)')
      BY <2>3, <2>7 DEF IInv, OrderInv
    <3>4. \A x \in Line' : /\ Numbered(x)
                           /\ x.play < play \/ (x.play = play /\ x.number < next)
      BY <2>7 DEF IInv, OrderInv
    <3>5. \A x \in Elements(track)' : x.signal = "none"
      BY <2>2, <2>5 DEF IInv, OrderInv
    <3> QED BY <2>3, <3>1, <3>2, <3>3, <3>4, <3>5 DEF OrderInv
  <2>10. SignalInv' /\ PoolInv'
    BY <2>3, <2>7 DEF IInv, SignalInv, PoolInv
  <2>11. DetectionsAreOfTheirImage'
    <3>1. InFlight' \subseteq InFlight
      BY <2>3, <2>6 DEF InFlight, Elements
    <3> QED BY <2>3, <3>1 DEF IInv, DetectionsAreOfTheirImage
  <2> QED BY <2>8, <2>9, <2>10, <2>11 DEF IInv
<1>6. CASE TrackerFinishes
  <2>1. goals # <<>> /\ goals' = Tail(goals) /\ track' = <<>>
    BY <1>6 DEF TrackerFinishes, FinishTrack, Handled
  <2>2. ASSUME NEW x \in Line'
        PROVE  x \in Line /\ Before(m, x)
    <3>1. Line' = Elements(goals') \cup Elements(output) \cup Hand \cup Elements(images)
      BY <1>2, <2>1, EmptySorted DEF Line, Past, Hand, detectorVars, portVars
    <3> QED BY <1>3, <2>1, <2>2, <3>1 DEF Line, Past, IInv, OrderInv, Precede
  <2>3. \A f \in Elements(goals) \ Elements(goals') : f = m
    BY <1>3, <2>1
  <2>4. \A f \in Elements(goals) \ Elements(goals'), x \in Line' :
          f.signal = "Flush" /\ x.signal = "none" => x.play # f.play
    BY <1>3, <1>4, <2>1, <2>2, <2>3
  <2> QED BY <1>1, <1>2, <1>3, <2>1, <2>4, EmptySorted, TrackerForgets
<1>7. CASE TrackerRefuses
  <2>1. goals # <<>> /\ goals' = Tail(goals) /\ track' = track /\ ~IsEndOfTracking(m)
    BY <1>7 DEF TrackerRefuses, Refuse, Handled, m
  <2>2. \A f \in Elements(goals) \ Elements(goals') : f = m
    BY <1>3, <2>1
  <2>3. m.signal # "Flush"
    BY <2>1 DEF IsEndOfTracking
  <2>4. \A f \in Elements(goals) \ Elements(goals') : f.signal # "Flush"
    <3> SUFFICES ASSUME NEW f \in Elements(goals) \ Elements(goals')
                 PROVE  f.signal # "Flush"
      OBVIOUS
    <3>1. f = m
      BY <2>2
    <3> QED BY <2>3, <3>1
  <2> QED BY <1>1, <1>2, <1>3, <2>1, <2>4, TrackerForgets
<1>8. CASE TrackerReopens
  <2>1. goals' = <<>> /\ track' = <<>>
    BY <1>8 DEF TrackerReopens, Reopen
  <2>2. Line' = Elements(output) \cup Hand \cup Elements(images)
    BY <1>2, <2>1, EmptySorted DEF Line, Past, Hand, detectorVars, portVars
  <2>3. \A f \in Elements(goals), x \in Line' : f \in Line /\ x \in Line /\ Before(f, x)
    BY <2>2 DEF IInv, OrderInv, Precede, Line, Past
  <2>4. \A f \in Elements(goals) \ Elements(goals'), x \in Line' :
          f.signal = "Flush" /\ x.signal = "none" => x.play # f.play
    BY <1>4, <2>3
  <2> QED BY <1>1, <1>2, <2>1, <2>4, EmptySorted, TrackerForgets
<1> QED BY <1>5, <1>6, <1>7, <1>8

-----------------------------------------------------------------------------
LEMMA Invariance ==
  Spec => []IInv
<1>1. Init => IInv
  BY InitEstablishes
<1>2. IInv /\ [Next]_vars => IInv'
  <2> SUFFICES ASSUME IInv, [Next]_vars PROVE IInv'
    OBVIOUS
  <2>1. CASE UNCHANGED vars
    <3>1. UNCHANGED <<setup, requests, images, output, turn, pool, tensor, inHand, answer,
                      crashed, goals, track, play, next, asked, dropped>>
      BY <2>1 DEF vars, detectorVars, portVars, modelVars, clientVars, trackerVars, sourceVars
    <3>2. TypeInv' /\ Hand' = Hand /\ DetectionsAreOfTheirImage'
      BY <3>1 DEF IInv, TypeInv, Hand, DetectionsAreOfTheirImage, InFlight
    <3> QED BY <3>1, <3>2, LineStays
  <2>2. CASE Next
    BY <2>2, SourceKeeps, AskKeeps, ReplyKeeps, SendKeeps, RestartKeeps, DeliveryKeeps,
       TrackerKeeps
       DEF Next
  <2> QED BY <2>1, <2>2
<1> QED BY <1>1, <1>2, PTL DEF Spec

(* The values of every variable are of their types, whatever the plays, the *)
(* requests and the restarts.                                               *)
THEOREM TypeCorrect ==
  Spec => []TypeInv
<1>1. IInv => TypeInv
  BY DEF IInv
<1> QED BY <1>1, Invariance, PTL

(* The detections that leave the detector, towards the tracker or in a      *)
(* reply, are those of the image they leave with: the models' inout_data,   *)
(* which the two handlers share, never mixes them up.                       *)
THEOREM DetectionsNeverMixUp ==
  Spec => []DetectionsAreOfTheirImage
<1>1. IInv => DetectionsAreOfTheirImage
  BY DEF IInv
<1> QED BY <1>1, Invariance, PTL

(* Frames are tracked in the order in which the source numbered them, and   *)
(* those of two plays never in one track unless a flush signal was dropped: *)
(* the queues keep the order, so the signal between them ends the track.    *)
THEOREM TracksStayInOnePlay ==
  Spec => []OneTrackPerPlay
<1>1. ASSUME IInv, dropped = {}, NEW j \in DOMAIN track, NEW k \in DOMAIN track, j < k
      PROVE  track[j].play = track[k].play /\ track[j].number < track[k].number
  <2> DEFINE x == track[j]
             y == track[k]
  <2>1. x \in Elements(track) /\ y \in Elements(track) /\ Before(x, y)
    BY <1>1 DEF IInv, OrderInv, Sorted, Elements
  <2>2. x \in Past /\ y \in Past /\ x \in Line /\ y \in Line /\ x.signal = "none"
    <3>1. \A z \in Elements(track) : z \in Past /\ z \in Line
      BY DEF Past, Line
    <3>2. \A z \in Elements(track) : z.signal = "none"
      BY <1>1 DEF IInv, OrderInv
    <3> HIDE DEF x, y
    <3> QED BY <2>1, <3>1, <3>2
  <2> HIDE DEF x, y
  <2>3. /\ x.play \in Nat /\ y.play \in Nat /\ x.number \in Nat /\ y.number \in Nat
    BY <1>1, <2>2, LineFacts DEF Numbered
  <2>4. ~(x.play < y.play)
    <3> SUFFICES ASSUME x.play < y.play PROVE FALSE
      OBVIOUS
    <3>1. PICK f \in Past : f.signal = "Flush" /\ f.play = x.play
      BY <1>1, <2>2 DEF IInv, SignalInv, FlushOf
    <3>2. f \notin Elements(track)
      BY <1>1, <3>1 DEF IInv, OrderInv
    <3>3. Before(y, f)
      BY <1>1, <2>1, <3>1, <3>2 DEF IInv, OrderInv, Precede, Past
    <3>4. f.play \in Nat
      BY <1>1, <3>1, LineFacts DEF Numbered, Line
    <3> QED BY <2>3, <3>1, <3>3, <3>4 DEF Before
  <2>5. x.play = y.play /\ x.number < y.number
    BY <2>1, <2>3, <2>4 DEF Before
  <2> QED BY <2>5 DEF x, y
<1>2. IInv => OneTrackPerPlay
  BY <1>1 DEF OneTrackPerPlay
<1> QED BY <1>2, Invariance, PTL
=============================================================================
