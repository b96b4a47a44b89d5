--------------------------- MODULE VisionPipeline ---------------------------
(***************************************************************************)
(* What the vision loop makes of the frames it takes: the throttle, the    *)
(* rule-based gesture classifier for each hand, the rule-based movement    *)
(* classifier over a window of frames, the debouncer, and the directive    *)
(* that a detection is mapped to (vision/adapters/mediapipe_adapter.py,    *)
(* pipeline/throttle.py, classifiers/rules.py, classifiers/movements/      *)
(* rules.py, director_mapping.py).                                         *)
(*                                                                         *)
(* A hand is the set of its extended fingers, the place of its index tip   *)
(* and whether its wrist is raised; a head is its pitch and yaw; lengths   *)
(* and angles are whole numbers.  The clock is kept as ages, and one that   *)
(* no longer makes a difference is dropped.                                *)
(***************************************************************************)
EXTENDS Integers, SequencesExt

CONSTANTS Scenes,      \* what a frame may show: the hands and the head
          WindowSize,  \* frames the movement classifier looks at
          Interval,    \* least time between frames that are processed
          Cooldown,    \* least time between detections with the same key
          Amplitude,   \* least way of a movement
          Mapped       \* gestures and movements that have a directive

Fingers == {"thumb", "index", "middle", "ring", "pinky"}
Hands == [up : SUBSET Fingers, side : {"left", "right"}, x : Int, raised : BOOLEAN]
Heads == [pitch : Int, yaw : Int, there : BOOLEAN]

PipelineBounds ==
  /\ WindowSize \in Nat /\ WindowSize >= 3
  /\ {Interval, Cooldown, Amplitude} \subseteq Nat \ {0}
  /\ Scenes \subseteq [hands : Seq(Hands), head : Heads]

VARIABLES
  since,    \* Throttle: the age of the last frame that was processed
  seen,     \* Debouncer: the age of the last accepted detection of each key it still holds back
  window,   \* the frames processed last
  applied,  \* the directive applied last
  told,     \* history: the age of the detections published within the cooldown, by key
  hurried   \* history: a detection was published again too soon

vars == <<since, seen, window, applied, told, hurried>>

-----------------------------------------------------------------------------
\* RuleGestureClassifier.classify: the rules by the extended fingers, in their order.
Gesture(up) ==
  LET four == up \ {"thumb"} IN
  CASE four = {"index", "middle"}                      -> "peace"
    [] four = {"index"}                                -> "point"
    [] up = Fingers                                    -> "open_palm"
    [] up = Fingers \ {"thumb"}                        -> "wave_pose"
    [] up = {"thumb"}                                  -> "thumbs_up"
    [] up = {}                                         -> "fist"
    [] OTHER                                           -> "none"

Sign(n) == IF n > 0 THEN 1 ELSE IF n < 0 THEN -1 ELSE 0

Total(series) ==
  LET sum[i \in 0..Len(series)] == IF i = 0 THEN 0 ELSE sum[i - 1] + series[i]
  IN sum[Len(series)]

\* _zero_crossings_around the mean of the series: on this side of it, the last before on the other.
Crossings(series) ==
  LET total == Total(series)
      sign(i) == Sign(series[i] * Len(series) - total)
  IN Cardinality({i \in DOMAIN series :
       \E j \in 1..(i - 1) : /\ {sign(i), sign(j)} = {-1, 1}
                             /\ \A k \in (j + 1)..(i - 1) : sign(k) = 0})

Way(series) == Max(Range(series)) - Min(Range(series))

Oscillates(series) == Len(series) >= 3 /\ Way(series) >= Amplitude /\ Crossings(series) >= 2

\* The hands and the heads of a window, in order.
HandsOf(frames) ==
  LET hands[i \in 0..Len(frames)] == IF i = 0 THEN <<>> ELSE hands[i - 1] \o frames[i].hands
  IN hands[Len(frames)]
HeadsOf(frames) ==
  LET heads[i \in 0..Len(frames)] ==
        IF i = 0 THEN <<>>
        ELSE IF frames[i].head.there THEN Append(heads[i - 1], frames[i].head) ELSE heads[i - 1]
  IN heads[Len(frames)]

\* _majority_hand: the first of the labels that occur most often.
Majority(hands) ==
  LET count(l) == Cardinality({i \in DOMAIN hands : hands[i].side = l})
      first == CHOOSE i \in DOMAIN hands :
                 /\ \A j \in DOMAIN hands : count(hands[j].side) <= count(hands[i].side)
                 /\ \A j \in 1..(i - 1) : count(hands[j].side) < count(hands[i].side)
  IN hands[first].side

\* RuleMovementClassifier.classify: wave, then raised hand, then nod, then shake; the name and
\* the hand or modality, or "none".
Movement(frames) ==
  LET hands == HandsOf(frames)
      heads == HeadsOf(frames)
      raised == Cardinality({i \in DOMAIN hands : hands[i].raised})
  IN IF Len(frames) < 3 THEN <<"none", "none">>
     ELSE IF Oscillates([i \in DOMAIN hands |-> hands[i].x])
          THEN <<"wave_motion", Majority(hands)>>
     ELSE IF hands # <<>> /\ 10 * raised >= 8 * Len(hands)
          THEN <<"raised_hand", hands[Len(hands)].side>>
     ELSE IF Oscillates([i \in DOMAIN heads |-> heads[i].pitch]) THEN <<"nodding", "head">>
     ELSE IF Oscillates([i \in DOMAIN heads |-> heads[i].yaw]) THEN <<"shaking_head", "head">>
     ELSE <<"none", "none">>

Names == {"peace", "point", "open_palm", "wave_pose", "thumbs_up", "fist",
          "wave_motion", "raised_hand", "nodding", "shaking_head"}
Keys == Names \X {"left", "right", "head"}

\* The keys of what is found when frames are the window: the gestures of the newest frame,
\* hand by hand, then the movement; "none" where nothing is detected.
Found(frames) ==
  LET hands == frames[Len(frames)].hands
  IN Append([i \in DOMAIN hands |-> <<Gesture(hands[i].up), hands[i].side>>], Movement(frames))

Detected(frames) == {k \in Range(Found(frames)) : k[1] # "none"}

-----------------------------------------------------------------------------
\* A slip in Debouncer.allow.
DebouncerThrottles(age) == age >= Interval

\* Throttle.allow and Debouncer.allow, for a call that comes that long after the accepted one.
ThrottleAllows(age) == age >= Interval
DebouncerAllows(age) == age >= Cooldown

\* Some time later, without the keys that it would let pass.
Later(ages, time) ==
  [k \in {l \in DOMAIN ages : ~DebouncerAllows(ages[l] + time)} |-> ages[k] + time]

\* The publications within the cooldown, some time later.
Recent(ages, time) == [k \in {l \in DOMAIN ages : ages[l] + time < Cooldown} |-> ages[k] + time]

\* The ages once the keys are accepted.
Noted(ages, keys) ==
  [k \in DOMAIN ages \cup keys |-> IF k \in keys THEN 0 ELSE ages[k]]

\* deque(maxlen): the oldest frame leaves.
Pushed(frames, f) == Append(IF Len(frames) >= WindowSize THEN Tail(frames) ELSE frames, f)

\* directive_from_detection: nothing for a detection that is not mapped; its origin is noted, and
\* a movement lends the directive its duration when the map has none.
Directive(k) ==
  [source |-> k,
   lasts |-> IF k[1] \in {"wave_motion", "raised_hand", "nodding", "shaking_head"}
             THEN "movement" ELSE "unset"]
NoDirective == [source |-> <<"none", "none">>, lasts |-> "unset"]

\* The directive of the last detection that passed and has one; a key passes once.
Applied(found, fresh) ==
  LET mapped == {i \in DOMAIN found : /\ found[i][1] \in Mapped /\ found[i] \in fresh
                                      /\ \A j \in 1..(i - 1) : found[j] # found[i]}
  IN IF mapped = {} THEN applied ELSE Directive(found[Max(mapped)])

\* A frame arrives some time after the last one.
Frame(f, time) ==
  LET held == Later(seen, time)
      recent == Recent(told, time)
      frames == Pushed(window, f)
      fresh == Detected(frames) \ DOMAIN held
  IN IF ThrottleAllows(since + time)
     THEN /\ since' = 0
          /\ window' = frames
          /\ seen' = Noted(held, fresh) /\ told' = Noted(recent, fresh)
          /\ hurried' = (hurried \/ fresh \cap DOMAIN recent # {})
          /\ applied' = Applied(Found(frames), fresh)
     ELSE /\ since' = since + time
          /\ seen' = held /\ told' = recent
          /\ UNCHANGED <<window, applied, hurried>>

Init ==
  /\ since = Interval
  /\ seen = <<>> /\ told = <<>>
  /\ window = <<>> /\ applied = NoDirective /\ hurried = FALSE

Next == \E f \in Scenes, time \in 1..Interval : Frame(f, time)

Spec == Init /\ [][Next]_vars

-----------------------------------------------------------------------------
TypeOK ==
  /\ since \in 0..Interval
  /\ \A ages \in {seen, told} :
       DOMAIN ages \subseteq Keys /\ \A k \in DOMAIN ages : ages[k] \in 0..(Cooldown - 1)
  /\ window \in Seq(Scenes) /\ Len(window) <= WindowSize
  /\ hurried \in BOOLEAN

\* The way of a series turns back.
Turns(series) ==
  \E i, j, k \in DOMAIN series :
    /\ i < j /\ j < k
    /\ \/ series[i] < series[j] /\ series[k] < series[j]
       \/ series[i] > series[j] /\ series[k] > series[j]

\* A gesture that is held is told once in a cooldown, no more and no less often: a processed frame
\* finds each detection told within the cooldown, and none is told again before.  A wave or a nod
\* is told only of a way that turned back in the window, and a directive comes from a mapped
\* detection (throttle.py:1-12, mediapipe_adapter.py:370-402, movements/rules.py:84-190).
DetectionsAreRight ==
  /\ ~hurried
  /\ since = 0 => Detected(window) \subseteq DOMAIN told
  /\ since = 0 =>
       LET m == Movement(window)[1]
           hands == HandsOf(window)
           heads == HeadsOf(window)
       IN /\ m = "wave_motion" => Turns([i \in DOMAIN hands |-> hands[i].x])
          /\ m = "nodding" => Turns([i \in DOMAIN heads |-> heads[i].pitch])
          /\ m = "shaking_head" => Turns([i \in DOMAIN heads |-> heads[i].yaw])
  /\ applied # NoDirective => applied.source[1] \in Mapped
=============================================================================
