---------------------------- MODULE CharacterShow ----------------------------
(***************************************************************************)
(* From a character pack on disk to what a window is told to draw: the     *)
(* check of an import (backend/character_import.py), the validator and the *)
(* loader (avatar/pack), the avatar runtimes in the backend's process with *)
(* their projections (avatar/runtimes/sprite2d, threejs and live3d), and   *)
(* the route that serves the images (backend/routes/pack.py).              *)
(*                                                                         *)
(* A pack is its id, the segments of its directory, and where the images   *)
(* of its states come from; a file is the directory of its pack and the    *)
(* place in it.                                                            *)
(***************************************************************************)
EXTENDS Naturals, SequencesExt

CONSTANTS Packs,       \* packs that may be loaded
          Directives,  \* what the director asks for: state, emotion, speaking, gesture
          Clips,       \* the clips that the 3D runtime's configuration lists, or {} where it
                       \* lists none; the routes load a pack with its path alone, so it stays
          MaxLoads     \* bound of the model: packs loaded

VARIABLES
  runtime,    \* the adapter
  pack,       \* the pack it has
  message,    \* the projection the windows got last
  directive,  \* the directive it was given last
  lost,       \* history: the bridge failed since the last message
  closed, loads

vars == <<runtime, pack, message, directive, lost, closed, loads>>

NoPack == [id |-> "none"]
NoMessage == [runtime |-> "none"]

-----------------------------------------------------------------------------
(* Where images come from: a folder with images, without, or not there; a  *)
(* list of files that are there, of which one is not, or empty; a place    *)
(* outside the pack.                                                       *)
Sources == {"folder", "empty folder", "no folder", "files", "lost file", "empty list", "outside"}
Unset == "unset"

\* The images found, by their number in the source; and the sources that a lookup raises for.
Images(source) == IF source \in {"folder", "files", "outside"} THEN <<1, 2>> ELSE <<>>
Raises(source) == source \in {"no folder", "lost file"}

ShowBounds ==
  /\ MaxLoads \in Nat
  /\ \A p \in Packs :
       /\ p.root \in Seq(STRING)
       /\ \A s \in DOMAIN p.emotions :
            {p.emotions[s].frames, p.emotions[s].speaking} \subseteq Sources \cup {Unset}

States(p) == {s \in DOMAIN p.emotions : p.emotions[s].frames # Unset}

\* load_pack: raises, or falls back to the base images where there are none for speaking.
Loads(p) ==
  \A s \in States(p) :
    LET e == p.emotions[s] IN
    /\ ~Raises(e.frames) /\ Images(e.frames) # <<>>
    /\ ~Raises(e.speaking)

\* A slip in the operator that follows.
SpeakingAsNamed(e) == e.speaking

Speaking(e) == IF Images(e.speaking) = <<>> THEN e.frames ELSE e.speaking

\* validate_pack: broken base images are an error, the speaking ones a warning.
Broken(source) == source \in {"no folder", "lost file", "empty folder"}
Valid(p) == \A s \in States(p) : ~Broken(p.emotions[s].frames)

\* CharacterRegistry._validate_pack: what an import takes in.
Importable(p) ==
  /\ States(p) # {}
  /\ \A s \in States(p) : \A source \in {p.emotions[s].frames, p.emotions[s].speaking} :
       ~Broken(source) /\ source # "outside"

-----------------------------------------------------------------------------
\* A file of a pack: its directory, then its state, source and number.
Files(p, s, source) ==
  [i \in DOMAIN Images(source) |->
     (IF source = "outside" THEN <<"outside">> ELSE p.root) \o <<s, source, ToString(i)>>]

\* _to_static_url: what follows the first segment with the id of the pack.
Url(p, file) ==
  IF p.id \notin Range(file) THEN <<"file">> \o file
  ELSE LET at == CHOOSE i \in DOMAIN file : file[i] = p.id /\ \A j \in 1..(i - 1) : file[j] # p.id
       IN <<"static", p.id>> \o SubSeq(file, at + 1, Len(file))

\* GET /static/characters/{id}/{path}: the file, if the directory named by the id has it.
Served(p, url) ==
  IF Head(url) = "static" /\ Last(p.root) = p.id
  THEN p.root \o SubSeq(url, 3, Len(url)) ELSE <<>>

\* The state whose entry is shown.
Shown(p, d) ==
  IF d.state \in States(p) THEN d.state
  ELSE IF p.default \in States(p) THEN p.default
  ELSE CHOOSE s \in States(p) : TRUE

SpriteProjection(p, d) ==
  LET s == Shown(p, d)
      e == p.emotions[s]
      source == IF d.speaking THEN Speaking(e) ELSE e.frames
      files == Files(p, s, source)
  IN [runtime |-> "sprite2d", directive |-> d,
      frames |-> IF States(p) = {} THEN <<>> ELSE [i \in DOMAIN files |-> Url(p, files[i])]]

\* clip_fallback_chain and pick_clip.
Chain(d) ==
  LET base == <<<<d.emotion, d.state>>, <<d.state>>>>
      talking == <<<<d.emotion, d.state, "speaking">>, <<d.state, "speaking">>>>
      rest == IF d.state = "idle" THEN <<>> ELSE <<<<"idle">>>>
  IN (IF d.speaking THEN talking ELSE <<>>) \o base \o rest

Clip(chain) ==
  LET there == {i \in DOMAIN chain : chain[i] \in Clips}
  IN IF Clips = {} THEN Head(chain)
     ELSE IF there = {} THEN <<"idle">>
     ELSE chain[CHOOSE i \in there : \A j \in there : i <= j]

KnownGestures == {"wave", "nod"}

ThreeProjection(p, d) ==
  [runtime |-> "threejs", directive |-> d, asset |-> p.id, chain |-> Chain(d),
   clip |-> Clip(Chain(d)), gesture |-> IF d.gesture \in KnownGestures THEN d.gesture ELSE "none"]

\* The projection of Three.js, for the other runtime.
LiveProjection(p, d) == [ThreeProjection(p, d) EXCEPT !.runtime = "live3d"]

Projection(p, d) ==
  CASE runtime = "sprite2d" -> SpriteProjection(p, d)
    [] runtime = "threejs"  -> ThreeProjection(p, d)
    [] runtime = "live3d"   -> LiveProjection(p, d)

-----------------------------------------------------------------------------
Idle(p) == [state |-> p.default, emotion |-> "neutral", speaking |-> FALSE, gesture |-> "none"]

Init ==
  /\ runtime \in {"sprite2d", "threejs", "live3d"}
  /\ pack = NoPack /\ message = NoMessage /\ directive = [state |-> "none"]
  /\ lost = FALSE /\ closed = FALSE /\ loads = 0

\* bridge.publish: an exception is logged.
Publish(m) ==
  \/ message' = m /\ lost' = FALSE
  \/ lost' = TRUE /\ UNCHANGED message

\* load_character: a pack that cannot be loaded raises, and the one before it stays.
LoadCharacter(p) ==
  /\ loads < MaxLoads /\ loads' = loads + 1
  /\ IF ~Loads(p) THEN UNCHANGED <<pack, message, directive, lost>>
     ELSE pack' = p /\ directive' = Idle(p) /\ Publish(Projection(p, Idle(p)))
  /\ UNCHANGED <<runtime, closed>>

\* apply_directive: dropped without a pack.
ApplyDirective(d) ==
  /\ IF pack = NoPack THEN UNCHANGED <<message, directive, lost>>
     ELSE directive' = d /\ Publish(Projection(pack, d))
  /\ UNCHANGED <<runtime, pack, closed, loads>>

\* shutdown: nothing but the answer of the healthcheck depends on it.
Shutdown ==
  /\ closed' = TRUE
  /\ UNCHANGED <<runtime, pack, message, directive, lost, loads>>

Next ==
  \/ \E p \in Packs : LoadCharacter(p)
  \/ \E d \in Directives : ApplyDirective(d)
  \/ Shutdown

Spec == Init /\ [][Next]_vars

-----------------------------------------------------------------------------
TypeOK ==
  /\ pack \in Packs \cup {NoPack} /\ {lost, closed} \subseteq BOOLEAN /\ loads \in 0..MaxLoads
  /\ pack # NoPack =>
       Loads(pack) /\ \A s \in States(pack) : pack.emotions[s].frames \in Sources

\* What an import takes in can be loaded, and so can what the validator passes, save for lists
\* without a file and for speaking images that are not there (character_import.py:254-297,
\* validator.py:49-118, loader.py:72-138).
CheckedPacksLoad ==
  \A p \in Packs :
    LET sources == {p.emotions[s].frames : s \in States(p)}
        speaking == {p.emotions[s].speaking : s \in States(p)}
    IN "empty list" \notin sources =>
         /\ Importable(p) => Loads(p)
         /\ (Valid(p) /\ \A s \in speaking : ~Raises(s)) => Loads(p)

\* A window draws the pack that is loaded as the directive asks: the images are those of the state
\* or else of the default one, of its speaking kind where the pack has it, and the route serves
\* them, for packs whose directory has their id, no directory above which has it, and whose images
\* are their own; a clip is one the runtime lists and the most telling of these, or idle
\* (sprite2d/projection.py:37-133, threejs/projection.py:116-161, routes/pack.py:53-68).
PackIsDrawn ==
  (message # NoMessage /\ ~lost) =>
    /\ message.directive = directive
    /\ runtime = "sprite2d" =>
         LET asked == IF directive.state \in States(pack) THEN directive.state ELSE pack.default
             e == pack.emotions[asked]
             talks == directive.speaking /\ e.speaking \in {"folder", "files"}
             source == IF talks THEN e.speaking ELSE e.frames
             plain == /\ pack.root # <<>>
                      /\ \A i \in DOMAIN pack.root : pack.root[i] = pack.id <=> i = Len(pack.root)
         IN (plain /\ pack.default \in States(pack) /\ "outside" \notin {e.frames, e.speaking}) =>
              /\ message.frames # <<>>
              /\ [i \in DOMAIN message.frames |-> Served(pack, message.frames[i])]
                   = Files(pack, asked, source)
    /\ runtime # "sprite2d" =>
         /\ message.asset = pack.id
         /\ Last(message.chain) = <<"idle">>
         /\ message.clip \in Clips \cup {<<"idle">>, message.chain[1]}
         /\ \A i \in DOMAIN message.chain :
              message.chain[i] \in Clips =>
                \E j \in 1..i : message.chain[j] = message.clip
=============================================================================
