--------------------------- MODULE CompanionLibrary ---------------------------
(***************************************************************************)
(* What the user collects and puts on: character packs, voice profiles and *)
(* whole companions (backend/character_import.py, voice_profiles.py,       *)
(* routes/pack.py, voice_profiles.py, voice_clone.py and companions.py).   *)
(*                                                                         *)
(* A request runs to its end without another one in between, as all of its *)
(* work is on files (the runtime that loads a pack is that of              *)
(* AvatarOrchestrator); it may fail, or the program stop, at any of its    *)
(* steps.  An installation is staged beside its place and moved there at   *)
(* once, so that one that stops halfway leaves what no listing finds.      *)
(***************************************************************************)
EXTENDS Integers, Sequences

CONSTANTS Packs, Voices, Companions,   \* ids; voices are numbers, in the order of their names
          Looks,                       \* contents of a pack, a personality, an appearance
          MaxRequests                  \* bound of the model: requests

LibraryBounds == /\ MaxRequests \in Nat /\ Voices \subseteq Nat \ {0} /\ 1 \in Voices
                 /\ {"octomimic", "guest"} \subseteq Packs /\ {"home", "guest"} \subseteq Looks

VARIABLES
  commercial,   \* the distribution rejects restricted licenses
  packs,        \* packs installed in the directory of the user
  voices,       \* installed voice profiles
  companions,   \* imported companions
  archive,      \* the companion exported last
  file,         \* what the next start reads: pack, personality, appearance, clone
  now,          \* what is in force: the pack by its id and its content, appearance, voice
  worn,         \* history: the companion whose activation was the last change
  torn,         \* history: what a failed request set and did not save
  cloned,       \* history: a clone was saved that belongs to no profile
  requests

vars == <<commercial, packs, voices, companions, archive, file, now, worn, torn, cloned, requests>>

Missing == "none"
NoPack == [look |-> Missing, license |-> Missing, whole |-> FALSE, lower |-> TRUE]
NoVoice == [provider |-> Missing, speaks |-> Missing, reference |-> FALSE]
NoClone == [provider |-> Missing, speaks |-> Missing, path |-> 0]
NoCompanion == [pack |-> Missing, avatar |-> NoPack, personality |-> Missing,
                appearance |-> Missing, id |-> 0, voice |-> NoVoice]

\* A pack is whole when its manifest finds the images it names; lower when no name has a capital.
Free(look) == [look |-> look, license |-> "free", whole |-> TRUE, lower |-> TRUE]

\* Profiles: a reference that is on the machine or was left out of an export, and remote voices.
Profiles == {[provider |-> "chatterbox-local", speaks |-> "local-reference", reference |-> r] :
               r \in BOOLEAN}
            \cup {[provider |-> "elevenlabs", speaks |-> "remote", reference |-> FALSE]}

\* Companions of others: complete, without a voice, or with a part that cannot be used.
Foreign ==
  LET whole == [pack |-> "guest", avatar |-> Free("guest"), personality |-> "guest",
                appearance |-> "guest", id |-> 1,
                voice |-> [provider |-> "elevenlabs", speaks |-> "remote", reference |-> FALSE]]
  IN {whole, [whole EXCEPT !.id = 0, !.voice = NoVoice],
      [whole EXCEPT !.voice = [provider |-> "chatterbox-local", speaks |-> "local-reference",
                               reference |-> TRUE]],
      [whole EXCEPT !.avatar.license = "restricted"], [whole EXCEPT !.avatar = NoPack],
      [whole EXCEPT !.personality = Missing], [whole EXCEPT !.appearance = Missing]}

\* The packs that come with the program, in a directory of their own.
Shipped(p) == IF p = "octomimic" THEN Free("home") ELSE NoPack

\* resolve(): the directory of the user comes first, and may hide a pack that was shipped.
Found(p) == IF packs[p] = NoPack THEN Shipped(p) ELSE packs[p]
Hidden(p) == NoPack \notin {packs[p], Shipped(p)}

Init ==
  /\ commercial \in BOOLEAN
  /\ packs = [p \in Packs |-> NoPack]
  /\ voices = [v \in Voices |-> NoVoice]
  /\ companions = [c \in Companions |-> NoCompanion]
  /\ archive = NoCompanion
  /\ file = [pack |-> "octomimic", personality |-> "home", appearance |-> "home", clone |-> NoClone]
  /\ now = [pack |-> "octomimic", shown |-> "home", appearance |-> "home", voice |-> 0]
  /\ worn = Missing /\ torn = {} /\ cloned = FALSE /\ requests = 0

Request == requests < MaxRequests /\ requests' = requests + 1 /\ UNCHANGED commercial

-----------------------------------------------------------------------------
\* A slip in the operator that follows.
InstallableAgain(p, pack) == pack.whole /\ (commercial => pack.license # "restricted")

\* _validate_pack, _validate_license and the check that nothing is overwritten, in the directory
\* of the user.
Installable(p, pack) ==
  /\ packs[p] = NoPack
  /\ pack.whole
  /\ commercial => pack.license # "restricted"

InstallPack(p, pack) ==
  /\ Request
  /\ packs' = IF Installable(p, pack) THEN [packs EXCEPT ![p] = pack] ELSE packs
  /\ UNCHANGED <<voices, companions, archive, file, now, worn, torn, cloned>>

\* What an archive brings, or create_sprite_pack writes: a pack that is in order, or one that is
\* restricted, lacks images or has names with capitals.
Creations ==
  {Free(look) : look \in Looks}
  \cup {[Free(look) EXCEPT !.license = "restricted"] : look \in Looks}
  \cup {[Free("guest") EXCEPT !.whole = FALSE], [Free("guest") EXCEPT !.lower = FALSE]}

\* The pack is loaded and in force before it is saved, which may fail.
SwapPack(p, saved) ==
  /\ Request /\ Found(p) # NoPack
  /\ now' = [now EXCEPT !.pack = p, !.shown = Found(p).look]
  /\ file' = IF saved THEN [file EXCEPT !.pack = p] ELSE file
  /\ torn' = IF saved THEN torn \ {"pack"} ELSE torn \cup {"pack"}
  /\ worn' = Missing
  /\ UNCHANGED <<packs, voices, companions, archive, cloned>>

-----------------------------------------------------------------------------
\* create_reference, create_remote and import_zip: a reference is taken in when that was confirmed.
AddVoice(v, profile, confirmed) ==
  /\ Request
  /\ voices' = IF voices[v] = NoVoice /\ (profile.reference => confirmed)
               THEN [voices EXCEPT ![v] = profile] ELSE voices
  /\ UNCHANGED <<packs, companions, archive, file, now, worn, torn, cloned>>

\* persist_tts_clone of a profile.
CloneOf(v, profile) ==
  [provider |-> profile.provider, speaks |-> profile.speaks,
   path |-> IF profile.reference THEN v ELSE 0]

ActivateVoice(v) ==
  /\ Request /\ voices[v] # NoVoice
  /\ file' = [file EXCEPT !.clone = CloneOf(v, voices[v])]
  /\ now' = [now EXCEPT !.voice = v]
  /\ worn' = Missing /\ cloned' = FALSE
  /\ UNCHANGED <<packs, voices, companions, archive, torn>>

\* POST /voice/clone/reference and /voice/clone/remote: a clone without a profile.
Elsewhere == -1

SaveClone(provider) ==
  /\ Request
  /\ file' = [file EXCEPT !.clone =
                 IF provider = "elevenlabs"
                 THEN [provider |-> provider, speaks |-> "other", path |-> 0]
                 ELSE [provider |-> provider, speaks |-> "local-reference", path |-> Elsewhere]]
  /\ cloned' = TRUE /\ worn' = Missing
  /\ UNCHANGED <<packs, voices, companions, archive, now, torn>>

\* match_active: the first profile that says what the clone says.
Matches(v, clone) ==
  /\ voices[v] # NoVoice
  /\ voices[v].provider = clone.provider /\ voices[v].speaks = clone.speaks
  /\ clone.provider = "chatterbox-local" => voices[v].reference /\ clone.path = v

\* A slip in the operator that follows.
RecoveredByProvider(clone) ==
  IF \E v \in Voices : voices[v].provider = clone.provider
  THEN CHOOSE v \in Voices : voices[v].provider = clone.provider ELSE 0

Recovered(clone) ==
  IF \E v \in Voices : Matches(v, clone)
  THEN CHOOSE v \in Voices : Matches(v, clone) /\ \A u \in Voices : Matches(u, clone) => v <= u
  ELSE 0

-----------------------------------------------------------------------------
\* The companion of what is in force; the voice goes along with its reference when asked for.
Export(reference) ==
  /\ Request
  /\ archive' = [pack |-> now.pack, avatar |-> Found(now.pack), personality |-> file.personality,
                 appearance |-> now.appearance, id |-> now.voice,
                 voice |-> IF now.voice = 0 THEN NoVoice
                           ELSE [voices[now.voice] EXCEPT !.reference = @ /\ reference]]
  /\ UNCHANGED <<packs, voices, companions, file, now, worn, torn, cloned>>

\* _archive_files writes the names in lower case, and the manifest of a pack no longer finds those
\* with capitals.
Folded(a) == [a EXCEPT !.avatar.whole = @ /\ a.avatar.lower, !.avatar.lower = TRUE]

\* What an import checks is the frame of the archive: its parts are found wanting later.
Import(c, a, confirmed) ==
  /\ Request /\ a # NoCompanion
  /\ companions' = IF companions[c] = NoCompanion /\ (a.voice.reference => confirmed)
                   THEN [companions EXCEPT ![c] = Folded(a)] ELSE companions
  /\ UNCHANGED <<packs, voices, archive, file, now, worn, torn, cloned>>

\* The steps of an activation, in their order; "voice" is nothing without one.
Steps == <<"install", "load", "save pack", "personality", "appearance", "save appearance",
           "voice", "save voice">>

\* How many of its steps can be done; any of them may still fail.
Possible(a) ==
  IF Found(a.pack) = NoPack /\ ~Installable(a.pack, a.avatar) THEN 0
  ELSE IF a.personality = Missing THEN 3
  ELSE IF a.appearance = Missing THEN 4
  ELSE 8

\* The profile that an activation finds or installs, and whether it is one to speak with.
Stored(a) == IF voices[a.id] = NoVoice THEN a.voice ELSE voices[a.id]
Usable(profile) == profile.provider # "chatterbox-local" \/ profile.reference

Activate(c, n) ==
  LET a == companions[c]
      does(step) == \E i \in 1..n : Steps[i] = step
      new == Found(a.pack) = NoPack
      pack == IF new THEN a.avatar ELSE Found(a.pack)
      speaks == a.voice # NoVoice /\ Usable(Stored(a)) /\ does("save voice")
  IN
  /\ Request /\ a # NoCompanion /\ n <= Possible(a)
  /\ packs' = IF new /\ does("install") THEN [packs EXCEPT ![a.pack] = pack] ELSE packs
  /\ voices' = IF does("voice") /\ a.voice # NoVoice THEN [voices EXCEPT ![a.id] = Stored(a)]
               ELSE voices
  /\ now' = [pack |-> IF does("load") THEN a.pack ELSE now.pack,
             shown |-> IF does("load") THEN pack.look ELSE now.shown,
             appearance |-> IF does("appearance") THEN a.appearance ELSE now.appearance,
             voice |-> IF speaks THEN a.id ELSE now.voice]
  /\ file' = [pack |-> IF does("save pack") THEN a.pack ELSE file.pack,
              personality |-> IF does("personality") THEN a.personality ELSE file.personality,
              appearance |-> IF does("save appearance") THEN a.appearance ELSE file.appearance,
              clone |-> IF speaks THEN CloneOf(a.id, Stored(a)) ELSE file.clone]
  /\ torn' = {k \in {"pack", "appearance"} :
                LET set == IF k = "pack" THEN "load" ELSE "appearance"
                    save == IF k = "pack" THEN "save pack" ELSE "save appearance"
                IN ~does(save) /\ (does(set) \/ k \in torn)}
  /\ worn' = IF n = Len(Steps) THEN c ELSE Missing
  /\ cloned' = (cloned /\ ~speaks)
  /\ UNCHANGED <<companions, archive>>

\* The program does not start with a local clone that lacks its reference (UserSettings).
Startable == file.clone.provider = "chatterbox-local" => file.clone.path # 0

\* The program stops and starts: lifespan() reads what was saved.
Restart ==
  /\ Request
  /\ Startable
  /\ now' = [pack |-> file.pack, shown |-> Found(file.pack).look,
             appearance |-> file.appearance, voice |-> Recovered(file.clone)]
  /\ torn' = {} /\ cloned' = FALSE
  /\ UNCHANGED <<packs, voices, companions, archive, file, worn>>

Next ==
  \/ \E p \in Packs :
       \/ \E pack \in Creations : InstallPack(p, pack)
       \/ \E saved \in BOOLEAN : SwapPack(p, saved)
  \/ \E v \in Voices :
       \/ \E profile \in Profiles, confirmed \in BOOLEAN : AddVoice(v, profile, confirmed)
       \/ ActivateVoice(v)
  \/ \E provider \in {"chatterbox-local", "elevenlabs"} : SaveClone(provider)
  \/ \E reference \in BOOLEAN : Export(reference)
  \/ \E c \in Companions :
       \/ \E a \in Foreign \cup {archive}, confirmed \in BOOLEAN : Import(c, a, confirmed)
       \/ \E n \in 0..Len(Steps) : Activate(c, n)
  \/ Restart

Spec == Init /\ [][Next]_vars

-----------------------------------------------------------------------------
TypeOK ==
  /\ requests \in 0..MaxRequests /\ {commercial, cloned} \subseteq BOOLEAN
  /\ packs \in [Packs -> Creations \cup {NoPack}]
  /\ voices \in [Voices -> Profiles \cup {NoVoice}]
  /\ torn \subseteq {"pack", "appearance"} /\ worn \in Companions \cup {Missing}
  /\ {now.pack, file.pack} \subseteq Packs /\ now.voice \in Voices \cup {0}

\* What was installed stays as it was, and is whole, with a license that the distribution allows
\* (character_import.py:109-137, 170-219, 228-235; voice_profiles.py:201-218; companions.py:206-220).
LibraryIsKept ==
  [][/\ \A p \in Packs :
          /\ packs[p] # NoPack => packs'[p] = packs[p]
          /\ packs'[p] # packs[p] => packs'[p].whole /\ (commercial => packs'[p].license = "free")
     /\ \A v \in Voices : voices[v] # NoVoice => voices'[v] = voices[v]
     /\ \A c \in Companions : companions[c] # NoCompanion => companions'[c] = companions[c]]_vars

\* A companion that was put on is on entirely, also after a restart: its pack is shown, its
\* personality and appearance are in force, and its voice is the one to speak with, where it can be,
\* unless an import has hidden the pack since (companions.py:226-305, character_import.py:74-79).
WornEntirely ==
  worn # Missing =>
    LET a == companions[worn] IN
    /\ now.pack = a.pack /\ (now.shown = Found(a.pack).look \/ Hidden(a.pack))
    /\ file.personality = a.personality /\ now.appearance = a.appearance
    /\ (a.voice # NoVoice /\ Usable(voices[a.id])) => file.clone = CloneOf(a.id, voices[a.id])

\* The next start finds what is in force, whatever failed before, except for what a request could
\* not save and a pack that an import hid; and the profile said to be active is one that speaks
\* with the saved clone, unless that was saved without a profile (main.py:85-143, 319-329;
\* voice_profiles.py:61-90).
StartFindsTheSame ==
  /\ now.shown = Found(now.pack).look \/ Hidden(now.pack)
  /\ "pack" \notin torn => file.pack = now.pack
  /\ "appearance" \notin torn => file.appearance = now.appearance
  /\ (now.voice # 0 /\ ~cloned /\ Startable) => Matches(now.voice, file.clone)
=============================================================================
