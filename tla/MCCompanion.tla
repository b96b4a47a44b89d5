----------------------------- MODULE MCCompanion -----------------------------
(* The companion as one hears it, sees it, waves at it and picks it: the voice *)
(* (MCSpeechController), the switches of its listening, the show of a          *)
(* character, what the camera makes out, and the library of characters and     *)
(* voices.  They share nothing that is modelled, so a behaviour is one of them *)
(* alone: its part.                                                            *)
EXTENDS MCSpeechController

CONSTANTS Characters, Directives, Clips, MaxLoads,                     \* CharacterShow
          Scenes, WindowSize, Interval, Cooldown, Amplitude, Mapped,   \* VisionPipeline
          Packs, Voices, Companions, Looks, MaxRequests,               \* CompanionLibrary
          Windows, MaxToggles                                          \* ModeToggles

VARIABLES
  \* CharacterShow
  runtime, pack, message, directive, lost, shutDown, loads,
  \* VisionPipeline
  since, seen, window, applied, detected, hurried,
  \* CompanionLibrary
  commercial, packs, voices, companions, archive, file, now, worn, torn, cloned, requests,
  \* ModeToggles
  switched, flag, toggle, door, feed, view, blurred, missed

Show == INSTANCE CharacterShow WITH Packs <- Characters, closed <- shutDown
Sight == INSTANCE VisionPipeline WITH told <- detected
Library == INSTANCE CompanionLibrary
Switches == INSTANCE ModeToggles WITH listening <- switched

ASSUME CompanionAssumption ==
  Show!ShowBounds /\ Sight!PipelineBounds /\ Library!LibraryBounds /\ Switches!ToggleBounds

\* What a frame shows: nobody, one hand at two places, two raised hands, and a head that moves.
Hand(up, side, x, raised) == [up |-> up, side |-> side, x |-> x, raised |-> raised]
Face(pitch, yaw) == [pitch |-> pitch, yaw |-> yaw, there |-> TRUE]
Away == [pitch |-> 0, yaw |-> 0, there |-> FALSE]
Fingers == {"thumb", "index", "middle", "ring", "pinky"}

MCScenes ==
  {[hands |-> <<>>, head |-> Away],
   [hands |-> <<Hand(Fingers, "right", 0, FALSE)>>, head |-> Away],
   [hands |-> <<Hand(Fingers, "right", 2, FALSE)>>, head |-> Face(2, 0)],
   [hands |-> <<Hand({"thumb"}, "left", 1, TRUE), Hand({"index"}, "right", 1, TRUE)>>,
    head |-> Face(0, 2)],
   [hands |-> <<>>, head |-> Face(2, 2)],
   [hands |-> <<>>, head |-> Face(0, 0)]}

\* Packs whose two entries name their files in every way, and folders in three places.
Kinds == {"folder", "empty folder", "no folder", "files", "lost file", "empty list", "outside"}
NoEntry == [frames |-> "unset", speaking |-> "unset"]
Good == [frames |-> "folder", speaking |-> "files"]
Octo(root, idle, thinking) ==
  [id |-> "octo", root |-> root, default |-> "idle",
   emotions |-> [s \in {"idle", "thinking"} |-> IF s = "idle" THEN idle ELSE thinking]]
Home == <<"home", "characters", "octo">>
MCDirectives ==
  {[state |-> d[1], emotion |-> "happy", speaking |-> s, gesture |-> d[2]] :
     d \in {<<"thinking", "wave">>, <<"happy", "bow">>}, s \in BOOLEAN}
MCCharacters ==
  LET entries == {[frames |-> f, speaking |-> "unset"] : f \in Kinds}
                 \cup {[frames |-> "folder", speaking |-> f] : f \in Kinds} \cup {NoEntry}
  IN {Octo(Home, e, NoEntry) : e \in entries} \cup {Octo(Home, NoEntry, Good)}
     \cup {Octo(r, Good, Good) : r \in {Home, <<"octo", "characters", "octo">>, <<"home", "other">>}}
MCClips == {<<"idle">>, <<"thinking">>, <<"happy", "thinking">>, <<"idle", "speaking">>}

showVars == <<runtime, pack, message, directive, lost, shutDown, loads>>
sightVars == <<since, seen, window, applied, detected, hurried>>
libraryVars == <<commercial, packs, voices, companions, archive, file, now, worn, torn, cloned,
                 requests>>
switchVars == <<switched, flag, toggle, door, feed, view, blurred, missed>>
voiceVars == <<vars, whisperVars, speakerVars>>

CompanionInit ==
  /\ part \in {"controller", "whisper", "speaker", "show", "sight", "library", "switches"}
  /\ VoiceParts
  /\ Show!Init /\ (part # "show" => runtime = "sprite2d")
  /\ Sight!Init
  /\ Library!Init /\ (part # "library" => commercial)
  /\ Switches!Init /\ switched = "wake" /\ flag.agent_voice /\ ~flag.continuous_listening

CompanionNext ==
  \/ VoiceNext /\ UNCHANGED <<showVars, sightVars, libraryVars, switchVars>>
  \/ /\ part = "show" /\ Show!Next
     /\ UNCHANGED <<part, voiceVars, sightVars, libraryVars, switchVars>>
  \/ /\ part = "sight" /\ Sight!Next
     /\ UNCHANGED <<part, voiceVars, showVars, libraryVars, switchVars>>
  \/ /\ part = "library" /\ Library!Next
     /\ UNCHANGED <<part, voiceVars, showVars, sightVars, switchVars>>
  \/ /\ part = "switches" /\ Switches!Next
     /\ UNCHANGED <<part, voiceVars, showVars, sightVars, libraryVars>>

CompanionSpec ==
  /\ CompanionInit
  /\ [][CompanionNext]_<<part, voiceVars, showVars, sightVars, libraryVars, switchVars>>

-----------------------------------------------------------------------------
\* The microphone is as the user chose and as is reported (SpeechController), by the backend and
\* in every window (ModeToggles).
ListeningIsRight ==
  MicrophoneIsRight /\ (part = "switches" => Switches!TypeOK /\ Switches!ModesAreTold)

\* A gesture that is held is told once in a cooldown (VisionPipeline).
DetectionsAreRight == part = "sight" => Sight!TypeOK /\ Sight!DetectionsAreRight

\* A companion is worn entirely, and the next start finds what is in force (CompanionLibrary).
CompanionsAreWorn ==
  part = "library" => Library!TypeOK /\ Library!WornEntirely /\ Library!StartFindsTheSame

\* What is installed stays as it was, and is whole (CompanionLibrary).
LibraryIsKept == Library!LibraryIsKept

\* What passes a check can be loaded, and what is loaded is drawn (CharacterShow).
PacksAreDrawn == part = "show" => Show!TypeOK /\ Show!CheckedPacksLoad /\ Show!PackIsDrawn
=============================================================================
