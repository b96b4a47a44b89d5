--------------------------- MODULE CompanionProofs ---------------------------
(***************************************************************************)
(* What a companion is made of is kept, and one that is put on is on       *)
(* entirely, for every set of packs, voices and companions, and for any    *)
(* number of requests, of which any may fail at any of its steps.  The     *)
(* library is proved about as the part of MCCompanion that it is.          *)
(*                                                                         *)
(* What is worn survives a restart because nothing that was put on is left *)
(* unsaved (Worn), and an import because what is in force, or will be, was *)
(* found when it was put on (Findable): a pack that is imported under its  *)
(* id hides it, which the property excepts.                                *)
(*                                                                         *)
(* The show of a character is another part: its windows draw the pack that *)
(* is loaded because the last message is its projection (ShowInv), and a   *)
(* projection names files that the route finds again (ServedFacts).        *)
(*                                                                         *)
(* The switches of the listening are a third one: a call that is alone in  *)
(* the controller finds it in no mode (SwitchWork), and what is under way  *)
(* to a window says the last about each switch, or the window has pressed  *)
(* it and is to be told (WindowsTold).                                     *)
(*                                                                         *)
(* What the camera makes out is a fourth: the debouncer holds back what    *)
(* was told within the cooldown (SightInv), and a series that crosses its  *)
(* mean twice turns back (Turning).                                        *)
(***************************************************************************)
EXTENDS MCCompanion, SpeechControllerProofs, FiniteSetTheorems, WellFoundedInduction, SequenceTheorems, TLAPS

-----------------------------------------------------------------------------
(* The types                                                               *)

\* What a pack, a profile and a clone may be.
PackOf == Library!Creations \cup {Library!NoPack}

VoiceOf == Library!Profiles \cup {Library!NoVoice}

\* What the saved settings say of a clone.
CloneKinds == [provider : {"none", "chatterbox-local", "elevenlabs"},
               speaks : {"none", "local-reference", "remote", "other"}, path : Voices \cup {0, -1}]

Contents == Looks \cup {"none"}

\* A companion; one with a voice has an id for it.
ArchiveOf ==
  {a \in [pack : Packs, avatar : PackOf, personality : Contents, appearance : Contents,
          id : Voices \cup {0}, voice : VoiceOf] :
     a.voice # Library!NoVoice => a.id \in Voices}

Archives == ArchiveOf \cup {Library!NoCompanion}

\* What is in force, and what the next start will read.
ForceOf == [pack : Packs, shown : Contents, appearance : Contents, voice : Voices \cup {0}]

FileOf == [pack : Packs, personality : Contents, appearance : Contents, clone : CloneKinds]

\* The state of the library has its types.
LibraryTyped ==
  /\ requests \in 0..MaxRequests /\ {commercial, cloned} \subseteq BOOLEAN
  /\ packs \in [Packs -> PackOf] /\ voices \in [Voices -> VoiceOf]
  /\ companions \in [Companions -> Archives] /\ archive \in Archives
  /\ now \in ForceOf /\ file \in FileOf
  /\ torn \subseteq {"pack", "appearance"} /\ worn \in Companions \cup {"none"}

\* What is in force, and what the next start will read, can be found.
Findable == Library!Found(now.pack) # Library!NoPack /\ Library!Found(file.pack) # Library!NoPack

\* What is worn was put on by all the steps of its activation.
Worn ==
  worn # "none" =>
    /\ companions[worn] # Library!NoCompanion /\ torn = {}
    /\ companions[worn].voice # Library!NoVoice => voices[companions[worn].id] # Library!NoVoice

\* The inductive invariant.
LInv == LibraryTyped /\ Findable /\ Worn /\ Library!WornEntirely /\ Library!StartFindsTheSame

\* What is assumed of the constants.
LEMMA LibraryAssumed ==
  /\ MaxRequests \in Nat /\ Voices \subseteq Nat \ {0} /\ 1 \in Voices
  /\ "octomimic" \in Packs /\ "guest" \in Packs /\ "home" \in Looks /\ "guest" \in Looks
  /\ 0 \notin Voices /\ 0 \in Nat
  BY CompanionAssumption DEF Library!LibraryBounds

\* A pack that is whole is one, and the looks of packs.
LEMMA PackFacts ==
  /\ \A p \in PackOf : /\ p.look \in Contents /\ p.license \in {"none", "free", "restricted"}
                       /\ {p.whole, p.lower} \subseteq BOOLEAN
                       /\ p.whole => p # Library!NoPack /\ p.license \in {"free", "restricted"}
  /\ \A look \in Looks : Library!Free(look) \in PackOf /\ Library!Free(look) # Library!NoPack
  /\ Library!NoPack \in PackOf
<1> DEFINE Right(p) == /\ p.look \in Contents /\ p.license \in {"none", "free", "restricted"}
                       /\ p.whole \in BOOLEAN /\ p.lower \in BOOLEAN
                       /\ p.whole => p # Library!NoPack /\ p.license \in {"free", "restricted"}
<1>0. /\ Library!NoPack = [look |-> "none", license |-> "none", whole |-> FALSE, lower |-> TRUE]
      /\ \A look \in Looks : Library!Free(look) = [look |-> look, license |-> "free", whole |-> TRUE, lower |-> TRUE]
  BY DEF Library!NoPack, Library!Free, Library!Missing
<1>1. Library!NoPack \in PackOf /\ Right(Library!NoPack)
  BY <1>0 DEF PackOf, Contents
<1>2. ASSUME NEW look \in Looks
      PROVE  /\ Library!Free(look) \in Library!Creations /\ Right(Library!Free(look))
             /\ Library!Free(look) # Library!NoPack
             /\ Right([Library!Free(look) EXCEPT !.license = "restricted"])
             /\ Right([Library!Free(look) EXCEPT !.whole = FALSE])
             /\ Right([Library!Free(look) EXCEPT !.lower = FALSE])
  <2> DEFINE x == [look |-> look, license |-> "free", whole |-> TRUE, lower |-> TRUE]
  <2>1. x = Library!Free(look) /\ look \in Contents
    BY <1>0 DEF Contents
  <2>2. x # Library!NoPack /\ Right(x)
    BY <1>0, <2>1
  <2>3. Right([x EXCEPT !.license = "restricted"])
    BY <1>0, <2>1
  <2>4. Right([x EXCEPT !.whole = FALSE]) /\ Right([x EXCEPT !.lower = FALSE])
    BY <1>0, <2>1
  <2>5. Library!Free(look) \in Library!Creations
    BY DEF Library!Creations
  <2> HIDE DEF x
  <2> QED  BY <2>1, <2>2, <2>3, <2>4, <2>5
<1>3. ASSUME NEW p \in Library!Creations PROVE Right(p)
  <2> HIDE DEF Right
  <2>1. \/ \E look \in Looks : p = Library!Free(look) \/ p = [Library!Free(look) EXCEPT !.license = "restricted"]
        \/ p = [Library!Free("guest") EXCEPT !.whole = FALSE]
        \/ p = [Library!Free("guest") EXCEPT !.lower = FALSE]
    BY <1>3 DEF Library!Creations
  <2> QED  BY <1>2, <2>1, LibraryAssumed
<1> QED  BY <1>1, <1>2, <1>3 DEF PackOf

\* What is shipped is a pack, or none.
LEMMA ShippedFacts == \A p \in Packs : Library!Shipped(p) \in PackOf
  BY PackFacts, LibraryAssumed DEF Library!Shipped

\* What is found is a pack, or none.
LEMMA FoundFacts ==
  ASSUME packs \in [Packs -> PackOf], NEW p \in Packs
  PROVE  Library!Found(p) \in PackOf
  BY ShippedFacts DEF Library!Found

\* What is found while a pack is installed somewhere where there was none.
LEMMA FoundStays ==
  ASSUME packs \in [Packs -> PackOf], NEW q \in Packs, NEW x \in PackOf, packs[q] = Library!NoPack,
         x # Library!NoPack, packs' = [packs EXCEPT ![q] = x], NEW p \in Packs
  PROVE  /\ p # q => packs'[p] = packs[p] /\ Library!Found(p)' = Library!Found(p)
                     /\ Library!Hidden(p)' = Library!Hidden(p)
         /\ p = q => Library!Found(p)' = x /\ (Library!Found(p) # Library!NoPack => Library!Hidden(p)')
<1>1. p # q => packs'[p] = packs[p]
  OBVIOUS
<1>2. p = q => packs'[p] = x
  OBVIOUS
<1>3. Library!Shipped(p)' = Library!Shipped(p)
  BY DEF Library!Shipped, Library!Free, Library!NoPack, Library!Missing
<1> QED  BY <1>1, <1>2, <1>3 DEF Library!Found, Library!Hidden

-----------------------------------------------------------------------------
(* The requests                                                            *)

\* What a request may change that is typed, and what that leaves.
LEMMA InstallPackKeeps ==
  ASSUME LInv, NEW p \in Packs, NEW x \in Library!Creations, Library!InstallPack(p, x)
  PROVE  LInv'
<1>1. /\ LibraryTyped /\ requests' \in 0..MaxRequests
      /\ UNCHANGED <<commercial, voices, companions, archive, file, now, worn, torn, cloned>>
      /\ now.pack \in Packs /\ file.pack \in Packs
  BY LibraryAssumed DEF LInv, LibraryTyped, Library!InstallPack, Library!Request, ForceOf, FileOf
<1>2. CASE packs' = packs
  <2>1. \A q : Library!Found(q)' = Library!Found(q) /\ Library!Hidden(q)' = Library!Hidden(q)
    BY <1>2 DEF Library!Found, Library!Hidden, Library!Shipped, Library!Free, Library!NoPack, Library!Missing
  <2>2. LibraryTyped'
    BY <1>1, <1>2 DEF LibraryTyped
  <2>3. Findable' /\ Worn'
    BY <1>1, <2>1 DEF LInv, Findable, Worn, Library!NoPack, Library!NoCompanion, Library!NoVoice, Library!Missing
  <2>4. Library!WornEntirely'
    BY <1>1, <2>1 DEF LInv, Library!WornEntirely, Library!Usable, Library!CloneOf, Library!NoVoice, Library!Missing
  <2>5. Library!StartFindsTheSame'
    BY <1>1, <2>1 DEF LInv, Library!StartFindsTheSame, Library!Startable, Library!Matches, Library!NoVoice, Library!Missing
  <2> QED  BY <2>2, <2>3, <2>4, <2>5 DEF LInv
<1>3. CASE packs[p] = Library!NoPack /\ x.whole /\ packs' = [packs EXCEPT ![p] = x]
  <2>1. x \in PackOf /\ x # Library!NoPack /\ packs \in [Packs -> PackOf]
    BY <1>1, <1>3, PackFacts DEF PackOf, LibraryTyped
  <2>2. \A q \in Packs : Library!Found(q) # Library!NoPack =>
          /\ Library!Found(q)' # Library!NoPack
          /\ Library!Hidden(q) => Library!Hidden(q)'
          /\ Library!Found(q)' = Library!Found(q) \/ Library!Hidden(q)'
    <3> SUFFICES ASSUME NEW q \in Packs, Library!Found(q) # Library!NoPack
                 PROVE  /\ Library!Found(q)' # Library!NoPack
                        /\ Library!Hidden(q) => Library!Hidden(q)'
                        /\ Library!Found(q)' = Library!Found(q) \/ Library!Hidden(q)'
      OBVIOUS
    <3> QED  BY <1>3, <2>1, FoundStays
  <2>3. LibraryTyped'
    BY <1>1, <1>3, <2>1 DEF LibraryTyped
  <2>4. Findable'
    BY <1>1, <2>2 DEF LInv, Findable, Library!NoPack, Library!Missing
  <2>5. Worn'
    BY <1>1 DEF LInv, Worn, Library!NoCompanion, Library!NoVoice, Library!NoPack, Library!Missing
  <2>6. Library!Found(now.pack) # Library!NoPack
    BY DEF LInv, Findable
  <2>7. Library!WornEntirely'
    BY <1>1, <2>2, <2>6 DEF LInv, Library!WornEntirely, Library!Usable, Library!CloneOf, Library!NoVoice, Library!Missing
  <2>8. Library!StartFindsTheSame'
    BY <1>1, <2>2, <2>6 DEF LInv, Library!StartFindsTheSame, Library!Startable, Library!Matches, Library!NoVoice, Library!Missing
  <2> QED  BY <2>3, <2>4, <2>5, <2>7, <2>8 DEF LInv
<1> QED  BY <1>2, <1>3 DEF Library!InstallPack, Library!Installable

\* Where no pack is installed, those that are found are found again.
LEMMA SameFound ==
  ASSUME packs' = packs
  PROVE  \A p : Library!Found(p)' = Library!Found(p) /\ Library!Hidden(p)' = Library!Hidden(p)
  BY DEF Library!Found, Library!Hidden, Library!Shipped, Library!Free, Library!NoPack, Library!Missing

\* A pack is put on by itself, and saved or not.
LEMMA SwapPackKeeps ==
  ASSUME LInv, NEW p \in Packs, NEW saved \in BOOLEAN, Library!SwapPack(p, saved)
  PROVE  LInv'
<1>1. /\ LibraryTyped /\ requests' \in 0..MaxRequests
      /\ UNCHANGED <<commercial, packs, voices, companions, archive, cloned>>
      /\ worn' = "none" /\ Library!Found(p) # Library!NoPack
      /\ now \in ForceOf /\ file \in FileOf
      /\ now' = [now EXCEPT !.pack = p, !.shown = Library!Found(p).look]
      /\ file' = (IF saved THEN [file EXCEPT !.pack = p] ELSE file)
      /\ torn' = (IF saved THEN torn \ {"pack"} ELSE torn \cup {"pack"})
  BY LibraryAssumed DEF LInv, LibraryTyped, Library!SwapPack, Library!Request, Library!Missing
<1>2. Library!Found(p).look \in Contents
  BY <1>1, FoundFacts, PackFacts DEF LibraryTyped
<1>3. /\ now' \in ForceOf /\ now'.pack = p /\ now'.shown = Library!Found(p).look
      /\ now'.appearance = now.appearance /\ now'.voice = now.voice
  BY <1>1, <1>2 DEF ForceOf
<1>4. /\ file' \in FileOf /\ file'.clone = file.clone /\ file'.appearance = file.appearance
      /\ file'.pack = IF saved THEN p ELSE file.pack
  BY <1>1 DEF FileOf
<1>5. LibraryTyped'
  BY <1>1, <1>3, <1>4 DEF LibraryTyped
<1>6. Findable'
  <2>1. Library!Found(file.pack) # Library!NoPack
    BY DEF LInv, Findable
  <2> QED  BY <1>1, <1>3, <1>4, <2>1, SameFound DEF Findable, Library!NoPack, Library!Missing
<1>7. Worn' /\ Library!WornEntirely'
  BY <1>1 DEF Worn, Library!WornEntirely, Library!Missing
<1>8. Library!StartFindsTheSame'
  <2>1. now'.shown = Library!Found(now.pack)'.look
    BY <1>1, <1>3, SameFound
  <2>2. "pack" \notin torn' => file'.pack = now'.pack
    BY <1>1, <1>3, <1>4
  <2>3. "appearance" \notin torn' => file'.appearance = now'.appearance
    BY <1>1, <1>3, <1>4 DEF LInv, Library!StartFindsTheSame
  <2>4. (now'.voice # 0 /\ ~cloned' /\ Library!Startable') => Library!Matches(now.voice, file.clone)'
    BY <1>1, <1>3, <1>4 DEF LInv, Library!StartFindsTheSame, Library!Startable, Library!Matches, Library!NoVoice, Library!Missing
  <2> QED  BY <2>1, <2>2, <2>3, <2>4 DEF Library!StartFindsTheSame
<1> QED  BY <1>5, <1>6, <1>7, <1>8 DEF LInv

\* A profile, or none.
LEMMA VoiceFacts ==
  /\ \A x \in VoiceOf : /\ x.provider \in {"none", "chatterbox-local", "elevenlabs"}
                        /\ x.speaks \in {"none", "local-reference", "remote"}
                        /\ x.reference \in BOOLEAN
  /\ \A x \in VoiceOf, b \in BOOLEAN : [x EXCEPT !.reference = x.reference /\ b] \in VoiceOf
  /\ Library!NoVoice \in VoiceOf
<1>1. Library!NoVoice = [provider |-> "none", speaks |-> "none", reference |-> FALSE]
  BY DEF Library!NoVoice, Library!Missing
<1>2. ASSUME NEW x \in VoiceOf
      PROVE  \/ x = [provider |-> "none", speaks |-> "none", reference |-> FALSE]
             \/ x = [provider |-> "elevenlabs", speaks |-> "remote", reference |-> FALSE]
             \/ x = [provider |-> "chatterbox-local", speaks |-> "local-reference", reference |-> TRUE]
             \/ x = [provider |-> "chatterbox-local", speaks |-> "local-reference", reference |-> FALSE]
  BY <1>1 DEF VoiceOf, Library!Profiles
<1>3. \A b \in BOOLEAN : [provider |-> "chatterbox-local", speaks |-> "local-reference", reference |-> b] \in VoiceOf
  BY DEF VoiceOf, Library!Profiles
<1>4. [provider |-> "elevenlabs", speaks |-> "remote", reference |-> FALSE] \in VoiceOf
  BY DEF VoiceOf, Library!Profiles
<1>5. Library!NoVoice \in VoiceOf
  BY DEF VoiceOf
<1>6. ASSUME NEW x \in VoiceOf, NEW b \in BOOLEAN PROVE [x EXCEPT !.reference = x.reference /\ b] \in VoiceOf
  <2> DEFINE r == x.reference /\ b
  <2>0. r \in BOOLEAN /\ (x.reference = FALSE => r = FALSE)
    BY <1>2
  <2> HIDE DEF r
  <2>1. CASE x = [provider |-> "none", speaks |-> "none", reference |-> FALSE]
    <3>1. r = FALSE
      BY <2>0, <2>1
    <3>2. [x EXCEPT !.reference = r] = [provider |-> "none", speaks |-> "none", reference |-> r]
      BY <2>1
    <3> QED  BY <1>1, <1>5, <3>1, <3>2 DEF r
  <2>2. CASE x = [provider |-> "elevenlabs", speaks |-> "remote", reference |-> FALSE]
    <3>1. r = FALSE
      BY <2>0, <2>2
    <3>2. [x EXCEPT !.reference = r] = [provider |-> "elevenlabs", speaks |-> "remote", reference |-> r]
      BY <2>2
    <3> QED  BY <1>4, <3>1, <3>2 DEF r
  <2>3. ASSUME x.provider = "chatterbox-local"
        PROVE  [x EXCEPT !.reference = r] \in VoiceOf
    <3>1. [x EXCEPT !.reference = r] = [provider |-> "chatterbox-local", speaks |-> "local-reference", reference |-> r]
      BY <1>2, <2>3
    <3> QED  BY <1>3, <2>0, <3>1
  <2> QED  BY <1>2, <2>1, <2>2, <2>3 DEF r
<1>7. ASSUME NEW x \in VoiceOf
      PROVE  /\ x.provider \in {"none", "chatterbox-local", "elevenlabs"}
             /\ x.speaks \in {"none", "local-reference", "remote"}
             /\ x.reference \in BOOLEAN
  <2>1. x.provider \in {"none", "chatterbox-local", "elevenlabs"}
    BY <1>2
  <2>2. x.speaks \in {"none", "local-reference", "remote"}
    BY <1>2
  <2>3. x.reference = TRUE \/ x.reference = FALSE
    BY <1>2
  <2> QED  BY <2>1, <2>2, <2>3
<1> QED  BY <1>5, <1>6, <1>7

\* The clone of a profile says what that profile says.
LEMMA CloneFacts ==
  ASSUME NEW v \in Voices, NEW x \in VoiceOf
  PROVE  /\ Library!CloneOf(v, x) \in CloneKinds
         /\ Library!CloneOf(v, x).provider = x.provider /\ Library!CloneOf(v, x).speaks = x.speaks
         /\ Library!CloneOf(v, x).path = IF x.reference THEN v ELSE 0
<1>1. x.provider \in {"none", "chatterbox-local", "elevenlabs"} /\ x.speaks \in {"none", "local-reference", "remote"}
  BY VoiceFacts
<1> QED  BY <1>1 DEF Library!CloneOf, CloneKinds

\* A profile is installed where there is none.
LEMMA AddVoiceKeeps ==
  ASSUME LInv, NEW v \in Voices, NEW x \in Library!Profiles, NEW b \in BOOLEAN, Library!AddVoice(v, x, b)
  PROVE  LInv'
<1>1. /\ LibraryTyped /\ requests' \in 0..MaxRequests
      /\ UNCHANGED <<commercial, packs, companions, archive, file, now, worn, torn, cloned>>
      /\ voices \in [Voices -> VoiceOf]
  BY LibraryAssumed DEF LInv, LibraryTyped, Library!AddVoice, Library!Request
<1>2. /\ voices' \in [Voices -> VoiceOf]
      /\ \A u \in Voices : voices[u] # Library!NoVoice => voices'[u] = voices[u]
  BY <1>1 DEF Library!AddVoice, VoiceOf
<1>3. LibraryTyped'
  BY <1>1, <1>2 DEF LibraryTyped
<1>4. Findable'
  BY <1>1, SameFound DEF LInv, Findable, Library!NoPack, Library!Missing
<1>5. ASSUME worn # "none"
      PROVE  /\ companions[worn].voice # Library!NoVoice =>
                   companions[worn].id \in Voices /\ voices[companions[worn].id] # Library!NoVoice
             /\ companions[worn] # Library!NoCompanion /\ torn = {}
  <2>1. worn \in Companions
    BY <1>1, <1>5 DEF LibraryTyped
  <2>2. companions[worn] \in Archives
    BY <1>1, <2>1 DEF LibraryTyped
  <2> QED  BY <1>5, <2>2 DEF LInv, Worn, Archives, ArchiveOf
<1>6. Worn'
  BY <1>1, <1>2, <1>5 DEF Worn, Library!NoCompanion, Library!NoVoice, Library!NoPack, Library!Missing
<1>7. Library!WornEntirely'
  BY <1>1, <1>2, <1>5, SameFound DEF LInv, Library!WornEntirely, Library!Usable, Library!CloneOf, Library!NoVoice, Library!Missing
<1>8. Library!StartFindsTheSame'
  <2>1. now.voice \in Voices \cup {0}
    BY <1>1 DEF LibraryTyped, ForceOf
  <2> QED  BY <1>1, <1>2, <2>1, SameFound DEF LInv, Library!StartFindsTheSame, Library!Startable, Library!Matches, Library!NoVoice, Library!Missing
<1> QED  BY <1>3, <1>4, <1>6, <1>7, <1>8 DEF LInv

\* A profile becomes the one to speak with.
LEMMA ActivateVoiceKeeps ==
  ASSUME LInv, NEW v \in Voices, Library!ActivateVoice(v)
  PROVE  LInv'
<1>1. /\ LibraryTyped /\ requests' \in 0..MaxRequests
      /\ UNCHANGED <<commercial, packs, voices, companions, archive, torn>>
      /\ voices[v] # Library!NoVoice /\ voices[v] \in VoiceOf
      /\ now \in ForceOf /\ file \in FileOf
      /\ file' = [file EXCEPT !.clone = Library!CloneOf(v, voices[v])]
      /\ now' = [now EXCEPT !.voice = v]
      /\ worn' = "none" /\ cloned' = FALSE
  BY LibraryAssumed DEF LInv, LibraryTyped, Library!ActivateVoice, Library!Request, Library!Missing
<1>2. /\ file' \in FileOf /\ file'.clone = Library!CloneOf(v, voices[v])
      /\ file'.pack = file.pack /\ file'.appearance = file.appearance
  BY <1>1, CloneFacts DEF FileOf
<1>3. /\ now' \in ForceOf /\ now'.voice = v
      /\ now'.pack = now.pack /\ now'.shown = now.shown /\ now'.appearance = now.appearance
  BY <1>1 DEF ForceOf
<1>4. LibraryTyped'
  BY <1>1, <1>2, <1>3 DEF LibraryTyped
<1>5. Findable'
  BY <1>1, <1>2, <1>3, SameFound DEF LInv, Findable, Library!NoPack, Library!Missing
<1>6. Worn' /\ Library!WornEntirely'
  BY <1>1 DEF Worn, Library!WornEntirely, Library!Missing
<1>7. Library!StartFindsTheSame'
  <2>1. /\ now'.shown = Library!Found(now.pack)'.look \/ Library!Hidden(now.pack)'
        /\ "pack" \notin torn' => file'.pack = now'.pack
        /\ "appearance" \notin torn' => file'.appearance = now'.appearance
    BY <1>1, <1>2, <1>3, SameFound DEF LInv, Library!StartFindsTheSame
  <2>2. /\ file'.clone.provider = voices[v].provider /\ file'.clone.speaks = voices[v].speaks
        /\ file'.clone.path = IF voices[v].reference THEN v ELSE 0
    BY <1>1, <1>2, CloneFacts
  <2>3. Library!Startable' => Library!Matches(now.voice, file.clone)'
    BY <1>1, <1>3, <2>2 DEF Library!Startable, Library!Matches, Library!NoVoice, Library!Missing
  <2> QED  BY <2>1, <2>3 DEF Library!StartFindsTheSame
<1> QED  BY <1>4, <1>5, <1>6, <1>7 DEF LInv

\* A clone is saved without a profile.
LEMMA SaveCloneKeeps ==
  ASSUME LInv, NEW provider \in {"chatterbox-local", "elevenlabs"}, Library!SaveClone(provider)
  PROVE  LInv'
<1> DEFINE k == IF provider = "elevenlabs" THEN [provider |-> provider, speaks |-> "other", path |-> 0]
                ELSE [provider |-> provider, speaks |-> "local-reference", path |-> -1]
<1>0. k \in CloneKinds
  BY DEF CloneKinds
<1>1. /\ LibraryTyped /\ requests' \in 0..MaxRequests
      /\ UNCHANGED <<commercial, packs, voices, companions, archive, now, torn>>
      /\ now \in ForceOf /\ file \in FileOf
      /\ file' = [file EXCEPT !.clone = k]
      /\ worn' = "none" /\ cloned' = TRUE
  BY LibraryAssumed DEF LInv, LibraryTyped, Library!SaveClone, Library!Request, Library!Missing,
                        Library!Elsewhere
<1> HIDE DEF k
<1>2. file' \in FileOf /\ file'.pack = file.pack /\ file'.appearance = file.appearance
  BY <1>0, <1>1 DEF FileOf
<1>3. LibraryTyped'
  BY <1>1, <1>2 DEF LibraryTyped
<1>4. Findable'
  BY <1>1, <1>2, SameFound DEF LInv, Findable, Library!NoPack, Library!Missing
<1>5. Worn' /\ Library!WornEntirely'
  BY <1>1 DEF Worn, Library!WornEntirely, Library!Missing
<1>6. Library!StartFindsTheSame'
  BY <1>1, <1>2, SameFound DEF LInv, Library!StartFindsTheSame
<1> QED  BY <1>3, <1>4, <1>5, <1>6 DEF LInv

\* What is exported and imported is not in force, and what is imported takes no one's place.
LEMMA ExchangeKeeps ==
  ASSUME LInv, requests' \in 0..MaxRequests, archive' \in Archives, companions' \in [Companions -> Archives],
         \A c \in Companions : companions[c] # Library!NoCompanion => companions'[c] = companions[c],
         UNCHANGED <<commercial, packs, voices, file, now, worn, torn, cloned>>
  PROVE  LInv'
<1>1. LibraryTyped'
  BY DEF LInv, LibraryTyped
<1>2. Findable'
  BY SameFound DEF LInv, Findable, Library!NoPack, Library!Missing
<1>3. worn # "none" => companions'[worn] = companions[worn]
  BY DEF LInv, LibraryTyped, Worn
<1>4. Worn'
  BY <1>3 DEF LInv, Worn, Library!NoCompanion, Library!NoVoice, Library!NoPack, Library!Missing
<1>5. Library!WornEntirely'
  BY <1>3, SameFound DEF LInv, Library!WornEntirely, Library!Usable, Library!CloneOf, Library!NoVoice, Library!Missing
<1>6. Library!StartFindsTheSame'
  BY SameFound DEF LInv, Library!StartFindsTheSame, Library!Startable, Library!Matches, Library!NoVoice, Library!Missing
<1> QED  BY <1>1, <1>2, <1>4, <1>5, <1>6 DEF LInv

\* A record is its fields.
LEMMA PackIs ==
  ASSUME NEW look, NEW license, NEW whole, NEW lower,
         NEW x \in [look : {look}, license : {license}, whole : {whole}, lower : {lower}]
  PROVE  x = [look |-> look, license |-> license, whole |-> whole, lower |-> lower]
<1>1. x = [look |-> x.look, license |-> x.license, whole |-> x.whole, lower |-> x.lower]
  OBVIOUS
<1>2. x.look = look /\ x.license = license /\ x.whole = whole /\ x.lower = lower
  OBVIOUS
<1> QED  BY <1>1, <1>2

\* The same of a companion.
LEMMA CompanionIs ==
  ASSUME NEW own, NEW avatar, NEW personality, NEW appearance, NEW id, NEW voice,
         NEW x \in [pack : {own}, avatar : {avatar}, personality : {personality}, appearance : {appearance},
                    id : {id}, voice : {voice}]
  PROVE  x = [pack |-> own, avatar |-> avatar, personality |-> personality, appearance |-> appearance,
              id |-> id, voice |-> voice]
<1>1. x = [pack |-> x.pack, avatar |-> x.avatar, personality |-> x.personality, appearance |-> x.appearance,
           id |-> x.id, voice |-> x.voice]
  OBVIOUS
<1>2. /\ x.pack = own /\ x.avatar = avatar /\ x.personality = personality /\ x.appearance = appearance
      /\ x.id = id /\ x.voice = voice
  OBVIOUS
<1> QED  BY <1>1, <1>2

\* What a pack is after an archive: names in lower case leave one that can be, whole or not.
Lowered(x) == [x EXCEPT !.whole = x.whole /\ x.lower, !.lower = TRUE]

\* A pack with its names in lower case.
LEMMA FoldedPack ==
  ASSUME NEW look, NEW license, NEW whole \in BOOLEAN, NEW lower \in BOOLEAN,
         NEW x, x = [look |-> look, license |-> license, whole |-> whole, lower |-> lower]
  PROVE  Lowered(x) = [look |-> look, license |-> license, whole |-> whole /\ lower, lower |-> TRUE]
<1> DEFINE w == x.whole /\ x.lower
           v == whole /\ lower
<1>1. w = v
  OBVIOUS
<1> HIDE DEF w, v
<1> DEFINE y == [x EXCEPT !.whole = w, !.lower = TRUE]
<1>2. y \in [look : {look}, license : {license}, whole : {v}, lower : {TRUE}]
  BY <1>1
<1> HIDE DEF y
<1>3. y = [look |-> look, license |-> license, whole |-> v, lower |-> TRUE]
  BY <1>2, PackIs
<1> QED  BY <1>3 DEF w, v, y, Lowered

\* The packs that there are, by their parts.
LEMMA PackParts ==
  ASSUME NEW x \in PackOf
  PROVE  \/ x = [look |-> "none", license |-> "none", whole |-> FALSE, lower |-> TRUE]
         \/ \E look \in Looks, license \in {"free", "restricted"} :
               x = [look |-> look, license |-> license, whole |-> TRUE, lower |-> TRUE]
         \/ x = [look |-> "guest", license |-> "free", whole |-> FALSE, lower |-> TRUE]
         \/ x = [look |-> "guest", license |-> "free", whole |-> TRUE, lower |-> FALSE]
<1>1. \/ x = Library!NoPack
      \/ \E look \in Looks : x = Library!Free(look) \/ x = [Library!Free(look) EXCEPT !.license = "restricted"]
      \/ x = [Library!Free("guest") EXCEPT !.whole = FALSE]
      \/ x = [Library!Free("guest") EXCEPT !.lower = FALSE]
  BY DEF PackOf, Library!Creations
<1>2. ASSUME NEW look
      PROVE  /\ Library!Free(look) = [look |-> look, license |-> "free", whole |-> TRUE, lower |-> TRUE]
             /\ [Library!Free(look) EXCEPT !.license = "restricted"]
                  = [look |-> look, license |-> "restricted", whole |-> TRUE, lower |-> TRUE]
             /\ [Library!Free(look) EXCEPT !.whole = FALSE]
                  = [look |-> look, license |-> "free", whole |-> FALSE, lower |-> TRUE]
             /\ [Library!Free(look) EXCEPT !.lower = FALSE]
                  = [look |-> look, license |-> "free", whole |-> TRUE, lower |-> FALSE]
  <2> DEFINE w == [look |-> look, license |-> "free", whole |-> TRUE, lower |-> TRUE]
  <2>1. Library!Free(look) = w
    BY DEF Library!Free
  <2>2. /\ [w EXCEPT !.license = "restricted"] \in [look : {look}, license : {"restricted"}, whole : {TRUE}, lower : {TRUE}]
        /\ [w EXCEPT !.whole = FALSE] \in [look : {look}, license : {"free"}, whole : {FALSE}, lower : {TRUE}]
        /\ [w EXCEPT !.lower = FALSE] \in [look : {look}, license : {"free"}, whole : {TRUE}, lower : {FALSE}]
    OBVIOUS
  <2> HIDE DEF w
  <2>3. /\ [w EXCEPT !.license = "restricted"] = [look |-> look, license |-> "restricted", whole |-> TRUE, lower |-> TRUE]
        /\ [w EXCEPT !.whole = FALSE] = [look |-> look, license |-> "free", whole |-> FALSE, lower |-> TRUE]
        /\ [w EXCEPT !.lower = FALSE] = [look |-> look, license |-> "free", whole |-> TRUE, lower |-> FALSE]
    BY <2>2, PackIs
  <2> QED  BY <2>1, <2>3 DEF w
<1>3. Library!NoPack = [look |-> "none", license |-> "none", whole |-> FALSE, lower |-> TRUE]
  BY DEF Library!NoPack, Library!Missing
<1> QED  BY <1>1, <1>2, <1>3

\* Every pack stays one when its names are.
LEMMA FoldedPacks ==
  ASSUME NEW x \in PackOf
  PROVE  Lowered(x) \in PackOf
<1> DEFINE R(look, license, whole, lower) == [look |-> look, license |-> license, whole |-> whole, lower |-> lower]
<1>1. CASE x = R("none", "none", FALSE, TRUE)
  <2>1. Lowered(x) = R("none", "none", FALSE /\ TRUE, TRUE)
    BY <1>1, FoldedPack
  <2>2. Lowered(x) = x
    BY <1>1, <2>1
  <2> QED  BY <2>2
<1>2. ASSUME NEW look, NEW license, x = R(look, license, TRUE, TRUE) PROVE Lowered(x) \in PackOf
  <2>1. Lowered(x) = R(look, license, TRUE /\ TRUE, TRUE)
    BY <1>2, FoldedPack
  <2>2. Lowered(x) = x
    BY <1>2, <2>1
  <2> QED  BY <2>2
<1>3. CASE x = R("guest", "free", FALSE, TRUE)
  <2>1. Lowered(x) = R("guest", "free", FALSE /\ TRUE, TRUE)
    BY <1>3, FoldedPack
  <2>2. Lowered(x) = x
    BY <1>3, <2>1
  <2> QED  BY <2>2
<1>4. CASE x = R("guest", "free", TRUE, FALSE)
  <2>1. Lowered(x) = R("guest", "free", TRUE /\ FALSE, TRUE)
    BY <1>4, FoldedPack
  <2>2. [Library!Free("guest") EXCEPT !.whole = FALSE] = R("guest", "free", FALSE, TRUE)
    <3> DEFINE x1 == [look |-> "guest", license |-> "free", whole |-> TRUE, lower |-> TRUE]
    <3>1. Library!Free("guest") = x1
      BY DEF Library!Free
    <3>2. [x1 EXCEPT !.whole = FALSE] \in [look : {"guest"}, license : {"free"}, whole : {FALSE}, lower : {TRUE}]
      OBVIOUS
    <3> HIDE DEF x1
    <3>3. [x1 EXCEPT !.whole = FALSE] = R("guest", "free", FALSE, TRUE)
      BY <3>2, PackIs
    <3> QED  BY <3>1, <3>3
  <2>3. Lowered(x) = [Library!Free("guest") EXCEPT !.whole = FALSE]
    BY <2>1, <2>2
  <2>4. [Library!Free("guest") EXCEPT !.whole = FALSE] \in PackOf
    BY DEF PackOf, Library!Creations
  <2> QED  BY <2>3, <2>4
<1>5. \/ x = R("none", "none", FALSE, TRUE)
      \/ \E look \in Looks, license \in {"free", "restricted"} : x = R(look, license, TRUE, TRUE)
      \/ x = R("guest", "free", FALSE, TRUE)
      \/ x = R("guest", "free", TRUE, FALSE)
  BY PackParts
<1> HIDE DEF R
<1> QED  BY <1>1, <1>2, <1>3, <1>4, <1>5

\* Every companion stays one when the names of its pack are.
LEMMA FoldedArchives ==
  ASSUME NEW a \in ArchiveOf
  PROVE  Library!Folded(a) \in ArchiveOf
<1> DEFINE x == Lowered(a.avatar)
<1>1. x \in PackOf
  BY FoldedPacks DEF ArchiveOf
<1>2. a \in [pack : Packs, avatar : PackOf, personality : Contents, appearance : Contents,
              id : Voices \cup {0}, voice : VoiceOf]
  BY DEF ArchiveOf
<1>3. Library!Folded(a) = [a EXCEPT !.avatar = x]
  BY <1>2 DEF Library!Folded, Lowered
<1> HIDE DEF x
<1>4. [a EXCEPT !.avatar = x] \in ArchiveOf
  BY <1>1, <1>2 DEF ArchiveOf
<1> QED  BY <1>3, <1>4

\* Companions of others are companions.
LEMMA ForeignFacts == Library!Foreign \subseteq ArchiveOf
<1> DEFINE e == [provider |-> "elevenlabs", speaks |-> "remote", reference |-> FALSE]
           l == [provider |-> "chatterbox-local", speaks |-> "local-reference", reference |-> TRUE]
           r == [Library!Free("guest") EXCEPT !.license = "restricted"]
           A(avatar, personality, appearance, id, voice) ==
             [pack |-> "guest", avatar |-> avatar, personality |-> personality, appearance |-> appearance,
              id |-> id, voice |-> voice]
<1>1. e \in VoiceOf /\ l \in VoiceOf /\ Library!NoVoice \in VoiceOf
  BY DEF VoiceOf, Library!Profiles
<1>2. Library!Free("guest") \in PackOf /\ r \in PackOf /\ Library!NoPack \in PackOf
  BY LibraryAssumed DEF PackOf, Library!Creations
<1>3. /\ "guest" \in Contents /\ "none" \in Contents /\ "guest" \in Packs /\ 1 \in Voices
      /\ 0 \in Voices \cup {0}
  BY LibraryAssumed DEF Contents
<1> HIDE DEF e, l, r
<1>4. /\ A(Library!Free("guest"), "guest", "guest", 1, e) \in ArchiveOf
      /\ A(Library!Free("guest"), "guest", "guest", 1, l) \in ArchiveOf
      /\ A(r, "guest", "guest", 1, e) \in ArchiveOf
      /\ A(Library!NoPack, "guest", "guest", 1, e) \in ArchiveOf
      /\ A(Library!Free("guest"), "none", "guest", 1, e) \in ArchiveOf
      /\ A(Library!Free("guest"), "guest", "none", 1, e) \in ArchiveOf
      /\ A(Library!Free("guest"), "guest", "guest", 0, Library!NoVoice) \in ArchiveOf
  BY <1>1, <1>2, <1>3 DEF ArchiveOf
<1>5. Library!Foreign \subseteq
        {A(Library!Free("guest"), "guest", "guest", 1, e), A(Library!Free("guest"), "guest", "guest", 1, l),
         A(r, "guest", "guest", 1, e), A(Library!NoPack, "guest", "guest", 1, e),
         A(Library!Free("guest"), "none", "guest", 1, e), A(Library!Free("guest"), "guest", "none", 1, e),
         A(Library!Free("guest"), "guest", "guest", 0, Library!NoVoice)}
  <2> DEFINE w == A(Library!Free("guest"), "guest", "guest", 1, e)
  <2>1. /\ [w EXCEPT !.id = 0, !.voice = Library!NoVoice] = A(Library!Free("guest"), "guest", "guest", 0, Library!NoVoice)
        /\ [w EXCEPT !.voice = l] = A(Library!Free("guest"), "guest", "guest", 1, l)
        /\ [w EXCEPT !.avatar = Library!NoPack] = A(Library!NoPack, "guest", "guest", 1, e)
        /\ [w EXCEPT !.personality = "none"] = A(Library!Free("guest"), "none", "guest", 1, e)
        /\ [w EXCEPT !.appearance = "none"] = A(Library!Free("guest"), "guest", "none", 1, e)
    <3> DEFINE f == Library!Free("guest")
               S(avatar, personality, appearance, id, voice) ==
                 [pack : {"guest"}, avatar : {avatar}, personality : {personality}, appearance : {appearance},
                  id : {id}, voice : {voice}]
    <3>1. [w EXCEPT !.id = 0, !.voice = Library!NoVoice] \in S(f, "guest", "guest", 0, Library!NoVoice)
      OBVIOUS
    <3>2. [w EXCEPT !.voice = l] \in S(f, "guest", "guest", 1, l)
      OBVIOUS
    <3>3. [w EXCEPT !.avatar = Library!NoPack] \in S(Library!NoPack, "guest", "guest", 1, e)
      OBVIOUS
    <3>4. [w EXCEPT !.personality = "none"] \in S(f, "none", "guest", 1, e)
      OBVIOUS
    <3>5. [w EXCEPT !.appearance = "none"] \in S(f, "guest", "none", 1, e)
      OBVIOUS
    <3> HIDE DEF w
    <3> QED  BY <3>1, <3>2, <3>3, <3>4, <3>5, CompanionIs
  <2>2. [w EXCEPT !.avatar.license = "restricted"] = A(r, "guest", "guest", 1, e)
    BY DEF r
  <2>3. Library!Foreign =
          {w, [w EXCEPT !.id = 0, !.voice = Library!NoVoice], [w EXCEPT !.voice = l],
           [w EXCEPT !.avatar.license = "restricted"], [w EXCEPT !.avatar = Library!NoPack],
           [w EXCEPT !.personality = "none"], [w EXCEPT !.appearance = "none"]}
    BY Zenon DEF Library!Foreign, Library!Missing, e, l
  <2> HIDE DEF w, A
  <2>4. \A a \in Library!Foreign :
          \/ a = w \/ a = [w EXCEPT !.id = 0, !.voice = Library!NoVoice] \/ a = [w EXCEPT !.voice = l]
          \/ a = [w EXCEPT !.avatar.license = "restricted"] \/ a = [w EXCEPT !.avatar = Library!NoPack]
          \/ a = [w EXCEPT !.personality = "none"] \/ a = [w EXCEPT !.appearance = "none"]
    BY <2>3, Zenon
  <2> QED  BY <2>1, <2>2, <2>4 DEF w
<1> QED  BY <1>4, <1>5

\* What is exported is a companion.
LEMMA ExportKeeps == ASSUME LInv, NEW b \in BOOLEAN, Library!Export(b) PROVE LInv'
<1>1. /\ LibraryTyped /\ requests' \in 0..MaxRequests
      /\ UNCHANGED <<commercial, packs, voices, companions, file, now, worn, torn, cloned>>
      /\ now \in ForceOf /\ file \in FileOf /\ packs \in [Packs -> PackOf] /\ voices \in [Voices -> VoiceOf]
  BY LibraryAssumed DEF LInv, LibraryTyped, Library!Export, Library!Request
<1> DEFINE x == IF now.voice = 0 THEN Library!NoVoice
                ELSE [voices[now.voice] EXCEPT !.reference = voices[now.voice].reference /\ b]
<1>2. x \in VoiceOf /\ (x # Library!NoVoice => now.voice \in Voices) /\ now.voice \in Voices \cup {0}
  <2>1. now.voice \in Voices \cup {0}
    BY <1>1 DEF ForceOf
  <2>2. now.voice # 0 => voices[now.voice] \in VoiceOf
    BY <1>1, <2>1
  <2> QED  BY <2>1, <2>2, VoiceFacts
<1>3. archive' = [pack |-> now.pack, avatar |-> Library!Found(now.pack), personality |-> file.personality,
                  appearance |-> now.appearance, id |-> now.voice, voice |-> x]
  BY DEF Library!Export
<1> HIDE DEF x
<1>4. now.pack \in Packs /\ Library!Found(now.pack) \in PackOf /\ file.personality \in Contents /\ now.appearance \in Contents
  BY <1>1, FoundFacts DEF ForceOf, FileOf
<1>5. archive' \in Archives
  BY <1>2, <1>3, <1>4 DEF Archives, ArchiveOf
<1>6. companions' \in [Companions -> Archives]
  BY <1>1 DEF LibraryTyped
<1> QED  BY <1>1, <1>5, <1>6, ExchangeKeeps

\* What is imported is a companion, in a place of its own.
LEMMA ImportKeeps ==
  ASSUME LInv, NEW c \in Companions, NEW a \in Library!Foreign \cup {archive}, NEW b \in BOOLEAN,
         Library!Import(c, a, b)
  PROVE  LInv'
<1>1. /\ LibraryTyped /\ requests' \in 0..MaxRequests
      /\ UNCHANGED <<commercial, packs, voices, archive, file, now, worn, torn, cloned>>
      /\ a # Library!NoCompanion /\ archive \in Archives /\ companions \in [Companions -> Archives]
  BY LibraryAssumed DEF LInv, LibraryTyped, Library!Import, Library!Request
<1>2. Library!Folded(a) \in Archives
  BY <1>1, ForeignFacts, FoldedArchives DEF Archives
<1>3. \/ companions' = companions
      \/ companions[c] = Library!NoCompanion /\ companions' = [companions EXCEPT ![c] = Library!Folded(a)]
  BY DEF Library!Import
<1>4. /\ companions' \in [Companions -> Archives]
      /\ \A d \in Companions : companions[d] # Library!NoCompanion => companions'[d] = companions[d]
  BY <1>1, <1>2, <1>3
<1> QED  BY <1>1, <1>4, ExchangeKeeps

\* How far an activation has come, by the number of its steps.
LEMMA StepsDone ==
  ASSUME NEW n \in 0..8
  PROVE  /\ Len(Library!Steps) = 8
         /\ (\E i \in 1..n : Library!Steps[i] = "install") <=> n >= 1
         /\ (\E i \in 1..n : Library!Steps[i] = "load") <=> n >= 2
         /\ (\E i \in 1..n : Library!Steps[i] = "save pack") <=> n >= 3
         /\ (\E i \in 1..n : Library!Steps[i] = "personality") <=> n >= 4
         /\ (\E i \in 1..n : Library!Steps[i] = "appearance") <=> n >= 5
         /\ (\E i \in 1..n : Library!Steps[i] = "save appearance") <=> n >= 6
         /\ (\E i \in 1..n : Library!Steps[i] = "voice") <=> n >= 7
         /\ (\E i \in 1..n : Library!Steps[i] = "save voice") <=> n >= 8
<1> DEFINE st == Library!Steps
<1>1. /\ Len(st) = 8
      /\ st[1] = "install"
      /\ st[2] = "load"
      /\ st[3] = "save pack"
      /\ st[4] = "personality"
      /\ st[5] = "appearance"
      /\ st[6] = "save appearance"
      /\ st[7] = "voice"
      /\ st[8] = "save voice"
  BY DEF Library!Steps
<1> HIDE DEF st
<1>2. \A i \in 1..n : i \in {1, 2, 3, 4, 5, 6, 7, 8}
  OBVIOUS
<1>3. (\E i \in 1..n : st[i] = "install") <=> n >= 1
  <2>1. \A i \in 1..n : st[i] = "install" => i = 1
    BY <1>1, <1>2
  <2>2. 1 \in 1..n <=> n >= 1
    OBVIOUS
  <2> QED  BY <1>1, <2>1, <2>2
<1>4. (\E i \in 1..n : st[i] = "load") <=> n >= 2
  <2>1. \A i \in 1..n : st[i] = "load" => i = 2
    BY <1>1, <1>2
  <2>2. 2 \in 1..n <=> n >= 2
    OBVIOUS
  <2> QED  BY <1>1, <2>1, <2>2
<1>5. (\E i \in 1..n : st[i] = "save pack") <=> n >= 3
  <2>1. \A i \in 1..n : st[i] = "save pack" => i = 3
    BY <1>1, <1>2
  <2>2. 3 \in 1..n <=> n >= 3
    OBVIOUS
  <2> QED  BY <1>1, <2>1, <2>2
<1>6. (\E i \in 1..n : st[i] = "personality") <=> n >= 4
  <2>1. \A i \in 1..n : st[i] = "personality" => i = 4
    BY <1>1, <1>2
  <2>2. 4 \in 1..n <=> n >= 4
    OBVIOUS
  <2> QED  BY <1>1, <2>1, <2>2
<1>7. (\E i \in 1..n : st[i] = "appearance") <=> n >= 5
  <2>1. \A i \in 1..n : st[i] = "appearance" => i = 5
    BY <1>1, <1>2
  <2>2. 5 \in 1..n <=> n >= 5
    OBVIOUS
  <2> QED  BY <1>1, <2>1, <2>2
<1>8. (\E i \in 1..n : st[i] = "save appearance") <=> n >= 6
  <2>1. \A i \in 1..n : st[i] = "save appearance" => i = 6
    BY <1>1, <1>2
  <2>2. 6 \in 1..n <=> n >= 6
    OBVIOUS
  <2> QED  BY <1>1, <2>1, <2>2
<1>9. (\E i \in 1..n : st[i] = "voice") <=> n >= 7
  <2>1. \A i \in 1..n : st[i] = "voice" => i = 7
    BY <1>1, <1>2
  <2>2. 7 \in 1..n <=> n >= 7
    OBVIOUS
  <2> QED  BY <1>1, <2>1, <2>2
<1>10. (\E i \in 1..n : st[i] = "save voice") <=> n >= 8
  <2>1. \A i \in 1..n : st[i] = "save voice" => i = 8
    BY <1>1, <1>2
  <2>2. 8 \in 1..n <=> n >= 8
    OBVIOUS
  <2> QED  BY <1>1, <2>1, <2>2
<1> QED  BY <1>1, <1>3, <1>4, <1>5, <1>6, <1>7, <1>8, <1>9, <1>10 DEF st

\* A set of numbers has a least one.
LEMMA LeastNumber ==
  ASSUME NEW T \in SUBSET Nat, T # {}
  PROVE  \E n \in T : \A m \in T : n <= m
<1> DEFINE less == OpToRel(<, Nat)
<1>1. IsWellFoundedOn(less, Nat)
  BY NatLessThanWellFounded
<1> HIDE DEF less
<1>2. \E n \in T : \A m \in T : ~(<<m, n>> \in less)
  BY <1>1, WFMin
<1>3. \A m, n \in Nat : m < n => <<m, n>> \in less
  BY DEF less, OpToRel
<1>4. PICK n \in T : \A m \in T : ~(<<m, n>> \in less)
  BY <1>2
<1>5. \A m \in T : ~(m < n)
  BY <1>3, <1>4
<1>6. \A m \in T : n <= m
  BY <1>5
<1> QED  BY <1>6

\* A clone recovered is one of a profile that there is.
LEMMA RecoveredFacts ==
  ASSUME NEW k
  PROVE  /\ Library!Recovered(k) \in Voices \cup {0}
         /\ Library!Recovered(k) # 0 => Library!Matches(Library!Recovered(k), k)
<1> DEFINE T == {v \in Voices : Library!Matches(v, k)}
<1>1. CASE T = {}
  BY <1>1 DEF Library!Recovered
<1>2. CASE T # {}
  <2>1. T \in SUBSET Nat
    BY LibraryAssumed
  <2>2. \E v \in T : \A u \in T : v <= u
    BY <1>2, <2>1, LeastNumber
  <2>3. \E v \in Voices : Library!Matches(v, k) /\ \A u \in Voices : Library!Matches(u, k) => v <= u
    BY <2>2
  <2> DEFINE P(v) == Library!Matches(v, k) /\ \A u \in Voices : Library!Matches(u, k) => v <= u
             w == CHOOSE v \in Voices : P(v)
  <2>4. w \in Voices /\ P(w)
    <3> HIDE DEF P
    <3> QED  BY <2>3, Zenon DEF P
  <2>5. Library!Recovered(k) = w
    BY <1>2, Zenon DEF Library!Recovered
  <2> QED  BY <2>4, <2>5
<1> QED  BY <1>1, <1>2

\* A restart puts in force what was saved.
LEMMA RestartKeeps == ASSUME LInv, Library!Restart PROVE LInv'
<1>1. /\ LibraryTyped /\ requests' \in 0..MaxRequests
      /\ UNCHANGED <<commercial, packs, voices, companions, archive, file, worn>>
      /\ now \in ForceOf /\ file \in FileOf /\ packs \in [Packs -> PackOf]
      /\ torn' = {} /\ cloned' = FALSE /\ Library!Startable
      /\ now' = [pack |-> file.pack, shown |-> Library!Found(file.pack).look,
                 appearance |-> file.appearance, voice |-> Library!Recovered(file.clone)]
  BY LibraryAssumed DEF LInv, LibraryTyped, Library!Restart, Library!Request
<1>2. /\ now'.pack = file.pack /\ now'.shown = Library!Found(file.pack).look
      /\ now'.appearance = file.appearance /\ now'.voice = Library!Recovered(file.clone)
  BY <1>1
<1>3. /\ file.pack \in Packs /\ file.appearance \in Contents
      /\ Library!Found(file.pack).look \in Contents
  BY <1>1, FoundFacts, PackFacts DEF FileOf
<1>4. now' \in ForceOf
  BY <1>1, <1>3, RecoveredFacts DEF ForceOf
<1>5. LibraryTyped'
  BY <1>1, <1>4 DEF LibraryTyped
<1>6. Findable'
  BY <1>1, <1>2, SameFound DEF LInv, Findable, Library!NoPack, Library!Missing
<1>7. Worn'
  BY <1>1 DEF LInv, Worn, Library!NoCompanion, Library!NoVoice, Library!NoPack, Library!Missing
<1>8. Library!WornEntirely'
  <2>1. worn # "none" => file.pack = now.pack /\ file.appearance = now.appearance
    BY DEF LInv, Worn, Library!StartFindsTheSame
  <2> QED  BY <1>1, <1>2, <2>1, SameFound DEF LInv, Library!WornEntirely, Library!Usable, Library!CloneOf,
                                            Library!NoVoice, Library!Missing
<1>9. Library!StartFindsTheSame'
  <2>1. now'.voice # 0 => Library!Matches(now.voice, file.clone)'
    BY <1>1, <1>2, RecoveredFacts DEF Library!Matches, Library!NoVoice, Library!Missing
  <2> QED  BY <1>1, <1>2, <2>1, SameFound DEF Library!StartFindsTheSame
<1> QED  BY <1>5, <1>6, <1>7, <1>8, <1>9 DEF LInv

\* An activation of any number of its steps.
LEMMA ActivateKeeps ==
  ASSUME LInv, NEW c \in Companions, NEW n \in 0..Len(Library!Steps), Library!Activate(c, n)
  PROVE  LInv'
<1> DEFINE a == companions[c]
           found == Library!Found(a.pack)
           brought == IF found = Library!NoPack THEN a.avatar ELSE found
           stored == Library!Stored(a)
           voiced == a.voice # Library!NoVoice
           speaks == voiced /\ Library!Usable(stored) /\ n >= 8
<1>1. n \in 0..8 /\ n \in Nat
  BY DEF Library!Steps
<1>2. /\ LibraryTyped /\ requests' \in 0..MaxRequests /\ UNCHANGED <<commercial, companions, archive>>
      /\ a # Library!NoCompanion /\ n <= Library!Possible(a)
      /\ packs \in [Packs -> PackOf] /\ voices \in [Voices -> VoiceOf]
      /\ now \in ForceOf /\ file \in FileOf /\ a \in Archives
  <2>1. a # Library!NoCompanion /\ n <= Library!Possible(a) /\ Library!Request /\ UNCHANGED <<companions, archive>>
    BY DEF Library!Activate
  <2> QED  BY <2>1, LibraryAssumed DEF LInv, LibraryTyped, Library!Request
<1>3. /\ packs' = (IF found = Library!NoPack /\ n >= 1 THEN [packs EXCEPT ![a.pack] = brought] ELSE packs)
      /\ voices' = (IF n >= 7 /\ voiced THEN [voices EXCEPT ![a.id] = stored] ELSE voices)
      /\ now' = [pack |-> IF n >= 2 THEN a.pack ELSE now.pack,
                 shown |-> IF n >= 2 THEN brought.look ELSE now.shown,
                 appearance |-> IF n >= 5 THEN a.appearance ELSE now.appearance,
                 voice |-> IF speaks THEN a.id ELSE now.voice]
      /\ file' = [pack |-> IF n >= 3 THEN a.pack ELSE file.pack,
                  personality |-> IF n >= 4 THEN a.personality ELSE file.personality,
                  appearance |-> IF n >= 6 THEN a.appearance ELSE file.appearance,
                  clone |-> IF speaks THEN Library!CloneOf(a.id, stored) ELSE file.clone]
      /\ cloned' = (cloned /\ ~speaks)
      /\ worn' = IF n = 8 THEN c ELSE "none"
  BY <1>1, StepsDone DEF Library!Activate, Library!Missing
<1>4. /\ torn' \subseteq {"pack", "appearance"}
      /\ "pack" \in torn' <=> (n < 3 /\ (n >= 2 \/ "pack" \in torn))
      /\ "appearance" \in torn' <=> (n < 6 /\ (n >= 5 \/ "appearance" \in torn))
  <2>1. torn' = {k \in {"pack", "appearance"} :
                   LET set == IF k = "pack" THEN "load" ELSE "appearance"
                       save == IF k = "pack" THEN "save pack" ELSE "save appearance"
                   IN /\ ~(\E i \in 1..n : Library!Steps[i] = save)
                      /\ (\E i \in 1..n : Library!Steps[i] = set) \/ k \in torn}
    BY DEF Library!Activate
  <2>2. /\ torn' \subseteq {"pack", "appearance"}
        /\ "pack" \in torn' <=> (/\ ~(\E i \in 1..n : Library!Steps[i] = "save pack")
                                 /\ (\E i \in 1..n : Library!Steps[i] = "load") \/ "pack" \in torn)
        /\ "appearance" \in torn' <=>
             (/\ ~(\E i \in 1..n : Library!Steps[i] = "save appearance")
              /\ (\E i \in 1..n : Library!Steps[i] = "appearance") \/ "appearance" \in torn)
    BY <2>1
  <2>3. /\ (\E i \in 1..n : Library!Steps[i] = "load") <=> n >= 2
        /\ (\E i \in 1..n : Library!Steps[i] = "save pack") <=> n >= 3
        /\ (\E i \in 1..n : Library!Steps[i] = "appearance") <=> n >= 5
        /\ (\E i \in 1..n : Library!Steps[i] = "save appearance") <=> n >= 6
    BY <1>1, StepsDone
  <2>4. "pack" \in torn' <=> (~(n >= 3) /\ (n >= 2 \/ "pack" \in torn))
    BY <2>2, <2>3, Zenon
  <2>5. "appearance" \in torn' <=> (~(n >= 6) /\ (n >= 5 \/ "appearance" \in torn))
    BY <2>2, <2>3, Zenon
  <2>6. (n < 3 <=> ~(n >= 3)) /\ (n < 6 <=> ~(n >= 6))
    BY <1>1
  <2> QED  BY <2>2, <2>4, <2>5, <2>6, Zenon
<1>5. /\ a \in ArchiveOf /\ a.pack \in Packs /\ a.avatar \in PackOf /\ a.personality \in Contents
      /\ a.appearance \in Contents /\ a.id \in Voices \cup {0} /\ a.voice \in VoiceOf
      /\ voiced => a.id \in Voices
  BY <1>2 DEF Archives, ArchiveOf
<1>6. found \in PackOf
  BY <1>2, <1>5, FoundFacts
<1>7. found = Library!NoPack /\ n >= 1 =>
        packs[a.pack] = Library!NoPack /\ a.avatar \in PackOf /\ a.avatar # Library!NoPack
  <2>1. found = Library!NoPack /\ n >= 1 => Library!Installable(a.pack, a.avatar)
    BY <1>1, <1>2 DEF Library!Possible
  <2> QED  BY <1>5, <2>1, PackFacts DEF Library!Installable
<1>8. /\ packs' \in [Packs -> PackOf]
      /\ \A q \in Packs : Library!Found(q) # Library!NoPack =>
            Library!Found(q)' = Library!Found(q) /\ Library!Hidden(q)' = Library!Hidden(q)
      /\ n >= 1 => Library!Found(a.pack)' = brought /\ brought # Library!NoPack
  <2>1. CASE found = Library!NoPack /\ n >= 1
    <3>1. packs' = [packs EXCEPT ![a.pack] = a.avatar] /\ brought = a.avatar
      BY <1>3, <2>1
    <3>2. \A q \in Packs : /\ q # a.pack => /\ Library!Found(q)' = Library!Found(q)
                                            /\ Library!Hidden(q)' = Library!Hidden(q)
                           /\ q = a.pack => Library!Found(q)' = a.avatar
      <4> SUFFICES ASSUME NEW q \in Packs
                   PROVE  /\ q # a.pack => /\ Library!Found(q)' = Library!Found(q)
                                            /\ Library!Hidden(q)' = Library!Hidden(q)
                          /\ q = a.pack => Library!Found(q)' = a.avatar
        OBVIOUS
      <4> HIDE DEF a
      <4> QED  BY <1>2, <1>5, <1>7, <2>1, <3>1, FoundStays
    <3>3. \A q \in Packs : Library!Found(q) # Library!NoPack => q # a.pack
      BY <2>1
    <3>4. Library!Found(a.pack)' = a.avatar
      <4>1. a' = a
        BY <1>2
      <4> HIDE DEF a, found, brought
      <4>2. PICK q \in Packs : q = a.pack
        BY <1>5
      <4>3. Library!Found(q)' = a.avatar
        BY <3>2, <4>2
      <4>4. Library!Found(a.pack)' = Library!Found(q)'
        BY <4>1, <4>2 DEF Library!Found, Library!Shipped
      <4> QED  BY <4>3, <4>4
    <3>5. packs' \in [Packs -> PackOf]
      BY <1>2, <1>5, <3>1
    <3> QED  BY <1>7, <2>1, <3>1, <3>2, <3>3, <3>4, <3>5
  <2>2. CASE ~(found = Library!NoPack /\ n >= 1)
    <3>1. packs' = packs
      BY <1>3, <2>2
    <3>2. a' = a
      BY <1>2
    <3> QED  BY <1>2, <2>2, <3>1, <3>2, SameFound
  <2> QED  BY <2>1, <2>2
<1>9. /\ voices' \in [Voices -> VoiceOf]
      /\ \A u \in Voices : voices[u] # Library!NoVoice => voices'[u] = voices[u]
      /\ voiced => stored \in VoiceOf /\ stored # Library!NoVoice
      /\ voiced /\ n >= 7 => voices'[a.id] = stored
  <2>1. voiced => stored \in VoiceOf /\ stored # Library!NoVoice
    BY <1>2, <1>5 DEF Library!Stored
  <2>2. CASE ~(n >= 7 /\ voiced)
    <3>1. voices' = voices
      BY <1>3, <2>2
    <3> QED  BY <1>2, <2>1, <2>2, <3>1
  <2>3. CASE n >= 7 /\ voiced
    <3>1. voices' = [voices EXCEPT ![a.id] = stored]
      BY <1>3, <2>3
    <3>2. voices[a.id] # Library!NoVoice => stored = voices[a.id]
      BY DEF Library!Stored
    <3> HIDE DEF a, stored
    <3> QED  BY <1>2, <1>5, <2>1, <2>3, <3>1, <3>2
  <2> QED  BY <2>2, <2>3
<1>10. /\ now'.pack = (IF n >= 2 THEN a.pack ELSE now.pack)
       /\ now'.shown = (IF n >= 2 THEN brought.look ELSE now.shown)
       /\ now'.appearance = (IF n >= 5 THEN a.appearance ELSE now.appearance)
       /\ now'.voice = (IF speaks THEN a.id ELSE now.voice)
       /\ file'.pack = (IF n >= 3 THEN a.pack ELSE file.pack)
       /\ file'.personality = (IF n >= 4 THEN a.personality ELSE file.personality)
       /\ file'.appearance = (IF n >= 6 THEN a.appearance ELSE file.appearance)
       /\ file'.clone = (IF speaks THEN Library!CloneOf(a.id, stored) ELSE file.clone)
  <2> HIDE DEF a, brought, found, stored, speaks
  <2> QED  BY <1>3
<1>11. now' \in ForceOf /\ file' \in FileOf
  <2>1. brought \in PackOf
    BY <1>5, <1>6
  <2>2. brought.look \in Contents
    <3> HIDE DEF brought
    <3> QED  BY <2>1, PackFacts
  <2>3. speaks => Library!CloneOf(a.id, stored) \in CloneKinds /\ a.id \in Voices
    <3>1. speaks => voiced
      OBVIOUS
    <3> HIDE DEF a, stored, speaks, voiced
    <3> QED  BY <1>5, <1>9, <3>1, CloneFacts
  <2>4. /\ now.pack \in Packs /\ now.shown \in Contents /\ now.appearance \in Contents /\ now.voice \in Voices \cup {0}
        /\ file.pack \in Packs /\ file.personality \in Contents /\ file.appearance \in Contents /\ file.clone \in CloneKinds
    BY <1>2 DEF ForceOf, FileOf
  <2> HIDE DEF a, brought, found, stored, speaks
  <2>5. now' \in ForceOf
    BY <1>3, <1>5, <2>2, <2>3, <2>4 DEF ForceOf
  <2>6. file' \in FileOf
    BY <1>3, <1>5, <2>3, <2>4 DEF FileOf
  <2> QED  BY <2>5, <2>6
<1>12. /\ a' = a /\ worn' \in Companions \cup {"none"} /\ cloned' \in BOOLEAN /\ companions' = companions
       /\ worn' # "none" => worn' = c /\ n = 8
       /\ now.pack \in Packs /\ file.pack \in Packs /\ now.voice \in Voices \cup {0}
       /\ Library!Found(now.pack) # Library!NoPack /\ Library!Found(file.pack) # Library!NoPack
  <2>1. cloned' \in BOOLEAN
    BY <1>3
  <2>2. a' = a /\ companions' = companions
    BY <1>2
  <2>3. worn' \in Companions \cup {"none"} /\ (worn' # "none" => worn' = c /\ n = 8)
    BY <1>3
  <2>4. now.pack \in Packs /\ file.pack \in Packs /\ now.voice \in Voices \cup {0}
    BY <1>2 DEF ForceOf, FileOf
  <2> QED  BY <2>1, <2>2, <2>3, <2>4 DEF LInv, Findable
<1>13. LibraryTyped'
  BY <1>2, <1>4, <1>8, <1>9, <1>11, <1>12 DEF LibraryTyped
<1>14. /\ speaks => voiced /\ n >= 8 /\ Library!Usable(stored)
       /\ worn' # "none" => companions'[worn'] = a
       /\ n >= 2 => Library!Found(now.pack)' = brought /\ brought # Library!NoPack
       /\ n < 2 => Library!Found(now.pack)' = Library!Found(now.pack)
                  /\ Library!Hidden(now.pack)' = Library!Hidden(now.pack)
       /\ n >= 3 => Library!Found(file.pack)' = brought
       /\ n < 3 => Library!Found(file.pack)' = Library!Found(file.pack)
  <2>1. now'.pack = a.pack => Library!Found(now.pack)' = Library!Found(a.pack)'
    BY <1>12 DEF Library!Found, Library!Shipped
  <2>2. file'.pack = a.pack => Library!Found(file.pack)' = Library!Found(a.pack)'
    BY <1>12 DEF Library!Found, Library!Shipped
  <2>3. ASSUME n < 2
        PROVE  /\ Library!Found(now.pack)' = Library!Found(now.pack)
               /\ Library!Hidden(now.pack)' = Library!Hidden(now.pack)
    <3>1. now'.pack = now.pack
      BY <1>1, <1>10, <2>3
    <3>2. PICK q \in Packs : q = now.pack
      BY <1>12
    <3>3. Library!Found(q)' = Library!Found(q) /\ Library!Hidden(q)' = Library!Hidden(q)
      BY <1>8, <1>12, <3>2
    <3>4. Library!Found(now.pack)' = Library!Found(q)' /\ Library!Hidden(now.pack)' = Library!Hidden(q)'
      BY <3>1, <3>2 DEF Library!Found, Library!Shipped, Library!Hidden
    <3> QED  BY <3>2, <3>3, <3>4
  <2>4. ASSUME n < 3 PROVE Library!Found(file.pack)' = Library!Found(file.pack)
    <3>1. file'.pack = file.pack
      BY <1>1, <1>10, <2>4
    <3>2. PICK q \in Packs : q = file.pack
      BY <1>12
    <3>3. Library!Found(q)' = Library!Found(q)
      BY <1>8, <1>12, <3>2
    <3>4. Library!Found(file.pack)' = Library!Found(q)'
      BY <3>1, <3>2 DEF Library!Found, Library!Shipped
    <3> QED  BY <3>2, <3>3, <3>4
  <2>5. n >= 2 => now'.pack = a.pack /\ n >= 1
    BY <1>1, <1>10
  <2>6. n >= 3 => file'.pack = a.pack /\ n >= 1
    BY <1>1, <1>10
  <2>7. worn' # "none" => companions'[worn'] = a
    BY <1>12
  <2>8. speaks => voiced /\ n >= 8 /\ Library!Usable(stored)
    OBVIOUS
  <2> HIDE DEF a, brought, found, stored, speaks, voiced
  <2> QED  BY <1>8, <2>1, <2>2, <2>3, <2>4, <2>5, <2>6, <2>7, <2>8
<1>15. Findable'
  <2>1. Library!Found(now.pack)' # Library!NoPack
    BY <1>1, <1>12, <1>14
  <2>2. Library!Found(file.pack)' # Library!NoPack
    BY <1>1, <1>12, <1>14
  <2> HIDE DEF a
  <2> QED  BY <2>1, <2>2 DEF Findable, Library!NoPack, Library!Missing
<1>16. ASSUME worn' # "none"
       PROVE  /\ worn' = c /\ n = 8 /\ torn' = {} /\ companions'[worn'] = a
              /\ voiced => voices'[a.id] = stored /\ stored # Library!NoVoice
  BY <1>4, <1>9, <1>12, <1>14, <1>16
<1>17. Worn'
  <2> SUFFICES ASSUME worn' # "none"
               PROVE  /\ companions'[worn'] # Library!NoCompanion /\ torn' = {}
                      /\ companions'[worn'].voice # Library!NoVoice =>
                           voices'[companions'[worn'].id] # Library!NoVoice
    BY DEF Worn, Library!NoCompanion, Library!NoVoice, Library!NoPack, Library!Missing
  <2> HIDE DEF a, stored
  <2> QED  BY <1>2, <1>16
<1>18. Library!WornEntirely'
  <2> SUFFICES ASSUME worn' # "none"
               PROVE  /\ now'.pack = a.pack
                      /\ now'.shown = Library!Found(a.pack)'.look
                      /\ file'.personality = a.personality /\ now'.appearance = a.appearance
                      /\ a.voice # Library!NoVoice /\ Library!Usable(voices'[a.id]) =>
                           file'.clone = Library!CloneOf(a.id, voices'[a.id])
    <3>1. a' = a
      BY <1>12
    <3>2. worn' # "none" => companions'[worn'] = a
      <4> HIDE DEF a
      <4> QED  BY <1>14
    <3> HIDE DEF a
    <3> QED  BY <3>1, <3>2 DEF Library!WornEntirely, Library!Usable, Library!CloneOf, Library!NoVoice, Library!Missing,
                       Library!Found, Library!Shipped
  <2>1. n = 8 /\ (voiced => voices'[a.id] = stored)
    BY <1>16
  <2>2. voiced /\ Library!Usable(stored) => speaks
    BY <2>1
  <2>3. Library!Found(a.pack)' = brought
    BY <1>8, <2>1
  <2>4. a.voice # Library!NoVoice <=> voiced
    OBVIOUS
  <2> HIDE DEF a, stored, speaks, brought, found, voiced
  <2> QED  BY <1>10, <2>1, <2>2, <2>3, <2>4
<1>19. Library!StartFindsTheSame'
  <2>1. now'.shown = Library!Found(now.pack)'.look \/ Library!Hidden(now.pack)'
    <3>1. n >= 2 => now'.shown = Library!Found(now.pack)'.look
      BY <1>10, <1>14
    <3>2. n < 2 => now'.shown = now.shown
      BY <1>1, <1>10
    <3>3. n < 2 => now'.shown = Library!Found(now.pack)'.look \/ Library!Hidden(now.pack)'
      <4>1. now.shown = Library!Found(now.pack).look \/ Library!Hidden(now.pack)
        BY DEF LInv, Library!StartFindsTheSame
      <4> HIDE DEF a, brought, found, stored, speaks
      <4> QED  BY <1>14, <3>2, <4>1
    <3> HIDE DEF a, brought, found, stored, speaks
    <3> QED  BY <1>1, <3>1, <3>3
  <2>2. "pack" \notin torn' => file'.pack = now'.pack
    <3>1. "pack" \notin torn => file.pack = now.pack
      BY DEF LInv, Library!StartFindsTheSame
    <3> HIDE DEF a, brought, found, stored, speaks
    <3> QED  BY <1>1, <1>4, <1>10, <3>1
  <2>3. "appearance" \notin torn' => file'.appearance = now'.appearance
    <3>1. "appearance" \notin torn => file.appearance = now.appearance
      BY DEF LInv, Library!StartFindsTheSame
    <3> HIDE DEF a, brought, found, stored, speaks
    <3> QED  BY <1>1, <1>4, <1>10, <3>1
  <2>4. ASSUME now'.voice # 0, ~cloned', Library!Startable'
        PROVE  Library!Matches(now.voice, file.clone)'
    <3>1. CASE speaks
      <4>1. /\ voiced /\ n >= 8 /\ Library!Usable(stored) /\ n >= 7
            /\ now'.voice = a.id /\ file'.clone = Library!CloneOf(a.id, stored)
        BY <1>1, <1>10, <1>14, <3>1
      <4>2. a.id \in Voices /\ voices'[a.id] = stored /\ stored \in VoiceOf /\ stored # Library!NoVoice
        BY <1>5, <1>9, <4>1
      <4> HIDE DEF a, brought, found, stored, speaks, voiced
      <4>3. /\ file'.clone.provider = stored.provider /\ file'.clone.speaks = stored.speaks
            /\ file'.clone.path = IF stored.reference THEN a.id ELSE 0
        BY <4>1, <4>2, CloneFacts
      <4> QED  BY <4>1, <4>2, <4>3 DEF Library!Usable, Library!Matches, Library!NoVoice, Library!Missing
    <3>2. CASE ~speaks
      <4>1. now'.voice = now.voice /\ file'.clone = file.clone /\ ~cloned
        BY <1>3, <1>10, <2>4, <3>2
      <4>2. Library!Startable
        BY <2>4, <4>1 DEF Library!Startable
      <4>3. Library!Matches(now.voice, file.clone)
        BY <2>4, <4>1, <4>2 DEF LInv, Library!StartFindsTheSame
      <4>4. now.voice \in Voices /\ voices'[now.voice] = voices[now.voice]
        BY <1>9, <1>12, <2>4, <4>1, <4>3 DEF Library!Matches
      <4> HIDE DEF a, brought, found, stored, speaks, voiced
      <4> QED  BY <4>1, <4>3, <4>4 DEF Library!Matches, Library!NoVoice, Library!Missing
    <3> QED  BY <3>1, <3>2
  <2> HIDE DEF a
  <2> QED  BY <2>1, <2>2, <2>3, <2>4 DEF Library!StartFindsTheSame
<1> QED  BY <1>13, <1>15, <1>17, <1>18, <1>19 DEF LInv

-----------------------------------------------------------------------------
(* The library, from its first request to any later one                    *)

\* Whatever is asked of the library keeps it.
LEMMA LibraryKeeps == ASSUME LInv, [Library!Next]_libraryVars PROVE LInv'
<1>1. CASE UNCHANGED libraryVars
  <2>1. /\ UNCHANGED <<commercial, packs, voices, companions, archive, file, now, worn, torn, cloned, requests>>
        /\ LibraryTyped
    BY <1>1 DEF libraryVars, LInv
  <2>2. /\ requests' \in 0..MaxRequests /\ archive' \in Archives /\ companions' \in [Companions -> Archives]
        /\ \A c \in Companions : companions[c] # Library!NoCompanion => companions'[c] = companions[c]
        /\ UNCHANGED <<commercial, packs, voices, file, now, worn, torn, cloned>>
    BY <2>1 DEF LibraryTyped
  <2> QED  BY <2>2, ExchangeKeeps
<1>2. ASSUME NEW p \in Packs, NEW x \in Library!Creations, Library!InstallPack(p, x) PROVE LInv'
  BY <1>2, InstallPackKeeps
<1>3. ASSUME NEW p \in Packs, NEW saved \in BOOLEAN, Library!SwapPack(p, saved) PROVE LInv'
  BY <1>3, SwapPackKeeps
<1>4. ASSUME NEW v \in Voices, NEW x \in Library!Profiles, NEW b \in BOOLEAN, Library!AddVoice(v, x, b)
      PROVE  LInv'
  BY <1>4, AddVoiceKeeps
<1>5. ASSUME NEW v \in Voices, Library!ActivateVoice(v) PROVE LInv'
  BY <1>5, ActivateVoiceKeeps
<1>6. ASSUME NEW provider \in {"chatterbox-local", "elevenlabs"}, Library!SaveClone(provider) PROVE LInv'
  BY <1>6, SaveCloneKeeps
<1>7. ASSUME NEW b \in BOOLEAN, Library!Export(b) PROVE LInv'
  BY <1>7, ExportKeeps
<1>8. ASSUME NEW c \in Companions, NEW a \in Library!Foreign \cup {archive}, NEW b \in BOOLEAN,
             Library!Import(c, a, b)
      PROVE  LInv'
  BY <1>8, ImportKeeps
<1>9. ASSUME NEW c \in Companions, NEW n \in 0..Len(Library!Steps), Library!Activate(c, n) PROVE LInv'
  BY <1>9, ActivateKeeps
<1>10. ASSUME Library!Restart PROVE LInv'
  BY <1>10, RestartKeeps
<1>11. CASE Library!Next
  <2> HIDE DEF LInv
  <2> QED  BY <1>2, <1>3, <1>4, <1>5, <1>6, <1>7, <1>8, <1>9, <1>10, <1>11, Zenon DEF Library!Next
<1> QED  BY <1>1, <1>11

\* The library as it comes: only what is shipped, which is shown and saved.
LEMMA LibraryStarts == ASSUME Library!Init PROVE LInv
<1>1. /\ commercial \in BOOLEAN /\ cloned = FALSE /\ requests = 0 /\ torn = {} /\ worn = "none"
      /\ packs = [p \in Packs |-> Library!NoPack]
      /\ voices = [v \in Voices |-> Library!NoVoice]
      /\ companions = [c \in Companions |-> Library!NoCompanion]
      /\ archive = Library!NoCompanion
      /\ file = [pack |-> "octomimic", personality |-> "home", appearance |-> "home", clone |-> Library!NoClone]
      /\ now = [pack |-> "octomimic", shown |-> "home", appearance |-> "home", voice |-> 0]
  BY DEF Library!Init, Library!Missing
<1>2. Library!NoClone \in CloneKinds
  BY DEF Library!NoClone, Library!Missing, CloneKinds
<1>3. /\ file \in FileOf /\ now \in ForceOf /\ now.pack = "octomimic" /\ file.pack = "octomimic"
      /\ now.shown = "home" /\ now.appearance = file.appearance /\ now.voice = 0
  BY <1>1, <1>2, LibraryAssumed DEF FileOf, ForceOf, Contents
<1>4. LibraryTyped
  <2>1. packs \in [Packs -> PackOf] /\ voices \in [Voices -> VoiceOf]
    BY <1>1, PackFacts, VoiceFacts
  <2>2. companions \in [Companions -> Archives] /\ archive \in Archives
    BY <1>1 DEF Archives
  <2>3. requests \in 0..MaxRequests
    BY <1>1, LibraryAssumed
  <2> QED  BY <1>1, <1>3, <2>1, <2>2, <2>3 DEF LibraryTyped
<1>5. /\ Library!Found(now.pack) = Library!Free("home") /\ Library!Found(file.pack) = Library!Free("home")
  BY <1>1, <1>3, LibraryAssumed DEF Library!Found, Library!Shipped
<1>6. Library!Free("home") # Library!NoPack /\ Library!Free("home").look = "home"
  BY PackFacts, LibraryAssumed DEF Library!Free
<1> QED  BY <1>1, <1>3, <1>4, <1>5, <1>6 DEF LInv, Findable, Worn, Library!WornEntirely, Library!StartFindsTheSame,
                                          Library!Missing

\* The library is kept in every behaviour of the companion, as its other parts leave it alone.
LEMMA LibraryHolds == CompanionSpec => []LInv
<1>1. CompanionInit => LInv
  BY LibraryStarts DEF CompanionInit
<1>2. CompanionNext => [Library!Next]_libraryVars
  BY DEF CompanionNext
<1>3. UNCHANGED <<part, voiceVars, showVars, sightVars, libraryVars, switchVars>> => UNCHANGED libraryVars
  OBVIOUS
<1>4. LInv /\ [CompanionNext]_<<part, voiceVars, showVars, sightVars, libraryVars, switchVars>> => LInv'
  BY <1>2, <1>3, LibraryKeeps, Zenon
<1> QED  BY <1>1, <1>4, PTL DEF CompanionSpec

\* A companion that was put on is on entirely, also after a restart, and the next start finds what
\* is in force, except for what a request could not save and a pack that an import hid
\* (companions.py:226-305, main.py:85-143), for every set of packs, voices and companions.
THEOREM CompanionsWorn == CompanionSpec => []CompanionsAreWorn
<1>1. LInv => Library!TypeOK
  <2> SUFFICES ASSUME LInv PROVE Library!TypeOK
    OBVIOUS
  <2>1. now.pack \in Packs /\ file.pack \in Packs /\ now.voice \in Voices \cup {0}
    BY DEF LInv, LibraryTyped, ForceOf, FileOf
  <2> QED  BY <2>1 DEF LInv, LibraryTyped, Library!TypeOK, PackOf, VoiceOf, Library!Missing
<1>2. LInv => CompanionsAreWorn
  BY <1>1 DEF LInv, CompanionsAreWorn
<1> QED  BY <1>2, LibraryHolds, PTL

-----------------------------------------------------------------------------
(* What is installed                                                       *)

\* What is installed stays as it was, and is whole, with a license that the distribution allows
\* (character_import.py:109-137, 170-219, 228-235; voice_profiles.py:201-218;
\* companions.py:206-220), whatever else is asked of the library.
THEOREM LibraryKept == CompanionSpec => LibraryIsKept
<1> DEFINE Kept ==
      /\ \A p \in Packs :
           /\ packs[p] # Library!NoPack => packs'[p] = packs[p]
           /\ packs'[p] # packs[p] => packs'[p].whole /\ (commercial => packs'[p].license = "free")
      /\ \A v \in Voices : voices[v] # Library!NoVoice => voices'[v] = voices[v]
      /\ \A c \in Companions : companions[c] # Library!NoCompanion => companions'[c] = companions[c]
<1>1. UNCHANGED <<packs, voices, companions>> => Kept
  OBVIOUS
<1>2. ASSUME LInv, NEW p \in Packs, NEW x \in PackOf, Library!Installable(p, x),
             packs' = [packs EXCEPT ![p] = x], UNCHANGED companions,
             \A v \in Voices : voices[v] # Library!NoVoice => voices'[v] = voices[v]
      PROVE  Kept
  <2>1. packs[p] = Library!NoPack /\ x.whole /\ (commercial => x.license # "restricted")
    BY <1>2 DEF Library!Installable
  <2>2. x.license \in {"free", "restricted"}
    BY <1>2, <2>1, PackFacts
  <2>3. packs \in [Packs -> PackOf]
    BY <1>2 DEF LInv, LibraryTyped
  <2>4. ASSUME NEW q \in Packs
        PROVE  /\ packs[q] # Library!NoPack => packs'[q] = packs[q]
               /\ packs'[q] # packs[q] => packs'[q].whole /\ (commercial => packs'[q].license = "free")
    <3>1. CASE q = p
      <4>1. packs'[q] = x
        BY <1>2, <2>3, <3>1
      <4> QED  BY <2>1, <2>2, <3>1, <4>1
    <3>2. CASE q # p
      BY <1>2, <2>3, <3>2
    <3> QED  BY <3>1, <3>2
  <2> QED  BY <1>2, <2>4
<1>3. ASSUME LInv, NEW p \in Packs, NEW x \in Library!Creations, Library!InstallPack(p, x) PROVE Kept
  <2>1. x \in PackOf /\ UNCHANGED <<voices, companions>>
    BY <1>3 DEF PackOf, Library!InstallPack
  <2>2. packs' = packs \/ (Library!Installable(p, x) /\ packs' = [packs EXCEPT ![p] = x])
    <3>1. packs' = IF Library!Installable(p, x) THEN [packs EXCEPT ![p] = x] ELSE packs
      BY <1>3, Zenon DEF Library!InstallPack
    <3> QED  BY <3>1, Zenon
  <2> HIDE DEF Kept
  <2>3. CASE Library!Installable(p, x) /\ packs' = [packs EXCEPT ![p] = x]
    BY <1>2, <1>3, <2>1, <2>3
  <2> QED  BY <1>1, <2>1, <2>2, <2>3
<1>4. ASSUME LInv, NEW v \in Voices, NEW x, NEW b, Library!AddVoice(v, x, b) PROVE Kept
  BY <1>4 DEF Library!AddVoice, LInv, LibraryTyped
<1>5. ASSUME LInv, NEW c \in Companions, NEW a, NEW b, Library!Import(c, a, b) PROVE Kept
  BY <1>5 DEF Library!Import, LInv, LibraryTyped
<1>6. ASSUME LInv, NEW c \in Companions, NEW n \in 0..Len(Library!Steps), Library!Activate(c, n) PROVE Kept
  <2> DEFINE a == companions[c]
             found == Library!Found(a.pack)
             brought == IF found = Library!NoPack THEN a.avatar ELSE found
             stored == Library!Stored(a)
  <2>0. n \in 0..8 /\ n \in Nat
    BY DEF Library!Steps
  <2>1. /\ a # Library!NoCompanion /\ n <= Library!Possible(a) /\ UNCHANGED companions
        /\ packs' = (IF found = Library!NoPack /\ n >= 1 THEN [packs EXCEPT ![a.pack] = brought] ELSE packs)
        /\ voices' = (IF n >= 7 /\ a.voice # Library!NoVoice THEN [voices EXCEPT ![a.id] = stored] ELSE voices)
    BY <1>6, <2>0, StepsDone DEF Library!Activate
  <2>2. a \in Archives /\ packs \in [Packs -> PackOf] /\ voices \in [Voices -> VoiceOf]
    BY <1>6 DEF LInv, LibraryTyped
  <2>3. a.pack \in Packs /\ a.avatar \in PackOf /\ (a.voice # Library!NoVoice => a.id \in Voices)
    BY <2>1, <2>2 DEF Archives, ArchiveOf
  <2>4. \A v \in Voices : voices[v] # Library!NoVoice => voices'[v] = voices[v]
    <3>1. voices[a.id] # Library!NoVoice => stored = voices[a.id]
      BY DEF Library!Stored
    <3> HIDE DEF a, stored
    <3> QED  BY <2>1, <2>2, <2>3, <3>1
  <2>5. CASE found = Library!NoPack /\ n >= 1
    <3>1. Library!Installable(a.pack, a.avatar)
      BY <2>0, <2>1, <2>5 DEF Library!Possible
    <3>2. packs' = [packs EXCEPT ![a.pack] = a.avatar]
      BY <2>1, <2>5
    <3>3. PICK p \in Packs, x \in PackOf : p = a.pack /\ x = a.avatar
      BY <2>3
    <3>4. Library!Installable(p, x) /\ packs' = [packs EXCEPT ![p] = x] /\ UNCHANGED companions
      BY <2>1, <3>1, <3>2, <3>3
    <3> HIDE DEF Kept, a
    <3> QED  BY <1>2, <1>6, <2>4, <3>4
  <2>6. CASE ~(found = Library!NoPack /\ n >= 1)
    <3>1. packs' = packs
      BY <2>1, <2>6
    <3> HIDE DEF a
    <3> QED  BY <2>1, <2>4, <3>1
  <2> QED  BY <2>5, <2>6
<1>7. ASSUME LInv, Library!Next PROVE Kept
  <2>1. \/ \E p \in Packs, x \in Library!Creations : Library!InstallPack(p, x)
        \/ \E v \in Voices, x \in Library!Profiles, b \in BOOLEAN : Library!AddVoice(v, x, b)
        \/ \E c \in Companions, a \in Library!Foreign \cup {archive}, b \in BOOLEAN : Library!Import(c, a, b)
        \/ \E c \in Companions, n \in 0..Len(Library!Steps) : Library!Activate(c, n)
        \/ UNCHANGED <<packs, voices, companions>>
    <3>1. \A p, saved : Library!SwapPack(p, saved) => UNCHANGED <<packs, voices, companions>>
      BY DEF Library!SwapPack
    <3>2. \A v : Library!ActivateVoice(v) => UNCHANGED <<packs, voices, companions>>
      BY DEF Library!ActivateVoice
    <3>3. \A x : Library!SaveClone(x) => UNCHANGED <<packs, voices, companions>>
      BY DEF Library!SaveClone
    <3>4. \A b : Library!Export(b) => UNCHANGED <<packs, voices, companions>>
      BY DEF Library!Export
    <3>5. Library!Restart => UNCHANGED <<packs, voices, companions>>
      BY DEF Library!Restart
    <3> QED  BY <1>7, <3>1, <3>2, <3>3, <3>4, <3>5, Zenon DEF Library!Next
  <2> HIDE DEF Kept, LInv
  <2> QED  BY <1>1, <1>3, <1>4, <1>5, <1>6, <1>7, <2>1, Zenon
<1>8. LInv /\ [CompanionNext]_<<part, voiceVars, showVars, sightVars, libraryVars, switchVars>>
        => [Kept]_(Library!vars)
  <2>1. UNCHANGED libraryVars => UNCHANGED Library!vars
    BY DEF libraryVars, Library!vars
  <2>2. CompanionNext => Library!Next \/ UNCHANGED libraryVars
    BY DEF CompanionNext
  <2> HIDE DEF Kept, LInv
  <2>3. UNCHANGED <<part, voiceVars, showVars, sightVars, libraryVars, switchVars>> => UNCHANGED libraryVars
    OBVIOUS
  <2> QED  BY <1>7, <2>1, <2>2, <2>3, Zenon
<1>9. [][Kept]_(Library!vars) => LibraryIsKept
  BY PTL DEF LibraryIsKept, Library!LibraryIsKept
<1> HIDE DEF Kept
<1> QED  BY <1>8, <1>9, LibraryHolds, PTL DEF CompanionSpec

-----------------------------------------------------------------------------
(* The show of a character                                                 *)

\* What is assumed of the packs.
LEMMA PacksAssumed ==
  ASSUME NEW p \in Characters
  PROVE  /\ p.root \in Seq(STRING)
         /\ \A s \in DOMAIN p.emotions : /\ p.emotions[s].frames \in Show!Sources \cup {"unset"}
                                         /\ p.emotions[s].speaking \in Show!Sources \cup {"unset"}
  BY CompanionAssumption DEF Show!ShowBounds, Show!Unset

\* Where there are images, and how many.
LEMMA ImagesFacts ==
  /\ \A x : x \in {"folder", "files", "outside"} => Show!Images(x) # <<>> /\ DOMAIN Show!Images(x) = 1..2
  /\ \A x : x \notin {"folder", "files", "outside"} => Show!Images(x) = <<>>
  BY DEF Show!Images

\* A pack that was checked can be loaded.
LEMMA ChecksHold == Show!CheckedPacksLoad
<1> SUFFICES ASSUME NEW p \in Characters,
                    "empty list" \notin {p.emotions[s].frames : s \in Show!States(p)}
             PROVE  /\ Show!Importable(p) => Show!Loads(p)
                    /\ Show!Valid(p) /\ (\A x \in {p.emotions[s].speaking : s \in Show!States(p)} : ~Show!Raises(x))
                         => Show!Loads(p)
  BY DEF Show!CheckedPacksLoad
<1>1. ASSUME NEW s \in Show!States(p)
      PROVE  /\ p.emotions[s].frames \in Show!Sources \ {"empty list"}
             /\ p.emotions[s].speaking \in Show!Sources \cup {"unset"}
  BY <1>1, PacksAssumed DEF Show!States, Show!Unset
<1>2. ASSUME NEW x \in Show!Sources \ {"empty list"}, ~Show!Broken(x)
      PROVE  ~Show!Raises(x) /\ Show!Images(x) # <<>>
  BY <1>2, ImagesFacts DEF Show!Broken, Show!Raises, Show!Sources
<1>3. ASSUME NEW x, ~Show!Broken(x) PROVE ~Show!Raises(x)
  BY <1>3 DEF Show!Broken, Show!Raises
<1>4. ASSUME Show!Importable(p) PROVE Show!Loads(p)
  BY <1>1, <1>2, <1>3, <1>4 DEF Show!Importable, Show!Loads
<1>5. ASSUME Show!Valid(p), \A x \in {p.emotions[s].speaking : s \in Show!States(p)} : ~Show!Raises(x)
      PROVE  Show!Loads(p)
  BY <1>1, <1>2, <1>5 DEF Show!Valid, Show!Loads
<1> QED  BY <1>4, <1>5

\* The end of two sequences is that of the second.
LEMMA EndOfBoth ==
  ASSUME NEW S, NEW s \in Seq(S), NEW t \in Seq(S), Len(t) > 0
  PROVE  s \o t \in Seq(S) /\ Len(s \o t) > 0 /\ (s \o t)[Len(s \o t)] = t[Len(t)]
<1>1. /\ s \o t \in Seq(S) /\ Len(s \o t) = Len(s) + Len(t)
      /\ \A i \in 1..Len(s) + Len(t) : (s \o t)[i] = IF i <= Len(s) THEN s[i] ELSE t[i - Len(s)]
  BY ConcatProperties, Zenon
<1> DEFINE r == s \o t
<1> HIDE DEF r
<1>2. /\ r \in Seq(S) /\ Len(r) = Len(s) + Len(t)
      /\ \A i \in 1..Len(s) + Len(t) : r[i] = IF i <= Len(s) THEN s[i] ELSE t[i - Len(s)]
  BY <1>1 DEF r
<1>3. Len(s) \in Nat /\ Len(t) \in Nat
  OBVIOUS
<1>4. Len(r) \in 1..Len(s) + Len(t) /\ ~(Len(r) <= Len(s)) /\ Len(r) - Len(s) = Len(t)
  BY <1>2, <1>3
<1>5. r[Len(r)] = t[Len(t)]
  BY <1>2, <1>4
<1> QED  BY <1>2, <1>4, <1>5 DEF r

\* The clips one looks for, from the most telling on.
LEMMA ChainFacts ==
  ASSUME NEW d
  PROVE  /\ Show!Chain(d) # <<>> /\ Len(Show!Chain(d)) \in Nat \ {0}
         /\ DOMAIN Show!Chain(d) = 1..Len(Show!Chain(d))
         /\ Show!Last(Show!Chain(d)) = <<"idle">>
<1> DEFINE a == <<d.emotion, d.state, "speaking">>
           b == <<d.state, "speaking">>
           c == <<d.emotion, d.state>>
           e == <<d.state>>
           f == <<"idle">>
           S == {a, b, c, e, f}
           talking == IF d.speaking THEN <<a, b>> ELSE <<>>
           base == <<c, e>>
           rest == IF d.state = "idle" THEN <<>> ELSE <<f>>
           front == talking \o base
<1> HIDE DEF a, b, c, e, f
<1>1. Show!Chain(d) = front \o rest
  BY DEF Show!Chain, a, b, c, e, f
<1>0. {a, b, c, e, f} \subseteq S
  OBVIOUS
<1>2. talking \in Seq(S) /\ base \in Seq(S) /\ Len(base) = 2 /\ base[2] = e
  <2> HIDE DEF S
  <2>1. base \in Seq(S) /\ Len(base) = 2 /\ base[2] = e
    BY <1>0
  <2>2. CASE d.speaking
    <3>1. <<a, b>> \in Seq(S)
      BY <1>0
    <3> QED  BY <2>1, <2>2, <3>1
  <2>3. CASE ~d.speaking
    <3>1. << >> \in Seq(S)
      OBVIOUS
    <3> QED  BY <2>1, <2>3, <3>1
  <2> QED  BY <2>2, <2>3
<1>3. front \in Seq(S) /\ Len(front) > 0 /\ front[Len(front)] = e
  <2> HIDE DEF talking, base, S
  <2>1. Len(base) > 0 /\ base[Len(base)] = e
    BY <1>2
  <2>2. /\ talking \o base \in Seq(S) /\ Len(talking \o base) > 0
        /\ (talking \o base)[Len(talking \o base)] = base[Len(base)]
    BY <1>2, <2>1, EndOfBoth, Zenon
  <2> QED  BY <2>1, <2>2
<1>4. Show!Chain(d) \in Seq(S) /\ Len(Show!Chain(d)) > 0 /\ Show!Chain(d)[Len(Show!Chain(d))] = f
  <2> HIDE DEF S, front
  <2>1. CASE d.state = "idle"
    <3>1. front \o rest = front
      <4>1. front \o <<>> = front
        BY <1>3, ConcatEmptySeq
      <4> QED  BY <2>1, <4>1
    <3>2. e = f
      BY <2>1 DEF e, f
    <3> QED  BY <1>1, <1>3, <3>1, <3>2
  <2>2. CASE d.state # "idle"
    <3>1. rest \in Seq(S) /\ Len(rest) = 1 /\ rest[1] = f
      BY <2>2 DEF S
    <3> HIDE DEF rest
    <3>2. Len(rest) > 0 /\ rest[Len(rest)] = f
      BY <3>1
    <3>3. /\ front \o rest \in Seq(S) /\ Len(front \o rest) > 0
          /\ (front \o rest)[Len(front \o rest)] = rest[Len(rest)]
      BY <1>3, <3>1, <3>2, EndOfBoth, Zenon
    <3> QED  BY <1>1, <3>2, <3>3
  <2> QED  BY <2>1, <2>2
<1> HIDE DEF S
<1> QED  BY <1>4 DEF Show!Last, f

\* The first of them that there is.
LEMMA ClipFacts ==
  ASSUME NEW chain, chain # <<>>, Len(chain) \in Nat \ {0}, DOMAIN chain = 1..Len(chain),
         Show!Last(chain) = <<"idle">>
  PROVE  /\ Show!Clip(chain) \in Clips \cup {<<"idle">>, chain[1]}
         /\ \A i \in DOMAIN chain : chain[i] \in Clips => \E j \in 1..i : chain[j] = Show!Clip(chain)
<1> DEFINE T == {i \in DOMAIN chain : chain[i] \in Clips}
<1>1. CASE Clips = {}
  BY <1>1 DEF Show!Clip
<1>2. CASE Clips # {} /\ T = {}
  BY <1>2 DEF Show!Clip
<1>3. CASE T # {}
  <2>1. T \in SUBSET Nat
    OBVIOUS
  <2>2. \E n \in T : \A m \in T : n <= m
    <3> HIDE DEF T
    <3> QED  BY <1>3, <2>1, LeastNumber
  <2> DEFINE n == CHOOSE i \in T : \A j \in T : i <= j
  <2>3. n \in T /\ \A m \in T : n <= m
    <3> HIDE DEF T
    <3> QED  BY <2>2
  <2>4. Show!Clip(chain) = chain[n]
    BY <1>3 DEF Show!Clip
  <2> HIDE DEF n
  <2>5. n \in 1..Len(chain) /\ chain[n] \in Clips
    BY <2>3
  <2>6. ASSUME NEW i \in DOMAIN chain, chain[i] \in Clips PROVE n \in 1..i
    BY <2>3, <2>5, <2>6
  <2> QED  BY <2>4, <2>5, <2>6
<1> QED  BY <1>1, <1>2, <1>3

\* The last directory of the pack, and no other above it, has its id.
AtHome(p) ==
  p.root # <<>> /\ \A i \in DOMAIN p.root : p.root[i] = p.id <=> i = Len(p.root)

\* A file of a pack whose directory has its id only once, last, is served by its address.
LEMMA ServedFacts ==
  ASSUME NEW p \in Characters, NEW s, NEW x, NEW t, AtHome(p)
  PROVE  Show!Served(p, Show!Url(p, p.root \o <<s, x, t>>)) = p.root \o <<s, x, t>>
<1> DEFINE S == STRING \cup {s, x, t, p.id, "static"}
           root == p.root
           rest == <<s, x, t>>
           image == root \o rest
<1>a. p.root \in Seq(STRING) /\ DOMAIN p.root = 1..Len(p.root) /\ Len(p.root) \in Nat \ {0}
  BY PacksAssumed DEF AtHome
<1>0. PICK n \in Nat \ {0} : n = Len(p.root) /\ \A i \in 1..n : p.root[i] = p.id <=> i = n
  BY <1>a DEF AtHome
<1>b. p.root[n] = p.id /\ \A i \in 1..(n - 1) : p.root[i] # p.id
  BY <1>0
<1>1. root \in Seq(S) /\ rest \in Seq(S) /\ Len(rest) = 3 /\ Len(root) = n
  BY <1>a, <1>0
<1>2. /\ image \in Seq(S) /\ Len(image) = n + 3 /\ DOMAIN image = 1..(n + 3)
      /\ \A i \in 1..n : image[i] = root[i]
      /\ image[n + 1] = s /\ image[n + 2] = x /\ image[n + 3] = t
  <2> HIDE DEF S, root, rest
  <2>0. /\ image \in Seq(S) /\ Len(image) = Len(root) + Len(rest)
        /\ \A i \in 1..Len(root) + Len(rest) : image[i] = IF i <= Len(root) THEN root[i] ELSE rest[i - Len(root)]
    BY <1>1, ConcatProperties, Zenon
  <2> HIDE DEF image
  <2>1. image \in Seq(S) /\ Len(image) = n + 3
    BY <1>1, <2>0
  <2>2. \A i \in 1..(n + 3) : image[i] = IF i <= n THEN root[i] ELSE rest[i - n]
    BY <1>1, <2>0
  <2>3. rest[1] = s /\ rest[2] = x /\ rest[3] = t
    BY DEF rest
  <2>4. image[n + 1] = s
    BY <2>2, <2>3
  <2>5. image[n + 2] = x
    BY <2>2, <2>3
  <2>6. image[n + 3] = t
    BY <2>2, <2>3
  <2> QED  BY <2>1, <2>2, <2>4, <2>5, <2>6
<1> HIDE DEF image
<1>3. image[n] = p.id /\ (\A i \in 1..(n - 1) : image[i] # p.id) /\ n \in DOMAIN image
  BY <1>b, <1>2 DEF root
<1> DEFINE P(i) == image[i] = p.id /\ \A j \in 1..(i - 1) : image[j] # p.id
           at == CHOOSE i \in DOMAIN image : P(i)
<1>4. \A i \in DOMAIN image : P(i) => i = n
  <2> SUFFICES ASSUME NEW i \in 1..(n + 3), P(i), i # n PROVE FALSE
    BY <1>2
  <2>1. CASE i < n
    BY <1>3, <2>1
  <2>2. CASE i > n
    <3>1. n \in 1..(i - 1)
      BY <2>2
    <3> QED  BY <1>3, <3>1
  <2> QED  BY <2>1, <2>2
<1>5. P(n)
  BY <1>3
<1>6. at = n
  <2> HIDE DEF P
  <2> QED  BY <1>3, <1>4, <1>5
<1>7. p.id \in Show!Range(image)
  BY <1>3 DEF Show!Range
<1> DEFINE tail == SubSeq(image, n + 1, n + 3)
           url == <<"static", p.id>> \o tail
<1>8. Show!Url(p, image) = url
  <2>1. Show!Url(p, image) = <<"static", p.id>> \o SubSeq(image, at + 1, Len(image))
    BY <1>7 DEF Show!Url
  <2> HIDE DEF at
  <2> QED  BY <1>2, <1>6, <2>1
<1>9. /\ tail \in Seq(S) /\ Len(tail) = 3 /\ tail[1] = s /\ tail[2] = x /\ tail[3] = t
  <2>1. n + 1 \in 1..(Len(image) + 1) /\ n + 3 \in n..Len(image)
    BY <1>2
  <2> HIDE DEF S
  <2>2. Len(tail) = 3 /\ tail \in Seq(S) /\ \A i \in 1..3 : tail[i] = image[n + i]
    BY <1>2, <2>1, SubSeqProperties
  <2> HIDE DEF tail
  <2>3. tail[1] = s
    BY <1>2, <2>2
  <2>4. tail[2] = x
    BY <1>2, <2>2
  <2>5. tail[3] = t
    BY <1>2, <2>2
  <2> QED  BY <2>2, <2>3, <2>4, <2>5
<1> HIDE DEF tail
<1>10. url \in Seq(S) /\ Len(url) = 5 /\ url[1] = "static" /\ url[3] = s /\ url[4] = x /\ url[5] = t
  <2>1. <<"static", p.id>> \in Seq(S)
    OBVIOUS
  <2> DEFINE front == <<"static", p.id>>
  <2>2. Len(front) = 2 /\ front[1] = "static"
    OBVIOUS
  <2> HIDE DEF S, front
  <2>3. /\ front \o tail \in Seq(S) /\ Len(front \o tail) = Len(front) + Len(tail)
        /\ \A i \in 1..Len(front) + Len(tail) :
             (front \o tail)[i] = IF i <= Len(front) THEN front[i] ELSE tail[i - Len(front)]
    <3>1. front \in Seq(S) /\ tail \in Seq(S)
      BY <1>9, <2>1 DEF front
    <3> QED  BY <3>1, ConcatProperties, Zenon
  <2>4. url = front \o tail
    BY DEF front
  <2> HIDE DEF url
  <2>5. Len(url) = 5 /\ \A i \in 1..5 : url[i] = IF i <= 2 THEN front[i] ELSE tail[i - 2]
    BY <1>9, <2>2, <2>3, <2>4
  <2>6. url[1] = "static"
    BY <2>2, <2>5
  <2>7. url[3] = s
    BY <1>9, <2>5
  <2>8. url[4] = x
    BY <1>9, <2>5
  <2>9. url[5] = t
    BY <1>9, <2>5
  <2> QED  BY <2>3, <2>4, <2>5, <2>6, <2>7, <2>8, <2>9
<1> HIDE DEF url
<1>11. SubSeq(url, 3, Len(url)) = rest
  <2> HIDE DEF S, rest
  <2>1. Len(SubSeq(url, 3, 5)) = 3 /\ SubSeq(url, 3, 5) \in Seq(S) /\ \A i \in 1..3 : SubSeq(url, 3, 5)[i] = url[2 + i]
    <3>1. \A i \in 3..5 : url[i] \in S
      <4>1. url \in [1..Len(url) -> S]
        BY <1>10, LenProperties
      <4> QED  BY <1>10, <4>1
    <3> QED  BY <3>1, SubSeqProperties
  <2>2. rest \in Seq(S) /\ Len(rest) = 3 /\ rest[1] = url[3] /\ rest[2] = url[4] /\ rest[3] = url[5]
    BY <1>1, <1>10 DEF rest
  <2>3. \A i \in 1..3 : SubSeq(url, 3, 5)[i] = rest[i]
    BY <2>1, <2>2
  <2> QED  BY <1>10, <2>1, <2>2, <2>3, SeqEqual
<1>12. Head(url) = "static"
  BY <1>10
<1>13. Show!Last(p.root) = p.id
  BY <1>0, <1>b DEF Show!Last
<1>14. Show!Served(p, url) = root \o rest
  BY <1>11, <1>12, <1>13, Zenon DEF Show!Served, root
<1> QED  BY <1>8, <1>14 DEF image, root, rest

\* The show at every moment: the pack is one that can be loaded, and the message is the projection of
\* the last directive unless the bridge has failed since.
ShowInv ==
  /\ runtime \in {"sprite2d", "threejs", "live3d"}
  /\ pack \in Characters \cup {Show!NoPack} /\ {lost, shutDown} \subseteq BOOLEAN /\ loads \in 0..MaxLoads
  /\ pack # Show!NoPack => pack \in Characters /\ Show!Loads(pack)
  /\ (message # Show!NoMessage /\ ~lost) =>
       pack \in Characters /\ Show!Loads(pack) /\ message = Show!Projection(pack, directive)

\* A process starts without a pack, and nothing has been drawn.
LEMMA ShowStarts == CompanionInit => ShowInv
<1> SUFFICES ASSUME Show!Init PROVE ShowInv
  BY DEF CompanionInit
<1>1. MaxLoads \in Nat
  BY CompanionAssumption DEF Show!ShowBounds
<1>2. runtime \in {"sprite2d", "threejs", "live3d"} /\ lost = FALSE /\ shutDown = FALSE /\ loads = 0
  BY DEF Show!Init
<1>3. pack = Show!NoPack /\ message = Show!NoMessage
  BY DEF Show!Init
<1>4. loads \in 0..MaxLoads /\ {lost, shutDown} \subseteq BOOLEAN
  <2>1. loads \in 0..MaxLoads
    BY <1>1, <1>2
  <2>2. {lost, shutDown} \subseteq BOOLEAN
    BY <1>2, Zenon
  <2> QED  BY <2>1, <2>2
<1>5. ~(pack # Show!NoPack) /\ ~(message # Show!NoMessage) /\ pack \in Characters \cup {Show!NoPack}
  BY <1>3
<1>6. pack # Show!NoPack => pack \in Characters /\ Show!Loads(pack)
  BY <1>5
<1>7. (message # Show!NoMessage /\ ~lost) =>
        pack \in Characters /\ Show!Loads(pack) /\ message = Show!Projection(pack, directive)
  BY <1>5
<1> QED  BY <1>2, <1>4, <1>5, <1>6, <1>7 DEF ShowInv

\* What can be loaded never changes, and a projection changes with the adapter alone.
LEMMA SameShow ==
  /\ \A p : Show!Loads(p)' = Show!Loads(p)
  /\ Show!NoPack' = Show!NoPack /\ Show!NoMessage' = Show!NoMessage
  /\ runtime' = runtime => \A p, d : Show!Projection(p, d)' = Show!Projection(p, d)
<1>1. \A p : Show!Loads(p)' = Show!Loads(p)
  BY Zenon DEF Show!Loads, Show!States, Show!Raises, Show!Images, Show!Unset
<1>2. Show!NoPack' = Show!NoPack /\ Show!NoMessage' = Show!NoMessage
  BY DEF Show!NoPack, Show!NoMessage
<1>3. ASSUME NEW p, NEW d PROVE Show!SpriteProjection(p, d)' = Show!SpriteProjection(p, d)
  BY Zenon DEF Show!SpriteProjection, Show!Shown, Show!Speaking, Show!Files, Show!Url, Show!States, Show!Unset,
       Show!Images, Show!Range
<1>4. ASSUME NEW p, NEW d PROVE Show!ThreeProjection(p, d)' = Show!ThreeProjection(p, d)
  BY Zenon DEF Show!ThreeProjection, Show!Chain, Show!Clip, Show!KnownGestures
<1>5. ASSUME NEW p, NEW d PROVE Show!LiveProjection(p, d)' = Show!LiveProjection(p, d)
  BY <1>4, Zenon DEF Show!LiveProjection
<1>6. ASSUME runtime' = runtime, NEW p, NEW d PROVE Show!Projection(p, d)' = Show!Projection(p, d)
  BY <1>3, <1>4, <1>5, <1>6 DEF Show!Projection
<1> QED  BY <1>1, <1>2, <1>6

\* No step of the companion disturbs the show: one that fails to load leaves the pack before it.
LEMMA ShowStep ==
  ASSUME ShowInv, [CompanionNext]_<<part, voiceVars, showVars, sightVars, libraryVars, switchVars>>
  PROVE  ShowInv'
<1> USE DEF ShowInv
<1>0. MaxLoads \in Nat
  BY CompanionAssumption DEF Show!ShowBounds
<1>1. ASSUME NEW p \in Characters, Show!LoadCharacter(p) PROVE ShowInv'
  <2>0. runtime' = runtime /\ shutDown' = shutDown /\ loads' \in 0..MaxLoads
    BY <1>0, <1>1 DEF Show!LoadCharacter
  <2>1. CASE ~Show!Loads(p)
    <3>1. UNCHANGED <<pack, message, directive, lost>>
      BY <1>1, <2>1 DEF Show!LoadCharacter
    <3> QED  BY <2>0, <3>1, SameShow
  <2>2. CASE Show!Loads(p)
    <3>1. pack' = p /\ directive' = Show!Idle(p) /\ Show!Publish(Show!Projection(p, Show!Idle(p)))
      BY <1>1, <2>2 DEF Show!LoadCharacter
    <3> QED  BY <2>0, <2>2, <3>1, SameShow DEF Show!Publish
  <2> QED  BY <2>1, <2>2
<1>2. ASSUME NEW d \in Directives, Show!ApplyDirective(d) PROVE ShowInv'
  <2>0. UNCHANGED <<runtime, pack, shutDown, loads>>
    BY <1>2 DEF Show!ApplyDirective
  <2>1. CASE pack = Show!NoPack
    <3>1. UNCHANGED <<message, directive, lost>>
      BY <1>2, <2>1 DEF Show!ApplyDirective
    <3> QED  BY <2>0, <3>1, SameShow
  <2>2. CASE pack # Show!NoPack
    <3>1. directive' = d /\ Show!Publish(Show!Projection(pack, d))
      BY <1>2, <2>2 DEF Show!ApplyDirective
    <3> QED  BY <2>0, <2>2, <3>1, SameShow DEF Show!Publish
  <2> QED  BY <2>1, <2>2
<1>3. CASE Show!Shutdown
  BY <1>3, SameShow DEF Show!Shutdown
<1>4. CASE UNCHANGED showVars
  BY <1>4, SameShow DEF showVars
<1> QED  BY <1>1, <1>2, <1>3, <1>4 DEF CompanionNext, Show!Next

\* The addresses of files of a pack, and the files that the route has at addresses.
Addresses(p, files) == [i \in DOMAIN files |-> Show!Url(p, files[i])]
FilesAt(p, urls) == [i \in DOMAIN urls |-> Show!Served(p, urls[i])]

\* The addresses of the images of a state lead to these images.
LEMMA FilesServed ==
  ASSUME NEW p \in Characters, AtHome(p), NEW s, NEW source \in {"folder", "files"}
  PROVE  /\ Addresses(p, Show!Files(p, s, source)) # <<>>
         /\ FilesAt(p, Addresses(p, Show!Files(p, s, source))) = Show!Files(p, s, source)
<1> DEFINE place(i) == p.root \o <<s, source, ToString(i)>>
           files == Show!Files(p, s, source)
           frames == [i \in DOMAIN files |-> Show!Url(p, files[i])]
<1>1. files = [i \in 1..2 |-> place(i)]
  BY ImagesFacts DEF Show!Files
<1>2. ASSUME NEW i PROVE Show!Served(p, Show!Url(p, place(i))) = place(i)
  BY ServedFacts
<1> HIDE DEF files, place
<1>3. DOMAIN files = 1..2 /\ \A i \in 1..2 : files[i] = place(i)
  BY <1>1
<1>4. DOMAIN frames = 1..2 /\ \A i \in 1..2 : frames[i] = Show!Url(p, place(i))
  BY <1>3
<1> HIDE DEF frames
<1>5. frames # <<>>
  <2>1. DOMAIN frames # DOMAIN <<>>
    BY <1>4
  <2> QED  BY <2>1
<1>6. \A i \in 1..2 : Show!Served(p, frames[i]) = place(i)
  BY <1>2, <1>4
<1>7. [i \in DOMAIN frames |-> Show!Served(p, frames[i])] = files
  <2>1. [i \in 1..2 |-> Show!Served(p, frames[i])] = [i \in 1..2 |-> place(i)]
    BY <1>6, Zenon
  <2> QED  BY <1>1, <1>4, <2>1
<1> QED  BY <1>5, <1>7 DEF files, frames, Addresses, FilesAt

\* The images of a state that is shown, and their addresses.
LEMMA SpriteDrawn ==
  ASSUME NEW p \in Characters, NEW d, Show!Loads(p), p.default \in Show!States(p),
         AtHome(p), NEW s, s = IF d.state \in Show!States(p) THEN d.state ELSE p.default,
         "outside" \notin {p.emotions[s].frames, p.emotions[s].speaking},
         NEW source, source = IF d.speaking /\ p.emotions[s].speaking \in {"folder", "files"}
                              THEN p.emotions[s].speaking ELSE p.emotions[s].frames
  PROVE  LET frames == Show!SpriteProjection(p, d).frames
         IN  /\ frames # <<>>
             /\ [i \in DOMAIN frames |-> Show!Served(p, frames[i])] = Show!Files(p, s, source)
<1> DEFINE e == p.emotions[s]
           files == Show!Files(p, s, source)
           frames == Addresses(p, files)
<1>1. s \in Show!States(p) /\ Show!Shown(p, d) = s
  BY DEF Show!Shown
<1>2. /\ Show!Images(e.frames) # <<>>
      /\ {e.frames, e.speaking} \subseteq Show!Sources \cup {"unset"}
  BY <1>1, PacksAssumed DEF Show!Loads, Show!States
<1>3. source \in {"folder", "files"} /\ source = IF d.speaking THEN Show!Speaking(e) ELSE e.frames
  BY <1>2, ImagesFacts DEF Show!Speaking
<1>4. Show!SpriteProjection(p, d).frames = frames
  BY <1>1, <1>3 DEF Show!SpriteProjection, Addresses
<1>5. frames # <<>> /\ FilesAt(p, frames) = files
  BY <1>3, FilesServed
<1> HIDE DEF frames
<1> QED  BY <1>4, <1>5 DEF FilesAt

\* What a projection in three dimensions tells.
LEMMA ThreeDrawn ==
  ASSUME NEW p, NEW d, NEW m, m \in {Show!ThreeProjection(p, d), Show!LiveProjection(p, d)}
  PROVE  m.directive = d /\ m.asset = p.id /\ m.chain = Show!Chain(d) /\ m.clip = Show!Clip(Show!Chain(d))
<1> DEFINE t == Show!ThreeProjection(p, d)
           v == Show!LiveProjection(p, d)
           chain == Show!Chain(d)
<1>1. t.directive = d /\ t.asset = p.id /\ t.chain = chain /\ t.clip = Show!Clip(chain)
  BY Zenon DEF Show!ThreeProjection
<1>2. v.directive = d /\ v.asset = p.id /\ v.chain = chain /\ v.clip = Show!Clip(chain)
  <2> HIDE DEF chain
  <2> QED  BY <1>1 DEF Show!LiveProjection, Show!ThreeProjection
<1> QED  BY <1>1, <1>2

\* What the last message says of the pack is what a window draws (sprite2d and threejs projections).
LEMMA ShowIsDrawn == ASSUME ShowInv PROVE Show!PackIsDrawn
<1> SUFFICES ASSUME message # Show!NoMessage, ~lost PROVE Show!PackIsDrawn
  BY DEF Show!PackIsDrawn
<1>1. /\ pack \in Characters /\ Show!Loads(pack) /\ message = Show!Projection(pack, directive)
      /\ runtime \in {"sprite2d", "threejs", "live3d"}
  BY DEF ShowInv
<1>2. CASE runtime = "sprite2d"
  <2>1. message = Show!SpriteProjection(pack, directive)
    BY <1>1, <1>2 DEF Show!Projection
  <2>2. message.directive = directive
    BY <2>1, Zenon DEF Show!SpriteProjection
  <2> DEFINE s == IF directive.state \in Show!States(pack) THEN directive.state ELSE pack.default
             source == IF directive.speaking /\ pack.emotions[s].speaking \in {"folder", "files"}
                       THEN pack.emotions[s].speaking ELSE pack.emotions[s].frames
  <2>3. ASSUME AtHome(pack), pack.default \in Show!States(pack),
               "outside" \notin {pack.emotions[s].frames, pack.emotions[s].speaking}
        PROVE  /\ message.frames # <<>>
               /\ [i \in DOMAIN message.frames |-> Show!Served(pack, message.frames[i])]
                    = Show!Files(pack, s, source)
    <3>1. \A k : k = s => (k = IF directive.state \in Show!States(pack) THEN directive.state ELSE pack.default)
      OBVIOUS
    <3>2. \A k : k = source =>
             (k = IF directive.speaking /\ pack.emotions[s].speaking \in {"folder", "files"}
                  THEN pack.emotions[s].speaking ELSE pack.emotions[s].frames)
      OBVIOUS
    <3> HIDE DEF s, source
    <3> QED  BY <1>1, <2>1, <2>3, <3>1, <3>2, SpriteDrawn
  <2> QED  BY <1>2, <2>2, <2>3, Zenon DEF Show!PackIsDrawn, AtHome
<1>3. CASE runtime # "sprite2d"
  <2>1. message \in {Show!ThreeProjection(pack, directive), Show!LiveProjection(pack, directive)}
    BY <1>1, <1>3 DEF Show!Projection
  <2> DEFINE chain == Show!Chain(directive)
  <2>2. /\ message.directive = directive /\ message.asset = pack.id
        /\ message.chain = chain /\ message.clip = Show!Clip(chain)
    BY <2>1, ThreeDrawn
  <2>3. chain # <<>> /\ Len(chain) \in Nat \ {0} /\ DOMAIN chain = 1..Len(chain) /\ Show!Last(chain) = <<"idle">>
    BY ChainFacts
  <2> HIDE DEF chain
  <2>4. /\ Show!Clip(chain) \in Clips \cup {<<"idle">>, chain[1]}
        /\ \A i \in DOMAIN chain : chain[i] \in Clips => \E j \in 1..i : chain[j] = Show!Clip(chain)
    BY <2>3, ClipFacts
  <2> QED  BY <1>3, <2>2, <2>3, <2>4 DEF Show!PackIsDrawn
<1> QED  BY <1>2, <1>3

\* The pack, its images and the counters have their types.
LEMMA ShowTyped == ASSUME ShowInv PROVE Show!TypeOK
<1>1. pack # Show!NoPack => pack \in Characters /\ \A s \in Show!States(pack) : pack.emotions[s].frames \in Show!Sources
  BY PacksAssumed DEF ShowInv, Show!States, Show!Unset
<1> QED  BY <1>1 DEF ShowInv, Show!TypeOK

\* For all packs, directives and clips: what the check of an import takes in can be loaded, and a window
\* is told to draw the pack that is loaded as the last directive asks, with images that the route serves
\* and a clip the pack lists, or idle (PacksAreDrawn).
THEOREM PacksDrawn == CompanionSpec => []PacksAreDrawn
<1>1. ShowInv => PacksAreDrawn
  BY ShowIsDrawn, ShowTyped, ChecksHold DEF PacksAreDrawn
<1> QED  BY ShowStarts, ShowStep, <1>1, PTL DEF CompanionSpec

-----------------------------------------------------------------------------
(* The switches of the listening                                           *)


\* What a message may mention.
Mentions == UNION {[S -> BOOLEAN] : S \in SUBSET Switches!Keys}

\* What a call may be.
CallOf == [stage : {"none", "sent", "working", "overlapped", "over"},
           by : Windows \cup {Switches!Route}, key : Switches!Keys, value : BOOLEAN]

\* The variables of the switches have their types.
SwitchTypes ==
  /\ switched \in {"off", "continuous", "wake"} /\ flag \in [Switches!Keys -> BOOLEAN]
  /\ toggle \in [Switches!Toggles -> CallOf]
  /\ door \in [Windows -> {"closed", "greeted", "fed"}] /\ feed \in [Windows -> Seq(Mentions)]
  /\ view \in [Windows -> [Switches!Shown -> BOOLEAN]] /\ missed \in [Windows -> SUBSET Switches!Keys]
  /\ blurred \in BOOLEAN

\* A call that switches the passive listening is at work.
Switching(t) == Switches!AtWork(t) /\ Switches!Passive(t)

\* The modes that are reported are the controller's.
Matches == \A k \in DOMAIN Switches!Modes : flag[k] <=> switched = Switches!Modes[k]

\* A call that is alone in the controller finds it in no mode; without one the modes agree.
SwitchWork ==
  /\ \A t \in Switches!Toggles : Switching(t) /\ toggle[t].stage = "working" =>
       switched = "off" /\ \A u \in Switches!Toggles \ {t} : ~Switching(u)
  /\ ~blurred /\ (\A t \in Switches!Toggles : ~Switching(t)) => Matches

\* The last message that mentions a switch has it so; or none mentions it.
Says(q, k, v) ==
  \E i \in DOMAIN q : /\ k \in DOMAIN q[i] /\ q[i][k] = v
                      /\ \A j \in DOMAIN q : j > i => k \notin DOMAIN q[j]

\* No message mentions the switch.
Silent(q, k) == \A i \in DOMAIN q : k \notin DOMAIN q[i]

\* A window has switched, and its call is not over.
Awaited(w, k) ==
  \E t \in Switches!Toggles :
    toggle[t].by = w /\ toggle[t].key = k /\ toggle[t].stage \notin {"none", "over"}

\* What a window shows, once what is under way to it has arrived, is what is reported.
WindowsTold ==
  \A w \in Windows :
    /\ door[w] = "closed" => feed[w] = <<>>
    /\ door[w] # "closed" => \A k \in Switches!Shown \ missed[w] :
         \/ Says(feed[w], k, flag[k])
         \/ Silent(feed[w], k) /\ (view[w][k] = flag[k] \/ Awaited(w, k))

SwitchInv == SwitchTypes /\ SwitchWork /\ WindowsTold

-----------------------------------------------------------------------------
LEMMA SaysAppend ==
  ASSUME NEW q \in Seq(Mentions), NEW f \in Mentions, NEW k
  PROVE  /\ k \in DOMAIN f => Says(Append(q, f), k, f[k])
         /\ k \notin DOMAIN f => /\ \A v : Says(q, k, v) => Says(Append(q, f), k, v)
                                 /\ Silent(q, k) => Silent(Append(q, f), k)
<1> DEFINE a == Append(q, f)
<1>1. /\ DOMAIN a = 1..(Len(q) + 1) /\ a[Len(q) + 1] = f /\ DOMAIN q = 1..Len(q) /\ Len(q) \in Nat
      /\ \A i \in 1..Len(q) : a[i] = q[i]
  BY AppendProperties
<1> HIDE DEF a
<1>2. ASSUME k \in DOMAIN f PROVE Says(a, k, f[k])
  <2>1. Len(q) + 1 \in DOMAIN a /\ \A j \in DOMAIN a : ~(j > Len(q) + 1)
    BY <1>1
  <2> QED  BY <1>1, <1>2, <2>1 DEF Says
<1>3. ASSUME k \notin DOMAIN f, NEW v, Says(q, k, v) PROVE Says(a, k, v)
  <2>1. PICK i \in DOMAIN q : k \in DOMAIN q[i] /\ q[i][k] = v /\ \A j \in DOMAIN q : j > i => k \notin DOMAIN q[j]
    BY <1>3 DEF Says
  <2>2. i \in DOMAIN a /\ a[i] = q[i]
    BY <1>1
  <2>3. ASSUME NEW j \in DOMAIN a, j > i PROVE k \notin DOMAIN a[j]
    <3>1. CASE j = Len(q) + 1
      BY <1>1, <1>3, <3>1
    <3>2. CASE j # Len(q) + 1
      <4>1. j \in DOMAIN q /\ a[j] = q[j]
        BY <1>1, <3>2
      <4> QED  BY <2>1, <2>3, <4>1
    <3> QED  BY <3>1, <3>2
  <2> QED  BY <2>1, <2>2, <2>3 DEF Says
<1>4. ASSUME k \notin DOMAIN f, Silent(q, k) PROVE Silent(a, k)
  <2>1. ASSUME NEW j \in DOMAIN a PROVE k \notin DOMAIN a[j]
    <3>1. CASE j = Len(q) + 1
      BY <1>1, <1>4, <3>1
    <3>2. CASE j # Len(q) + 1
      <4>1. j \in DOMAIN q /\ a[j] = q[j]
        BY <1>1, <3>2
      <4> QED  BY <1>4, <4>1 DEF Silent
    <3> QED  BY <3>1, <3>2
  <2> QED  BY <2>1 DEF Silent
<1> QED  BY <1>2, <1>3, <1>4 DEF a

LEMMA SaysTail ==
  ASSUME NEW q \in Seq(Mentions), q # <<>>, NEW k
  PROVE  /\ \A v : Says(q, k, v) =>
              \/ Says(Tail(q), k, v)
              \/ Silent(Tail(q), k) /\ k \in DOMAIN Head(q) /\ Head(q)[k] = v
         /\ Silent(q, k) => Silent(Tail(q), k) /\ k \notin DOMAIN Head(q)
<1> DEFINE a == Tail(q)
<1>1. /\ DOMAIN a = 1..(Len(q) - 1) /\ DOMAIN q = 1..Len(q) /\ Len(q) \in Nat \ {0}
      /\ \A i \in 1..(Len(q) - 1) : a[i] = q[i + 1]
      /\ Head(q) = q[1]
  BY HeadTailProperties, EmptySeq
<1> HIDE DEF a
<1>2. ASSUME NEW v, Says(q, k, v)
      PROVE  \/ Says(a, k, v)
             \/ Silent(a, k) /\ k \in DOMAIN Head(q) /\ Head(q)[k] = v
  <2>1. PICK i \in DOMAIN q : k \in DOMAIN q[i] /\ q[i][k] = v /\ \A j \in DOMAIN q : j > i => k \notin DOMAIN q[j]
    BY <1>2 DEF Says
  <2>2. ASSUME NEW j \in DOMAIN a, j > i - 1 PROVE k \notin DOMAIN a[j]
    <3>1. j + 1 \in DOMAIN q /\ j + 1 > i /\ a[j] = q[j + 1]
      BY <1>1, <2>2
    <3> QED  BY <2>1, <3>1
  <2>3. CASE i = 1
    <3>1. \A j \in DOMAIN a : j > i - 1
      BY <1>1, <2>3
    <3>2. Silent(a, k)
      BY <2>2, <3>1 DEF Silent
    <3> QED  BY <1>1, <2>1, <2>3, <3>2
  <2>4. CASE i # 1
    <3>1. i - 1 \in DOMAIN a /\ a[i - 1] = q[i]
      BY <1>1, <2>4
    <3>2. Says(a, k, v)
      BY <2>1, <2>2, <3>1 DEF Says
    <3> QED  BY <3>2
  <2> QED  BY <2>3, <2>4
<1>3. ASSUME Silent(q, k) PROVE Silent(a, k) /\ k \notin DOMAIN Head(q)
  <2>1. 1 \in DOMAIN q /\ \A j \in DOMAIN a : j + 1 \in DOMAIN q /\ a[j] = q[j + 1]
    BY <1>1
  <2> QED  BY <1>1, <1>3, <2>1 DEF Silent
<1> QED  BY <1>2, <1>3 DEF a

-----------------------------------------------------------------------------
LEMMA SwitchFacts ==
  /\ Switches!Route \notin Windows /\ MaxToggles \in Nat
  /\ DOMAIN Switches!Modes = {"continuous_listening", "live_wake"}
  /\ Switches!Keys = {"continuous_listening", "live_wake", "agent_voice"}
  /\ Switches!Shown = {"live_wake", "agent_voice"}
  /\ Switches!Modes["continuous_listening"] = "continuous" /\ Switches!Modes["live_wake"] = "wake"
BY CompanionAssumption DEF Switches!ToggleBounds, Switches!Route, Switches!Modes, Switches!Keys, Switches!Shown

\* The fields of a call are what they are to be.
LEMMA CallFacts ==
  ASSUME SwitchTypes, NEW t \in Switches!Toggles
  PROVE  /\ toggle[t].stage \in {"none", "sent", "working", "overlapped", "over"}
         /\ toggle[t].by \in Windows \cup {Switches!Route}
         /\ toggle[t].key \in Switches!Keys /\ toggle[t].value \in BOOLEAN
BY DEF SwitchTypes, CallOf

\* A call whose stage changes.
LEMMA StageFacts ==
  ASSUME SwitchTypes, NEW t \in Switches!Toggles, NEW s \in {"none", "sent", "working", "overlapped", "over"},
         toggle' = [toggle EXCEPT ![t].stage = s]
  PROVE  /\ toggle' \in [Switches!Toggles -> CallOf]
         /\ toggle'[t].stage = s /\ toggle'[t].by = toggle[t].by /\ toggle'[t].key = toggle[t].key
         /\ toggle'[t].value = toggle[t].value
         /\ \A u \in Switches!Toggles \ {t} : toggle'[u] = toggle[u]
BY DEF SwitchTypes, CallOf

\* What a window is told of a switch.
ToldOf(w, k) ==
  \/ Says(feed[w], k, flag[k])
  \/ Silent(feed[w], k) /\ (view[w][k] = flag[k] \/ Awaited(w, k))

\* The switch is written, and published to the windows that are fed.
LEMMA CommitFacts ==
  ASSUME SwitchInv, NEW t \in Switches!Toggles, toggle[t].stage \notin {"none", "over"},
         NEW clean, Switches!Commits(t, clean), UNCHANGED <<door, view>>
  PROVE  /\ flag' \in [Switches!Keys -> BOOLEAN] /\ feed' \in [Windows -> Seq(Mentions)]
         /\ missed' \in [Windows -> SUBSET Switches!Keys] /\ blurred' \in BOOLEAN
         /\ toggle' = [toggle EXCEPT ![t].stage = "over"]
         /\ WindowsTold'
         /\ Switches!Passive(t) /\ ~blurred' =>
              clean /\ \A k \in DOMAIN Switches!Modes : flag'[k] <=> toggle[t].value /\ k = toggle[t].key
         /\ ~Switches!Passive(t) => /\ blurred' = blurred
                                    /\ \A k \in DOMAIN Switches!Modes : flag'[k] = flag[k]
<1> DEFINE key == toggle[t].key
           v == toggle[t].value
           f == [k \in {key} |-> v]
           stale == IF v /\ key = "continuous_listening" THEN {"live_wake"} ELSE {}
<1>0. SwitchTypes /\ key \in Switches!Keys /\ v \in BOOLEAN
  BY CallFacts DEF SwitchInv
<1>1. /\ toggle' = [toggle EXCEPT ![t].stage = "over"]
      /\ flag' = Switches!Report(key, v)
      /\ feed' = Switches!Tells(f)
      /\ missed' = [w \in Windows |->
           (IF door[w] = "fed" THEN missed[w] \ {key}
            ELSE IF door[w] = "greeted" THEN missed[w] \cup {key} ELSE missed[w])
           \cup {k \in stale : flag[k]}]
      /\ blurred' = IF ~Switches!Passive(t) THEN blurred
                    ELSE ~clean \/ (~v /\ \E k \in DOMAIN Switches!Modes \ {key} : flag[k])
  BY DEF Switches!Commits, Switches!Over
<1>2. DOMAIN f = {key} /\ f[key] = v /\ f \in Mentions
  <2>1. {key} \in SUBSET Switches!Keys /\ f \in [{key} -> BOOLEAN]
    BY <1>0
  <2> QED  BY <1>0, <2>1 DEF Mentions
<1> HIDE DEF f
<1>3. /\ flag' \in [Switches!Keys -> BOOLEAN]
      /\ \A k \in Switches!Keys :
           flag'[k] = IF k = key THEN v ELSE flag[k] /\ ~(v /\ {key, k} \subseteq DOMAIN Switches!Modes)
  BY <1>0, <1>1 DEF Switches!Report, SwitchTypes
<1>4. /\ feed' \in [Windows -> Seq(Mentions)]
      /\ \A w \in Windows : feed'[w] = IF door[w] = "fed" THEN Append(feed[w], f) ELSE feed[w]
  <2>1. feed' = [w \in Windows |-> IF door[w] = "fed" THEN Append(feed[w], f) ELSE feed[w]]
    BY <1>1 DEF Switches!Tells
  <2>2. \A w \in Windows : feed[w] \in Seq(Mentions) /\ Append(feed[w], f) \in Seq(Mentions)
    BY <1>0, <1>2, AppendProperties DEF SwitchTypes
  <2> QED  BY <2>1, <2>2
<1>5. /\ missed' \in [Windows -> SUBSET Switches!Keys]
      /\ \A w \in Windows : missed'[w] =
           (IF door[w] = "fed" THEN missed[w] \ {key}
            ELSE IF door[w] = "greeted" THEN missed[w] \cup {key} ELSE missed[w])
           \cup {k \in stale : flag[k]}
  <2>1. stale \subseteq Switches!Keys
    BY SwitchFacts
  <2> QED  BY <1>0, <1>1, <2>1 DEF SwitchTypes
<1>6. blurred' \in BOOLEAN
  BY <1>0, <1>1 DEF SwitchTypes
<1>7. ASSUME ~Switches!Passive(t)
      PROVE  blurred' = blurred /\ \A k \in DOMAIN Switches!Modes : flag'[k] = flag[k]
  <2>1. key \notin DOMAIN Switches!Modes
    BY <1>7 DEF Switches!Passive
  <2> QED  BY <1>0, <1>1, <1>3, <1>7, <2>1, SwitchFacts DEF SwitchTypes
<1>8. ASSUME Switches!Passive(t), ~blurred'
      PROVE  clean /\ \A k \in DOMAIN Switches!Modes : flag'[k] <=> v /\ k = key
  <2>1. clean /\ (v \/ \A k \in DOMAIN Switches!Modes \ {key} : ~flag[k])
    BY <1>1, <1>8
  <2>2. key \in DOMAIN Switches!Modes
    BY <1>8 DEF Switches!Passive
  <2>3. ASSUME NEW k \in DOMAIN Switches!Modes PROVE flag'[k] <=> v /\ k = key
    <3>1. k \in Switches!Keys
      BY SwitchFacts
    <3> QED  BY <1>0, <1>3, <2>1, <2>2, <3>1
  <2> QED  BY <2>1, <2>3
<1>9. ASSUME NEW w \in Windows, door[w] # "closed", NEW k \in Switches!Shown \ missed'[w]
      PROVE  ToldOf(w, k)'
  <2>0. feed[w] \in Seq(Mentions) /\ door[w] \in {"greeted", "fed"} /\ k \in Switches!Keys
    BY <1>0, <1>9, SwitchFacts DEF SwitchTypes
  <2>1. CASE k = key
    <3>1. door[w] = "fed" /\ flag'[k] = v
      BY <1>3, <1>5, <2>0, <2>1
    <3>2. Says(feed'[w], k, flag'[k])
      <4>1. Says(Append(feed[w], f), k, f[k])
        BY <1>2, <2>0, <2>1, SaysAppend
      <4>2. feed'[w] = Append(feed[w], f) /\ f[k] = flag'[k]
        BY <1>2, <1>4, <2>1, <3>1
      <4> QED  BY <4>1, <4>2
    <3> QED  BY <3>2 DEF ToldOf
  <2>2. CASE k # key
    <3>1. k \notin missed[w]
      BY <1>5, <2>0, <2>2
    <3>2. flag'[k] = flag[k]
      <4>1. CASE v /\ {key, k} \subseteq DOMAIN Switches!Modes
        <5>1. k = "live_wake" /\ key = "continuous_listening" /\ k \in stale
          BY <2>2, <4>1, SwitchFacts
        <5>2. ~flag[k]
          BY <1>5, <1>9, <5>1
        <5> QED  BY <1>0, <1>3, <2>0, <2>2, <5>2 DEF SwitchTypes
      <4>2. CASE ~(v /\ {key, k} \subseteq DOMAIN Switches!Modes)
        BY <1>0, <1>3, <2>0, <2>2, <4>2 DEF SwitchTypes
      <4> QED  BY <4>1, <4>2
    <3>3. ToldOf(w, k)
      BY <1>9, <3>1 DEF SwitchInv, WindowsTold, ToldOf
    <3>4. Awaited(w, k) => Awaited(w, k)'
      <4>1. \A u \in Switches!Toggles \ {t} : toggle'[u] = toggle[u]
        BY <1>0, <1>1, StageFacts
      <4> QED  BY <2>2, <4>1 DEF Awaited
    <3>5. /\ Says(feed[w], k, flag[k]) => Says(feed'[w], k, flag[k])
          /\ Silent(feed[w], k) => Silent(feed'[w], k)
      <4>1. k \notin DOMAIN f
        BY <1>2, <2>2
      <4>2. /\ Says(feed[w], k, flag[k]) => Says(Append(feed[w], f), k, flag[k])
            /\ Silent(feed[w], k) => Silent(Append(feed[w], f), k)
        BY <1>2, <2>0, <4>1, SaysAppend
      <4>3. feed'[w] = feed[w] \/ feed'[w] = Append(feed[w], f)
        BY <1>4
      <4> QED  BY <4>2, <4>3
    <3> QED  BY <3>2, <3>3, <3>4, <3>5 DEF ToldOf
  <2> QED  BY <2>1, <2>2
<1>10. WindowsTold'
  <2>1. \A w \in Windows : door[w] = "closed" => feed'[w] = <<>>
    BY <1>4 DEF SwitchInv, WindowsTold
  <2> QED  BY <1>9, <2>1 DEF WindowsTold, ToldOf
<1> QED  BY <1>1, <1>3, <1>4, <1>5, <1>6, <1>7, <1>8, <1>10

LEMMA SwitchStarts == CompanionInit => SwitchInv
<1> SUFFICES ASSUME Switches!Init PROVE SwitchInv
  BY DEF CompanionInit
<1>1. /\ flag \in [Switches!Keys -> BOOLEAN]
      /\ switched = IF flag.continuous_listening THEN "continuous"
                    ELSE IF flag.live_wake THEN "wake" ELSE "off"
      /\ toggle = [t \in Switches!Toggles |-> Switches!None]
      /\ door = [w \in Windows |-> "closed"] /\ feed = [w \in Windows |-> <<>>]
      /\ view = [w \in Windows |-> [k \in Switches!Shown |-> k = "agent_voice"]]
      /\ blurred = (flag.continuous_listening /\ flag.live_wake) /\ missed = [w \in Windows |-> {}]
  BY DEF Switches!Init
<1>2. \A t \in Switches!Toggles : toggle[t].stage = "none" /\ toggle[t] \in CallOf
  BY <1>1, SwitchFacts DEF Switches!None, CallOf
<1>3. SwitchTypes
  <2>1. [k \in Switches!Shown |-> k = "agent_voice"] \in [Switches!Shown -> BOOLEAN]
    OBVIOUS
  <2>2. blurred \in BOOLEAN /\ flag.continuous_listening \in BOOLEAN /\ flag.live_wake \in BOOLEAN
    BY <1>1, SwitchFacts
  <2> QED  BY <1>1, <1>2, <2>1, <2>2 DEF SwitchTypes
<1>4. SwitchWork
  <2>1. \A t \in Switches!Toggles : ~Switching(t)
    BY <1>2 DEF Switching, Switches!AtWork
  <2>2. ~blurred => Matches
    <3>1. \A k \in {"continuous_listening", "live_wake"} : flag[k] \in BOOLEAN
      BY <1>1, SwitchFacts
    <3> QED  BY <1>1, <3>1, SwitchFacts DEF Matches
  <2> QED  BY <2>1, <2>2 DEF SwitchWork
<1>5. WindowsTold
  BY <1>1 DEF WindowsTold
<1> QED  BY <1>3, <1>4, <1>5 DEF SwitchInv

-----------------------------------------------------------------------------
\* A step of a window leaves the controller, and what is written, as it is.
LEMMA WorkKept ==
  ASSUME SwitchWork, UNCHANGED <<switched, flag, blurred>>,
         \A t \in Switches!Toggles :
           toggle'[t] = toggle[t] \/ ({toggle[t].stage, toggle'[t].stage} \subseteq {"none", "sent"})
  PROVE  SwitchWork'
<1>1. \A t \in Switches!Toggles : Switching(t)' <=> Switching(t)
  BY DEF Switching, Switches!AtWork, Switches!Passive
<1>2. \A t \in Switches!Toggles : Switching(t) => toggle'[t] = toggle[t]
  BY DEF Switching, Switches!AtWork
<1> QED  BY <1>1, <1>2 DEF SwitchWork, Matches

LEMMA GreetStep ==
  ASSUME SwitchInv, NEW w \in Windows, Switches!Greet(w) \/ Switches!Subscribe(w)
  PROVE  SwitchInv'
<1>0. SwitchTypes /\ SwitchWork /\ WindowsTold
  BY DEF SwitchInv
<1>1. UNCHANGED <<switched, flag, toggle, view, blurred, missed>>
  BY DEF Switches!Greet, Switches!Subscribe
<1>2. SwitchWork'
  BY <1>0, <1>1, WorkKept
<1>3. CASE Switches!Greet(w)
  <2> DEFINE f == [k \in Switches!Shown |-> flag[k]]
  <2>1. /\ door' = [door EXCEPT ![w] = "greeted"] /\ feed' = [feed EXCEPT ![w] = <<f>>]
    BY <1>3 DEF Switches!Greet, Switches!Restrict, Restrict
  <2>2. f \in Mentions /\ DOMAIN f = Switches!Shown /\ \A k \in Switches!Shown : f[k] = flag[k]
    <3>1. Switches!Shown \in SUBSET Switches!Keys /\ f \in [Switches!Shown -> BOOLEAN]
      BY <1>0, SwitchFacts DEF SwitchTypes
    <3> QED  BY <3>1 DEF Mentions
  <2> HIDE DEF f
  <2>3. <<f>> \in Seq(Mentions) /\ DOMAIN <<f>> = {1} /\ <<f>>[1] = f
    BY <2>2
  <2>4. SwitchTypes'
    BY <1>0, <1>1, <2>1, <2>3 DEF SwitchTypes
  <2>5. /\ feed'[w] = <<f>> /\ door'[w] = "greeted"
        /\ \A x \in Windows \ {w} : feed'[x] = feed[x] /\ door'[x] = door[x]
    BY <1>0, <2>1 DEF SwitchTypes
  <2>6. \A k \in Switches!Shown : Says(feed'[w], k, flag[k])
    <3>1. \A i, j \in DOMAIN <<f>> : ~(j > i)
      BY <2>3
    <3> QED  BY <2>2, <2>3, <2>5, <3>1 DEF Says
  <2>7. WindowsTold'
    <3>1. \A x \in Windows : \A k : Awaited(x, k)' <=> Awaited(x, k)
      BY <1>1 DEF Awaited
    <3> QED  BY <1>0, <1>1, <2>5, <2>6, <3>1 DEF WindowsTold
  <2> QED  BY <1>2, <2>4, <2>7 DEF SwitchInv
<1>4. CASE Switches!Subscribe(w)
  <2>1. /\ door[w] = "greeted" /\ door' = [door EXCEPT ![w] = "fed"] /\ feed' = feed
    BY <1>4 DEF Switches!Subscribe
  <2>2. SwitchTypes'
    BY <1>0, <1>1, <2>1 DEF SwitchTypes
  <2>3. door'[w] = "fed" /\ \A x \in Windows \ {w} : door'[x] = door[x]
    BY <1>0, <2>1 DEF SwitchTypes
  <2>4. WindowsTold'
    <3>1. \A x \in Windows : \A k : Awaited(x, k)' <=> Awaited(x, k)
      BY <1>1 DEF Awaited
    <3> QED  BY <1>0, <1>1, <2>1, <2>3, <3>1 DEF WindowsTold
  <2> QED  BY <1>2, <2>2, <2>4 DEF SwitchInv
<1> QED  BY <1>3, <1>4

LEMMA DeliverStep ==
  ASSUME SwitchInv, NEW w \in Windows, Switches!Deliver(w)
  PROVE  SwitchInv'
<1> DEFINE facts == Head(feed[w])
<1>0. SwitchTypes /\ SwitchWork /\ WindowsTold
  BY DEF SwitchInv
<1>1. /\ feed[w] # <<>> /\ feed' = [feed EXCEPT ![w] = Tail(@)]
      /\ view' = [view EXCEPT ![w] = [k \in Switches!Shown |-> IF k \in DOMAIN facts THEN facts[k] ELSE @[k]]]
      /\ UNCHANGED <<switched, flag, toggle, door, blurred, missed>>
  BY DEF Switches!Deliver
<1>2. feed[w] \in Seq(Mentions) /\ facts \in Mentions /\ Tail(feed[w]) \in Seq(Mentions)
  <2>1. feed[w] \in Seq(Mentions)
    BY <1>0 DEF SwitchTypes
  <2> QED  BY <1>1, <2>1, HeadTailProperties
<1>3. \A k \in DOMAIN facts : facts[k] \in BOOLEAN
  BY <1>2 DEF Mentions
<1> HIDE DEF facts
<1>4. /\ feed'[w] = Tail(feed[w])
      /\ \A k \in Switches!Shown : view'[w][k] = IF k \in DOMAIN facts THEN facts[k] ELSE view[w][k]
      /\ \A x \in Windows \ {w} : feed'[x] = feed[x] /\ view'[x] = view[x]
  BY <1>0, <1>1 DEF SwitchTypes
<1>5. SwitchTypes'
  <2>1. view' \in [Windows -> [Switches!Shown -> BOOLEAN]]
    BY <1>0, <1>1, <1>3 DEF SwitchTypes
  <2>2. feed' \in [Windows -> Seq(Mentions)]
    BY <1>0, <1>1, <1>2 DEF SwitchTypes
  <2> QED  BY <1>0, <1>1, <2>1, <2>2 DEF SwitchTypes
<1>6. SwitchWork'
  BY <1>0, <1>1, WorkKept
<1>7. \A x \in Windows : \A k : Awaited(x, k)' <=> Awaited(x, k)
  BY <1>1 DEF Awaited
<1>8. ASSUME door[w] # "closed", NEW k \in Switches!Shown \ missed[w] PROVE ToldOf(w, k)'
  <2>1. ToldOf(w, k)
    BY <1>0, <1>8 DEF WindowsTold, ToldOf
  <2>2. CASE Says(feed[w], k, flag[k])
    <3>1. \/ Says(Tail(feed[w]), k, flag[k])
          \/ Silent(Tail(feed[w]), k) /\ k \in DOMAIN facts /\ facts[k] = flag[k]
      BY <1>1, <1>2, <2>2, SaysTail DEF facts
    <3> QED  BY <1>1, <1>4, <3>1 DEF ToldOf
  <2>3. CASE Silent(feed[w], k) /\ (view[w][k] = flag[k] \/ Awaited(w, k))
    <3>1. Silent(Tail(feed[w]), k) /\ k \notin DOMAIN facts
      BY <1>1, <1>2, <2>3, SaysTail DEF facts
    <3> QED  BY <1>1, <1>4, <1>7, <2>3, <3>1 DEF ToldOf
  <2> QED  BY <2>1, <2>2, <2>3 DEF ToldOf
<1>9. WindowsTold'
  <2>1. ASSUME NEW x \in Windows \ {w}, NEW k, ToldOf(x, k) PROVE ToldOf(x, k)'
    BY <1>1, <1>4, <1>7, <2>1 DEF ToldOf
  <2>2. door[w] # "closed"
    BY <1>0, <1>1 DEF WindowsTold
  <2> QED  BY <1>0, <1>1, <1>4, <1>8, <2>1, <2>2 DEF WindowsTold, ToldOf
<1> QED  BY <1>5, <1>6, <1>9 DEF SwitchInv

\* A window that is told of a switch still is, if nothing is said and its call goes on.
LEMMA ToldKept ==
  ASSUME WindowsTold, UNCHANGED <<flag, door, feed, missed>>,
         \A w \in Windows : \A k \in Switches!Shown :
           view[w][k] = flag[k] \/ Awaited(w, k) => (view[w][k] = flag[k])' \/ Awaited(w, k)'
  PROVE  WindowsTold'
BY DEF WindowsTold

\* Nobody else's call is touched.
LEMMA OthersKept ==
  ASSUME SwitchTypes, NEW t \in Switches!Toggles, \A u \in Switches!Toggles \ {t} : toggle'[u] = toggle[u]
  PROVE  /\ \A u \in Switches!Toggles \ {t} : /\ Switching(u)' <=> Switching(u)
                                              /\ toggle'[u].stage = toggle[u].stage
         /\ \A w, k : Awaited(w, k) =>
              Awaited(w, k)' \/ (toggle[t].by = w /\ toggle[t].key = k /\ toggle[t].stage \notin {"none", "over"})
<1>1. \A u \in Switches!Toggles \ {t} : /\ Switching(u)' <=> Switching(u)
                                        /\ toggle'[u].stage = toggle[u].stage
  BY DEF Switching, Switches!AtWork, Switches!Passive
<1>2. ASSUME NEW w, NEW k, Awaited(w, k)
      PROVE  Awaited(w, k)' \/ (toggle[t].by = w /\ toggle[t].key = k /\ toggle[t].stage \notin {"none", "over"})
  BY <1>2 DEF Awaited
<1> QED  BY <1>1, <1>2

LEMMA PressStep ==
  ASSUME SwitchInv, NEW t \in Switches!Toggles, NEW w \in Windows, NEW k \in Switches!Shown,
         Switches!Press(t, w, k)
  PROVE  SwitchInv'
<1> DEFINE q == [stage |-> "sent", by |-> w, key |-> k, value |-> ~view[w][k]]
<1>0. SwitchTypes /\ SwitchWork /\ WindowsTold /\ k \in Switches!Keys
  BY SwitchFacts DEF SwitchInv
<1>1. /\ toggle[t].stage = "none"
      /\ toggle' = [toggle EXCEPT ![t] = q] /\ view' = [view EXCEPT ![w][k] = ~@]
      /\ UNCHANGED <<switched, flag, door, feed, blurred, missed>>
  BY DEF Switches!Press, Switches!IsNext
<1>2. q \in CallOf /\ q.stage = "sent" /\ q.by = w /\ q.key = k
  BY <1>0 DEF SwitchTypes, CallOf
<1> HIDE DEF q
<1>3. /\ toggle' \in [Switches!Toggles -> CallOf] /\ toggle'[t] = q
      /\ \A u \in Switches!Toggles \ {t} : toggle'[u] = toggle[u]
  BY <1>0, <1>1, <1>2 DEF SwitchTypes
<1>4. view' \in [Windows -> [Switches!Shown -> BOOLEAN]]
  BY <1>0, <1>1 DEF SwitchTypes
<1>5. SwitchTypes'
  BY <1>0, <1>1, <1>3, <1>4 DEF SwitchTypes
<1>6. SwitchWork'
  BY <1>0, <1>1, <1>2, <1>3, WorkKept
<1>7. ASSUME NEW x \in Windows, NEW j \in Switches!Shown, view[x][j] = flag[j] \/ Awaited(x, j)
      PROVE  (view[x][j] = flag[j])' \/ Awaited(x, j)'
  <2>1. CASE x = w /\ j = k
    BY <1>2, <1>3, <2>1 DEF Awaited
  <2>2. CASE ~(x = w /\ j = k)
    <3>1. view'[x][j] = view[x][j] /\ flag'[j] = flag[j]
      BY <1>0, <1>1, <2>2 DEF SwitchTypes
    <3>2. Awaited(x, j) => Awaited(x, j)'
      BY <1>0, <1>1, <1>3, OthersKept
    <3> QED  BY <1>7, <3>1, <3>2
  <2> QED  BY <2>1, <2>2
<1>8. WindowsTold'
  BY <1>0, <1>1, <1>7, ToldKept
<1> QED  BY <1>5, <1>6, <1>8 DEF SwitchInv

LEMMA PostStep ==
  ASSUME SwitchInv, NEW t \in Switches!Toggles, NEW k \in Switches!Keys, NEW v \in BOOLEAN,
         Switches!Post(t, k, v)
  PROVE  SwitchInv'
<1> DEFINE q == [stage |-> "sent", by |-> Switches!Route, key |-> k, value |-> v]
<1>0. SwitchTypes /\ SwitchWork /\ WindowsTold
  BY DEF SwitchInv
<1>1. /\ toggle[t].stage = "none" /\ toggle' = [toggle EXCEPT ![t] = q]
      /\ UNCHANGED <<switched, flag, door, feed, view, blurred, missed>>
  BY DEF Switches!Post, Switches!IsNext
<1>2. q \in CallOf /\ q.stage = "sent"
  BY DEF CallOf
<1> HIDE DEF q
<1>3. /\ toggle' \in [Switches!Toggles -> CallOf] /\ toggle'[t] = q
      /\ \A u \in Switches!Toggles \ {t} : toggle'[u] = toggle[u]
  BY <1>0, <1>1, <1>2 DEF SwitchTypes
<1>4. SwitchTypes'
  BY <1>0, <1>1, <1>3 DEF SwitchTypes
<1>5. SwitchWork'
  BY <1>0, <1>1, <1>2, <1>3, WorkKept
<1>6. \A x, j : Awaited(x, j) => Awaited(x, j)'
  BY <1>0, <1>1, <1>3, OthersKept
<1>7. WindowsTold'
  BY <1>0, <1>1, <1>6, ToldKept
<1> QED  BY <1>4, <1>5, <1>7 DEF SwitchInv

LEMMA BeginsStep ==
  ASSUME SwitchInv, NEW t \in Switches!Toggles, Switches!Begins(t)
  PROVE  SwitchInv'
<1> DEFINE key == toggle[t].key
           v == toggle[t].value
<1>0. SwitchTypes /\ SwitchWork /\ WindowsTold /\ key \in Switches!Keys /\ v \in BOOLEAN
  BY CallFacts DEF SwitchInv
<1>1. toggle[t].stage = "sent" /\ UNCHANGED <<door, view>> /\ ~Switching(t)
  BY DEF Switches!Begins, Switching, Switches!AtWork
<1>2. CASE Switches!AtOnce(t)
  <2>1. Switches!Commits(t, ~Switches!Overlaps(t)) /\ switched' = switched
    BY <1>2 DEF Switches!Begins
  <2> DEFINE clean == ~Switches!Overlaps(t)
  <2> HIDE DEF clean
  <2>3. Switches!Commits(t, clean)
    BY <2>1 DEF clean
  <2>4. /\ flag' \in [Switches!Keys -> BOOLEAN] /\ feed' \in [Windows -> Seq(Mentions)]
        /\ missed' \in [Windows -> SUBSET Switches!Keys] /\ blurred' \in BOOLEAN
        /\ toggle' = [toggle EXCEPT ![t].stage = "over"]
        /\ WindowsTold'
        /\ Switches!Passive(t) /\ ~blurred' =>
             clean /\ \A k \in DOMAIN Switches!Modes : flag'[k] <=> toggle[t].value /\ k = toggle[t].key
        /\ ~Switches!Passive(t) => /\ blurred' = blurred
                                   /\ \A k \in DOMAIN Switches!Modes : flag'[k] = flag[k]
    BY <1>1, <2>3, CommitFacts
  <2>5. /\ toggle' \in [Switches!Toggles -> CallOf] /\ toggle'[t].stage = "over"
        /\ \A u \in Switches!Toggles \ {t} : toggle'[u] = toggle[u]
    BY <1>0, <2>4, StageFacts
  <2>6. SwitchTypes'
    BY <1>0, <1>1, <2>1, <2>4, <2>5 DEF SwitchTypes
  <2>7. ~Switching(t)' /\ \A u \in Switches!Toggles : Switching(u)' <=> Switching(u)
    <3>1. ~Switching(t)'
      BY <2>5 DEF Switching, Switches!AtWork
    <3> QED  BY <1>0, <1>1, <2>5, <3>1, OthersKept
  <2>8. ASSUME ~blurred', \A u \in Switches!Toggles : ~Switching(u)' PROVE Matches'
    <3>1. CASE Switches!Passive(t)
      <4>1. switched = IF v THEN Switches!Modes[key] ELSE "off"
        BY <1>2, <3>1 DEF Switches!AtOnce
      <4>2. \A k \in DOMAIN Switches!Modes : flag'[k] <=> v /\ k = key
        BY <2>4, <2>8, <3>1
      <4>3. key \in DOMAIN Switches!Modes
        BY <3>1 DEF Switches!Passive
      <4> QED  BY <2>1, <4>1, <4>2, <4>3, SwitchFacts DEF Matches
    <3>2. CASE ~Switches!Passive(t)
      <4>1. ~blurred
        BY <2>4, <2>8, <3>2
      <4>2. Matches
        BY <1>0, <2>7, <2>8, <4>1 DEF SwitchWork
      <4> QED  BY <2>1, <2>4, <3>2, <4>2 DEF Matches
    <3> QED  BY <3>1, <3>2
  <2>9. SwitchWork'
    <3>1. ASSUME NEW u \in Switches!Toggles, Switching(u)', toggle'[u].stage = "working"
          PROVE  switched' = "off" /\ \A x \in Switches!Toggles \ {u} : ~Switching(x)'
      <4>1. u # t /\ Switching(u) /\ toggle[u].stage = "working"
        BY <2>5, <2>7, <3>1
      <4> QED  BY <1>0, <2>1, <2>7, <4>1 DEF SwitchWork
    <3> QED  BY <2>8, <3>1 DEF SwitchWork
  <2> QED  BY <2>4, <2>6, <2>9 DEF SwitchInv
<1>3. CASE ~Switches!AtOnce(t)
  <2> DEFINE late(u) == IF u # t \/ (Switches!Passive(t) /\ Switches!Overlaps(t)) THEN "overlapped" ELSE "working"
             calm(u) == u # t /\ ~(Switches!AtWork(u) /\ Switches!Passive(u) /\ Switches!Passive(t))
  <2>1. /\ switched' = IF Switches!Passive(t) THEN "off" ELSE switched
        /\ toggle' = [u \in Switches!Toggles |->
             IF calm(u) THEN toggle[u] ELSE [toggle[u] EXCEPT !.stage = late(u)]]
        /\ UNCHANGED <<flag, feed, blurred, missed>>
    BY <1>3 DEF Switches!Begins
  <2>2. \A u \in Switches!Toggles : late(u) \in {"overlapped", "working"}
    OBVIOUS
  <2>3. \A u \in Switches!Toggles : calm(u) => toggle'[u] = toggle[u]
    BY <2>1
  <2>4. ASSUME NEW u \in Switches!Toggles, ~calm(u)
        PROVE  toggle'[u].stage = late(u) /\ toggle[u].stage \notin {"none", "over"}
    <3>1. toggle'[u] = [toggle[u] EXCEPT !.stage = late(u)]
      BY <2>1, <2>4
    <3>2. toggle[u] \in CallOf
      BY <1>0 DEF SwitchTypes
    <3> HIDE DEF late
    <3>3. toggle'[u].stage = late(u)
      BY <3>1, <3>2 DEF CallOf
    <3> QED  BY <1>1, <2>4, <3>3 DEF Switches!AtWork
  <2>5. ASSUME NEW u \in Switches!Toggles
        PROVE  /\ toggle'[u].by = toggle[u].by /\ toggle'[u].key = toggle[u].key
               /\ toggle'[u] \in CallOf
    <3>1. toggle[u] \in CallOf
      BY <1>0 DEF SwitchTypes
    <3>2. CASE calm(u)
      BY <2>3, <3>1, <3>2
    <3>3. CASE ~calm(u)
      <4>1. toggle'[u] = [toggle[u] EXCEPT !.stage = late(u)] /\ late(u) \in {"overlapped", "working"}
        BY <2>1, <2>2, <3>3
      <4> HIDE DEF late
      <4> QED  BY <3>1, <4>1 DEF CallOf
    <3> QED  BY <3>2, <3>3
  <2>6. SwitchTypes'
    <3>1. toggle' \in [Switches!Toggles -> CallOf]
      <4> HIDE DEF late, calm
      <4> QED  BY <2>1, <2>5
    <3> QED  BY <1>0, <1>1, <2>1, <3>1 DEF SwitchTypes
  <2>7. \A u \in Switches!Toggles \ {t} : Switching(u)' <=> Switching(u)
    <3>1. ASSUME NEW u \in Switches!Toggles \ {t} PROVE Switching(u)' <=> Switching(u)
      <4>1. CASE calm(u)
        BY <2>3, <4>1 DEF Switching, Switches!AtWork, Switches!Passive
      <4>2. CASE ~calm(u)
        <5>1. Switching(u) /\ toggle'[u].stage = "overlapped" /\ toggle'[u].key = toggle[u].key
          BY <2>4, <2>5, <4>2 DEF Switching
        <5> QED  BY <5>1 DEF Switching, Switches!AtWork, Switches!Passive
      <4> QED  BY <4>1, <4>2
    <3> QED  BY <3>1
  <2>8. Switches!Passive(t)' <=> Switches!Passive(t)
    BY <2>5 DEF Switches!Passive
  <2>9. ~calm(t) /\ toggle'[t].stage \in {"overlapped", "working"}
    BY <2>2, <2>4
  <2>10. SwitchWork'
    <3>1. CASE Switches!Passive(t)
      <4>1. ASSUME NEW u \in Switches!Toggles, Switching(u)', toggle'[u].stage = "working"
            PROVE  \A x \in Switches!Toggles \ {u} : ~Switching(x)'
        <5>1. u = t
          <6>1. ASSUME u # t PROVE FALSE
            <7>1. Switching(u)
              BY <2>7, <4>1, <6>1
            <7>2. ~calm(u)
              BY <3>1, <7>1 DEF Switching
            <7> QED  BY <2>4, <4>1, <6>1, <7>2
          <6> QED  BY <6>1
        <5>2. ~Switches!Overlaps(t)
          BY <2>4, <2>9, <3>1, <4>1, <5>1
        <5>3. \A x \in Switches!Toggles \ {t} : ~Switching(x)
          BY <5>2 DEF Switches!Overlaps, Switching
        <5> QED  BY <2>7, <5>1, <5>3
      <4>2. Switching(t)'
        BY <2>8, <2>9, <3>1 DEF Switching, Switches!AtWork
      <4>3. switched' = "off"
        BY <2>1, <3>1
      <4> QED  BY <4>1, <4>2, <4>3 DEF SwitchWork
    <3>2. CASE ~Switches!Passive(t)
      <4>1. ~Switching(t)'
        BY <2>8, <3>2 DEF Switching
      <4>2. \A u \in Switches!Toggles : Switching(u)' <=> Switching(u)
        BY <1>1, <2>7, <4>1
      <4>3. \A u \in Switches!Toggles : Switching(u) => toggle'[u].stage = toggle[u].stage
        BY <1>1, <2>3, <3>2
      <4>4. switched' = switched
        BY <2>1, <3>2
      <4> HIDE DEF late, calm
      <4> QED  BY <1>0, <2>1, <4>2, <4>3, <4>4 DEF SwitchWork, Matches
    <3> QED  BY <3>1, <3>2
  <2>11. ASSUME NEW x, NEW j, Awaited(x, j) PROVE Awaited(x, j)'
    <3>1. PICK u \in Switches!Toggles : toggle[u].by = x /\ toggle[u].key = j /\ toggle[u].stage \notin {"none", "over"}
      BY <2>11 DEF Awaited
    <3>2. toggle'[u].stage \notin {"none", "over"}
      BY <2>2, <2>3, <2>4, <3>1
    <3> QED  BY <2>5, <3>1, <3>2 DEF Awaited
  <2>12. WindowsTold'
    <3> HIDE DEF late, calm
    <3> QED  BY <1>0, <1>1, <2>1, <2>11, ToldKept
  <2> QED  BY <2>6, <2>10, <2>12 DEF SwitchInv
<1> QED  BY <1>2, <1>3

LEMMA ReturnsStep ==
  ASSUME SwitchInv, NEW t \in Switches!Toggles, Switches!Returns(t)
  PROVE  SwitchInv'
<1> DEFINE key == toggle[t].key
           v == toggle[t].value
           clean == toggle[t].stage = "working"
<1>0. SwitchTypes /\ SwitchWork /\ WindowsTold /\ key \in Switches!Keys /\ v \in BOOLEAN
  BY CallFacts DEF SwitchInv
<1>1. /\ toggle[t].stage \in {"working", "overlapped"} /\ UNCHANGED <<door, view>>
      /\ switched' = IF Switches!Passive(t) /\ v THEN Switches!Modes[key] ELSE switched
      /\ Switches!Commits(t, clean)
  BY DEF Switches!Returns, Switches!AtWork
<1>2. Switching(t) <=> Switches!Passive(t)
  BY <1>1 DEF Switching, Switches!AtWork
<1> HIDE DEF clean
<1>4. /\ flag' \in [Switches!Keys -> BOOLEAN] /\ feed' \in [Windows -> Seq(Mentions)]
      /\ missed' \in [Windows -> SUBSET Switches!Keys] /\ blurred' \in BOOLEAN
      /\ toggle' = [toggle EXCEPT ![t].stage = "over"]
      /\ WindowsTold'
      /\ Switches!Passive(t) /\ ~blurred' =>
           clean /\ \A k \in DOMAIN Switches!Modes : flag'[k] <=> toggle[t].value /\ k = toggle[t].key
      /\ ~Switches!Passive(t) => /\ blurred' = blurred
                                 /\ \A k \in DOMAIN Switches!Modes : flag'[k] = flag[k]
  BY <1>1, CommitFacts
<1>5. /\ toggle' \in [Switches!Toggles -> CallOf] /\ toggle'[t].stage = "over"
      /\ \A u \in Switches!Toggles \ {t} : toggle'[u] = toggle[u]
  BY <1>0, <1>4, StageFacts
<1>6. SwitchTypes'
  <2>1. switched' \in {"off", "continuous", "wake"}
    BY <1>0, <1>1, SwitchFacts DEF Switches!Passive, SwitchTypes
  <2> QED  BY <1>0, <1>1, <1>4, <1>5, <2>1 DEF SwitchTypes
<1>7. ~Switching(t)' /\ \A u \in Switches!Toggles \ {t} : Switching(u)' <=> Switching(u)
  <2>1. ~Switching(t)'
    BY <1>5 DEF Switching, Switches!AtWork
  <2> QED  BY <1>0, <1>5, <2>1, OthersKept
<1>8. ASSUME ~blurred', \A u \in Switches!Toggles : ~Switching(u)' PROVE Matches'
  <2>1. CASE Switches!Passive(t)
    <3>1. clean /\ \A k \in DOMAIN Switches!Modes : flag'[k] <=> v /\ k = key
      BY <1>4, <1>8, <2>1
    <3>2. switched = "off"
      BY <1>0, <1>2, <2>1, <3>1 DEF SwitchWork, clean
    <3>3. key \in DOMAIN Switches!Modes
      BY <2>1 DEF Switches!Passive
    <3> QED  BY <1>0, <1>1, <2>1, <3>1, <3>2, <3>3, SwitchFacts DEF Matches
  <2>2. CASE ~Switches!Passive(t)
    <3>1. ~blurred /\ \A u \in Switches!Toggles : ~Switching(u)
      BY <1>2, <1>4, <1>7, <1>8, <2>2
    <3>2. Matches
      BY <1>0, <3>1 DEF SwitchWork
    <3> QED  BY <1>1, <1>4, <2>2, <3>2 DEF Matches
  <2> QED  BY <2>1, <2>2
<1>9. SwitchWork'
  <2>1. ASSUME NEW u \in Switches!Toggles, Switching(u)', toggle'[u].stage = "working"
        PROVE  switched' = "off" /\ \A x \in Switches!Toggles \ {u} : ~Switching(x)'
    <3>1. u # t /\ Switching(u) /\ toggle[u].stage = "working"
      BY <1>5, <1>7, <2>1
    <3>2. switched = "off" /\ \A x \in Switches!Toggles \ {u} : ~Switching(x)
      BY <1>0, <3>1 DEF SwitchWork
    <3>3. ~Switches!Passive(t)
      BY <1>2, <3>1, <3>2
    <3> QED  BY <1>1, <1>7, <3>2, <3>3
  <2> QED  BY <1>8, <2>1 DEF SwitchWork
<1> QED  BY <1>4, <1>6, <1>9 DEF SwitchInv

LEMMA FailsStep ==
  ASSUME SwitchInv, NEW t \in Switches!Toggles, Switches!Fails(t)
  PROVE  SwitchInv'
<1> DEFINE f == [k \in {"live_wake"} |-> FALSE]
<1>0. SwitchTypes /\ SwitchWork /\ WindowsTold
  BY DEF SwitchInv
<1>1. /\ toggle[t].stage \in {"working", "overlapped"} /\ Switches!Passive(t) /\ Switching(t)
      /\ toggle' = [toggle EXCEPT ![t].stage = "over"]
      /\ blurred' = (blurred \/ toggle[t].stage = "overlapped" \/ \E k \in DOMAIN Switches!Modes : flag[k])
      /\ feed' = IF toggle[t].by = Switches!Route THEN feed ELSE Switches!Tells(f)
      /\ missed' = [w \in Windows |->
           IF toggle[t].by = Switches!Route THEN missed[w]
           ELSE IF flag.live_wake \/ door[w] = "greeted" THEN missed[w] \cup {"live_wake"}
           ELSE IF door[w] = "fed" THEN missed[w] \ {"live_wake"} ELSE missed[w]]
      /\ UNCHANGED <<switched, flag, door, view>>
  BY DEF Switches!Fails, Switches!Over, Switching, Switches!AtWork
<1>2. DOMAIN f = {"live_wake"} /\ f["live_wake"] = FALSE /\ f \in Mentions
  <2>1. {"live_wake"} \in SUBSET Switches!Keys /\ f \in [{"live_wake"} -> BOOLEAN]
    BY SwitchFacts
  <2> QED  BY <2>1 DEF Mentions
<1> HIDE DEF f
<1>3. /\ toggle' \in [Switches!Toggles -> CallOf] /\ toggle'[t].stage = "over"
      /\ \A u \in Switches!Toggles \ {t} : toggle'[u] = toggle[u]
  BY <1>0, <1>1, StageFacts
<1>4. /\ feed' \in [Windows -> Seq(Mentions)]
      /\ \A w \in Windows : feed'[w] = IF toggle[t].by # Switches!Route /\ door[w] = "fed"
                                        THEN Append(feed[w], f) ELSE feed[w]
  <2>1. Switches!Tells(f) = [w \in Windows |-> IF door[w] = "fed" THEN Append(feed[w], f) ELSE feed[w]]
    BY DEF Switches!Tells
  <2>2. \A w \in Windows : feed[w] \in Seq(Mentions) /\ Append(feed[w], f) \in Seq(Mentions)
    BY <1>0, <1>2, AppendProperties DEF SwitchTypes
  <2>3. feed \in [Windows -> Seq(Mentions)]
    BY <1>0 DEF SwitchTypes
  <2> QED  BY <1>1, <2>1, <2>2, <2>3
<1>5. missed' \in [Windows -> SUBSET Switches!Keys]
  BY <1>0, <1>1, SwitchFacts DEF SwitchTypes
<1>6. SwitchTypes'
  <2>1. blurred' \in BOOLEAN
    BY <1>0, <1>1 DEF SwitchTypes
  <2> QED  BY <1>0, <1>1, <1>3, <1>4, <1>5, <2>1 DEF SwitchTypes
<1>7. ~Switching(t)' /\ \A u \in Switches!Toggles \ {t} : Switching(u)' <=> Switching(u)
  <2>1. ~Switching(t)'
    BY <1>3 DEF Switching, Switches!AtWork
  <2> QED  BY <1>0, <1>3, <2>1, OthersKept
<1>8. SwitchWork'
  <2>1. ASSUME NEW u \in Switches!Toggles, Switching(u)', toggle'[u].stage = "working" PROVE FALSE
    <3>1. u # t /\ Switching(u) /\ toggle[u].stage = "working"
      BY <1>3, <1>7, <2>1
    <3> QED  BY <1>0, <1>1, <3>1 DEF SwitchWork
  <2>2. ASSUME ~blurred' PROVE Matches'
    <3>1. toggle[t].stage = "working" /\ \A k \in DOMAIN Switches!Modes : ~flag[k]
      BY <1>1, <2>2
    <3>2. switched = "off"
      BY <1>0, <1>1, <3>1 DEF SwitchWork
    <3> QED  BY <1>1, <3>1, <3>2, SwitchFacts DEF Matches
  <2> QED  BY <2>1, <2>2 DEF SwitchWork
<1>9. ASSUME NEW w \in Windows, door[w] # "closed", NEW k \in Switches!Shown \ missed'[w]
      PROVE  ToldOf(w, k)'
  <2>0. /\ feed[w] \in Seq(Mentions) /\ door[w] \in {"greeted", "fed"} /\ k \in Switches!Keys
        /\ flag'[k] = flag[k] /\ view'[w][k] = view[w][k] /\ w # Switches!Route
    BY <1>0, <1>1, <1>9, SwitchFacts DEF SwitchTypes
  <2>1. CASE toggle[t].by = Switches!Route
    <3>1. k \notin missed[w] /\ feed'[w] = feed[w]
      BY <1>1, <1>4, <1>9, <2>1
    <3>2. ToldOf(w, k)
      BY <1>0, <1>9, <3>1 DEF WindowsTold, ToldOf
    <3>3. Awaited(w, k) => Awaited(w, k)'
      BY <1>0, <1>3, <2>0, <2>1, OthersKept
    <3> QED  BY <2>0, <3>1, <3>2, <3>3 DEF ToldOf
  <2>2. CASE toggle[t].by # Switches!Route /\ k = "live_wake"
    <3>1. ~flag[k] /\ door[w] = "fed"
      BY <1>1, <1>9, <2>0, <2>2
    <3>2. Says(Append(feed[w], f), k, f[k])
      BY <1>2, <2>0, <2>2, SaysAppend
    <3>3. feed'[w] = Append(feed[w], f) /\ f[k] = flag'[k]
      <4>1. flag[k] \in BOOLEAN
        BY <1>0, <2>0 DEF SwitchTypes
      <4> QED  BY <1>2, <1>4, <2>0, <2>2, <3>1, <4>1
    <3>4. Says(feed'[w], k, flag'[k])
      BY <3>2, <3>3
    <3> QED  BY <3>4 DEF ToldOf
  <2>3. CASE toggle[t].by # Switches!Route /\ k # "live_wake"
    <3>1. k \notin missed[w] /\ k \notin DOMAIN f
      BY <1>1, <1>2, <1>9, <2>3
    <3>2. ToldOf(w, k)
      BY <1>0, <1>9, <3>1 DEF WindowsTold, ToldOf
    <3>3. k # toggle[t].key
      BY <1>1, <1>9, <2>3, SwitchFacts DEF Switches!Passive
    <3>4. Awaited(w, k) => Awaited(w, k)'
      BY <1>0, <1>3, <3>3, OthersKept
    <3>5. /\ Says(feed[w], k, flag[k]) => Says(Append(feed[w], f), k, flag[k])
          /\ Silent(feed[w], k) => Silent(Append(feed[w], f), k)
      BY <1>2, <2>0, <3>1, SaysAppend
    <3>6. feed'[w] = feed[w] \/ feed'[w] = Append(feed[w], f)
      BY <1>4
    <3>7. /\ Says(feed[w], k, flag[k]) => Says(feed'[w], k, flag[k])
          /\ Silent(feed[w], k) => Silent(feed'[w], k)
      BY <3>5, <3>6
    <3> QED  BY <2>0, <3>2, <3>4, <3>7 DEF ToldOf
  <2> QED  BY <2>1, <2>2, <2>3
<1>10. WindowsTold'
  <2>1. \A w \in Windows : door'[w] = "closed" => feed'[w] = <<>>
    BY <1>0, <1>1, <1>4 DEF WindowsTold
  <2> QED  BY <1>1, <1>9, <2>1 DEF WindowsTold, ToldOf
<1> QED  BY <1>6, <1>8, <1>10 DEF SwitchInv

LEMMA SwitchStep ==
  ASSUME SwitchInv, [CompanionNext]_<<part, voiceVars, showVars, sightVars, libraryVars, switchVars>>
  PROVE  SwitchInv'
<1>1. CASE UNCHANGED switchVars
  BY <1>1 DEF switchVars, SwitchInv, SwitchTypes, SwitchWork, Matches, Switching, Switches!AtWork,
              Switches!Passive, WindowsTold, Awaited
<1>2. CASE Switches!Next
  <2>1. \/ \E w \in Windows : Switches!Greet(w) \/ Switches!Subscribe(w) \/ Switches!Deliver(w)
        \/ \E t \in Switches!Toggles :
             \/ \E w \in Windows : \E k \in Switches!Shown : Switches!Press(t, w, k)
             \/ \E k \in Switches!Keys : \E v \in BOOLEAN : Switches!Post(t, k, v)
             \/ Switches!Begins(t) \/ Switches!Returns(t) \/ Switches!Fails(t)
    BY <1>2 DEF Switches!Next
  <2> QED  BY <2>1, GreetStep, DeliverStep, PressStep, PostStep, BeginsStep, ReturnsStep, FailsStep
<1> QED  BY <1>1, <1>2 DEF CompanionNext

\* With every call over, the modes agree, and so does a window to which nothing is under way.
LEMMA SwitchesAreTold == ASSUME SwitchInv PROVE Switches!TypeOK /\ Switches!ModesAreTold
<1>0. SwitchTypes /\ SwitchWork /\ WindowsTold
  BY DEF SwitchInv
<1>1. Switches!TypeOK
  BY <1>0, CallFacts DEF SwitchTypes, Switches!TypeOK
<1>2. ASSUME Switches!Idle PROVE \A t \in Switches!Toggles : toggle[t].stage \in {"none", "over"}
  BY <1>2 DEF Switches!Idle
<1>3. ASSUME Switches!Idle, ~blurred
      PROVE  \A k \in DOMAIN Switches!Modes : flag[k] <=> switched = Switches!Modes[k]
  <2>1. \A t \in Switches!Toggles : ~Switching(t)
    BY <1>2, <1>3 DEF Switching, Switches!AtWork
  <2> QED  BY <1>0, <1>3, <2>1 DEF SwitchWork, Matches
<1>4. ASSUME Switches!Idle, NEW w \in Windows, door[w] = "fed", feed[w] = <<>>, NEW k \in Switches!Shown \ missed[w]
      PROVE  view[w][k] = flag[k]
  <2>1. ~Awaited(w, k)
    BY <1>2, <1>4 DEF Awaited
  <2>2. ~Says(feed[w], k, flag[k])
    BY <1>4 DEF Says
  <2> QED  BY <1>0, <1>4, <2>1, <2>2 DEF WindowsTold
<1> QED  BY <1>1, <1>3, <1>4 DEF Switches!ModesAreTold

-----------------------------------------------------------------------------
\* A behaviour of the companion is one of the speech controller.
LEMMA VoiceStarts == CompanionInit => MicInv
BY MicInitially DEF CompanionInit, VoiceParts

LEMMA VoiceStep ==
  ASSUME MicInv, [CompanionNext]_<<part, voiceVars, showVars, sightVars, libraryVars, switchVars>>
  PROVE  MicInv'
<1>1. [Next]_vars
  BY DEF CompanionNext, VoiceNext, voiceVars
<1> QED  BY <1>1, MicStep

\* For any windows and any number of calls and of utterances: the microphone is as the user chose and as
\* the controller reports, the backend reports the mode that the controller is in, and every window shows
\* it, except where the properties say (ListeningIsRight).
THEOREM ListeningRight == CompanionSpec => []ListeningIsRight
<1>1. MicInv /\ SwitchInv => ListeningIsRight
  BY MicIsRight, SwitchesAreTold DEF ListeningIsRight
<1> QED  BY VoiceStarts, VoiceStep, SwitchStarts, SwitchStep, <1>1, PTL DEF CompanionSpec

-----------------------------------------------------------------------------
(* What the camera makes out: series of numbers                            *)

\* What every step keeps holds to the end.
LEMMA Carried ==
  ASSUME NEW n \in Nat, NEW T, T \subseteq 0..n, 0 \in T, \A i \in 1..n : i - 1 \in T => i \in T
  PROVE  T = 0..n
<1> DEFINE U == (0..n) \ T
<1>1. SUFFICES ASSUME U # {} PROVE FALSE
  OBVIOUS
<1>2. PICK m \in U : \A i \in U : m <= i
  <2>1. U \in SUBSET Nat
    OBVIOUS
  <2> HIDE DEF U
  <2> QED  BY <1>1, <2>1, LeastNumber
<1>3. m \in 1..n /\ m - 1 \in 0..n /\ m - 1 \notin U
  BY <1>2
<1> QED  BY <1>2, <1>3

\* What f is that starts with a and goes on by the steps of g.
Solves(f, n, a, g) == f = [i \in 0..n |-> IF i = 0 THEN a ELSE g[i][f[i - 1]]]

\* A recursion that has a step for each value has a solution.
LEMMA Recursion ==
  ASSUME NEW S, NEW n \in Nat, NEW a \in S, NEW g \in [1..n -> [S -> S]]
  PROVE  \E f \in [0..n -> S] : Solves(f, n, a, g)
<1> DEFINE SolvesTo(m, f) == f[0] = a /\ \A i \in 1..m : f[i] = g[i][f[i - 1]]
           T == {m \in 0..n : \E f \in [0..n -> S] : SolvesTo(m, f)}
<1>1. 0 \in T
  <2>1. [i \in 0..n |-> a] \in [0..n -> S] /\ SolvesTo(0, [i \in 0..n |-> a])
    OBVIOUS
  <2>2. 0 \in 0..n
    OBVIOUS
  <2> HIDE DEF SolvesTo
  <2> QED  BY <2>1, <2>2
<1>2. ASSUME NEW m \in 1..n, m - 1 \in T PROVE m \in T
  <2>1. PICK f \in [0..n -> S] : SolvesTo(m - 1, f)
    BY <1>2
  <2> DEFINE h == [f EXCEPT ![m] = g[m][f[m - 1]]]
  <2>2. g[m][f[m - 1]] \in S
    OBVIOUS
  <2>3. h \in [0..n -> S] /\ h[m] = g[m][f[m - 1]] /\ \A i \in 0..(m - 1) : h[i] = f[i]
    BY <2>2
  <2> HIDE DEF h
  <2>4. \A i \in 1..m : h[i] = g[i][h[i - 1]]
    <3>1. ASSUME NEW i \in 1..m PROVE h[i] = g[i][h[i - 1]]
      <4>1. CASE i = m
        <5>1. h[m - 1] = f[m - 1]
          BY <2>3
        <5> QED  BY <2>3, <4>1, <5>1
      <4>2. CASE i # m
        <5>1. i \in 1..(m - 1) /\ i \in 0..(m - 1) /\ i - 1 \in 0..(m - 1)
          BY <4>2
        <5> QED  BY <2>1, <2>3, <5>1
      <4> QED  BY <4>1, <4>2
    <3> QED  BY <3>1
  <2>5. h[0] = a
    BY <2>1, <2>3
  <2> QED  BY <2>3, <2>4, <2>5
<1>3. T = 0..n
  <2> HIDE DEF T
  <2>1. T \subseteq 0..n
    BY DEF T
  <2> QED  BY <1>1, <1>2, <2>1, Carried
<1>4. PICK f \in [0..n -> S] : SolvesTo(n, f)
  <2>1. n \in T
    <3> HIDE DEF T
    <3> QED  BY <1>3
  <2> HIDE DEF SolvesTo
  <2> QED  BY <2>1
<1>5. f = [i \in 0..n |-> f[i]]
  OBVIOUS
<1>6. \A i \in 0..n : f[i] = IF i = 0 THEN a ELSE g[i][f[i - 1]]
  BY <1>4
<1>7. [i \in 0..n |-> f[i]] = [i \in 0..n |-> IF i = 0 THEN a ELSE g[i][f[i - 1]]]
  BY <1>6
<1> QED  BY <1>5, <1>7 DEF Solves

\* The sum of a series of numbers is one.
LEMMA TotalTyped == ASSUME NEW series \in Seq(Int) PROVE Sight!Total(series) \in Int
<1> DEFINE n == Len(series)
           sum == CHOOSE f : f = [i \in 0..n |-> IF i = 0 THEN 0 ELSE f[i - 1] + series[i]]
           g == [i \in 1..n |-> [x \in Int |-> x + series[i]]]
           T == {i \in 0..n : sum[i] \in Int}
<1>0. n \in Nat /\ \A i \in 1..n : series[i] \in Int
  OBVIOUS
<1>1. Sight!Total(series) = sum[n]
  BY DEF Sight!Total
<1> HIDE DEF n
<1>2. \E f : f = [i \in 0..n |-> IF i = 0 THEN 0 ELSE f[i - 1] + series[i]]
  <2>1. g \in [1..n -> [Int -> Int]]
    BY <1>0
  <2>2. \A i \in 1..n : \A x \in Int : g[i][x] = x + series[i]
    BY <1>0
  <2> HIDE DEF g
  <2>3. PICK f \in [0..n -> Int] : Solves(f, n, 0, g)
    <3>1. 0 \in Int
      OBVIOUS
    <3> QED  BY <1>0, <2>1, <3>1, Recursion
  <2>4. \A i \in 0..n : (IF i = 0 THEN 0 ELSE g[i][f[i - 1]]) = IF i = 0 THEN 0 ELSE f[i - 1] + series[i]
    <3>1. \A i \in 0..n : i # 0 => i \in 1..n /\ i - 1 \in 0..n
      BY <1>0
    <3>2. \A i \in 0..n : i # 0 => f[i - 1] \in Int
      BY <2>3, <3>1
    <3> QED  BY <2>2, <3>1, <3>2
  <2>5. f = [i \in 0..n |-> IF i = 0 THEN 0 ELSE f[i - 1] + series[i]]
    BY <2>3, <2>4 DEF Solves
  <2> QED  BY <2>5
<1>3. sum = [i \in 0..n |-> IF i = 0 THEN 0 ELSE sum[i - 1] + series[i]]
  BY <1>2
<1> HIDE DEF sum
<1>4. 0 \in T /\ \A i \in 1..n : i - 1 \in T => i \in T
  BY <1>0, <1>3
<1>5. T = 0..n
  <2>1. T \subseteq 0..n
    OBVIOUS
  <2> HIDE DEF T
  <2> QED  BY <1>0, <1>4, <2>1, Carried
<1> QED  BY <1>0, <1>1, <1>5

LEMMA HandsTyped ==
  ASSUME NEW frames \in Seq([hands : Seq(Sight!Hands), head : Sight!Heads])
  PROVE  Sight!HandsOf(frames) \in Seq(Sight!Hands)
<1> DEFINE n == Len(frames)
           S == Seq(Sight!Hands)
           all == CHOOSE f : f = [i \in 0..n |-> IF i = 0 THEN <<>> ELSE f[i - 1] \o frames[i].hands]
           g == [i \in 1..n |-> [x \in S |-> x \o frames[i].hands]]
           T == {i \in 0..n : all[i] \in S}
<1>0. n \in Nat /\ (\A i \in 1..n : frames[i].hands \in S) /\ <<>> \in S
  <2>1. \A i \in 1..n : frames[i] \in [hands : Seq(Sight!Hands), head : Sight!Heads]
    <3> DEFINE R == [hands : Seq(Sight!Hands), head : Sight!Heads]
    <3>1. frames \in Seq(R)
      OBVIOUS
    <3> HIDE DEF R
    <3>2. \A i \in 1..n : frames[i] \in R
      BY <3>1
    <3> QED  BY <3>2 DEF R
  <2>2. <<>> \in S /\ n \in Nat
    OBVIOUS
  <2> HIDE DEF n, S
  <2>3. \A i \in 1..n : frames[i].hands \in Seq(Sight!Hands) /\ frames[i].head \in Sight!Heads
    BY <2>1
  <2> QED  BY <2>2, <2>3 DEF S
<1>1. Sight!HandsOf(frames) = all[n]
  BY DEF Sight!HandsOf
<1>2. \A x, y \in S : x \o y \in S
  OBVIOUS
<1> HIDE DEF n, S
<1>3. \E f : f = [i \in 0..n |-> IF i = 0 THEN <<>> ELSE f[i - 1] \o frames[i].hands]
  <2>1. g \in [1..n -> [S -> S]]
    BY <1>0, <1>2
  <2>2. \A i \in 1..n : \A x \in S : g[i][x] = x \o frames[i].hands
    OBVIOUS
  <2> HIDE DEF g
  <2>3. PICK f \in [0..n -> S] : Solves(f, n, <<>>, g)
    BY <1>0, <2>1, Recursion
  <2>4. \A i \in 0..n : (IF i = 0 THEN <<>> ELSE g[i][f[i - 1]]) = IF i = 0 THEN <<>> ELSE f[i - 1] \o frames[i].hands
    <3>1. \A i \in 0..n : i # 0 => i \in 1..n /\ i - 1 \in 0..n
      BY <1>0
    <3>2. \A i \in 0..n : i # 0 => f[i - 1] \in S
      BY <2>3, <3>1
    <3> QED  BY <2>2, <3>1, <3>2
  <2>5. f = [i \in 0..n |-> IF i = 0 THEN <<>> ELSE f[i - 1] \o frames[i].hands]
    BY <2>3, <2>4 DEF Solves
  <2> QED  BY <2>5
<1>4. all = [i \in 0..n |-> IF i = 0 THEN <<>> ELSE all[i - 1] \o frames[i].hands]
  BY <1>3
<1> HIDE DEF all
<1>5. 0 \in T /\ \A i \in 1..n : i - 1 \in T => i \in T
  <2>1. all[0] = <<>>
    BY <1>0, <1>4
  <2>2. ASSUME NEW i \in 1..n, i - 1 \in T PROVE i \in T
    <3>1. i \in 0..n /\ i # 0 /\ all[i - 1] \in S
      BY <1>0, <2>2
    <3> QED  BY <1>0, <1>2, <1>4, <3>1
  <2> QED  BY <1>0, <2>1, <2>2
<1>6. T = 0..n
  <2>1. T \subseteq 0..n
    OBVIOUS
  <2> HIDE DEF T
  <2> QED  BY <1>0, <1>5, <2>1, Carried
<1> QED  BY <1>0, <1>1, <1>6 DEF S

LEMMA HeadsTyped ==
  ASSUME NEW frames \in Seq([hands : Seq(Sight!Hands), head : Sight!Heads])
  PROVE  Sight!HeadsOf(frames) \in Seq(Sight!Heads)
<1> DEFINE n == Len(frames)
           S == Seq(Sight!Heads)
           all == CHOOSE f : f = [i \in 0..n |->
                    IF i = 0 THEN <<>>
                    ELSE IF frames[i].head.there THEN Append(f[i - 1], frames[i].head) ELSE f[i - 1]]
           g == [i \in 1..n |-> [x \in S |-> IF frames[i].head.there THEN Append(x, frames[i].head) ELSE x]]
           T == {i \in 0..n : all[i] \in S}
<1>0. n \in Nat /\ (\A i \in 1..n : frames[i].head \in Sight!Heads) /\ <<>> \in S
  <2>1. \A i \in 1..n : frames[i] \in [hands : Seq(Sight!Hands), head : Sight!Heads]
    <3> DEFINE R == [hands : Seq(Sight!Hands), head : Sight!Heads]
    <3>1. frames \in Seq(R)
      OBVIOUS
    <3> HIDE DEF R
    <3>2. \A i \in 1..n : frames[i] \in R
      BY <3>1
    <3> QED  BY <3>2 DEF R
  <2>2. <<>> \in S /\ n \in Nat
    OBVIOUS
  <2> HIDE DEF n, S
  <2>3. \A i \in 1..n : frames[i].hands \in Seq(Sight!Hands) /\ frames[i].head \in Sight!Heads
    BY <2>1
  <2> QED  BY <2>2, <2>3 DEF S
<1>1. Sight!HeadsOf(frames) = all[n]
  BY DEF Sight!HeadsOf
<1>2. \A x \in S : \A y \in Sight!Heads : Append(x, y) \in S
  OBVIOUS
<1> HIDE DEF n, S
<1>3. \E f : f = [i \in 0..n |->
                  IF i = 0 THEN <<>>
                  ELSE IF frames[i].head.there THEN Append(f[i - 1], frames[i].head) ELSE f[i - 1]]
  <2>1. g \in [1..n -> [S -> S]]
    BY <1>0, <1>2
  <2>2. \A i \in 1..n : \A x \in S : g[i][x] = IF frames[i].head.there THEN Append(x, frames[i].head) ELSE x
    OBVIOUS
  <2> HIDE DEF g
  <2>3. PICK f \in [0..n -> S] : Solves(f, n, <<>>, g)
    BY <1>0, <2>1, Recursion
  <2>4. \A i \in 0..n : (IF i = 0 THEN <<>> ELSE g[i][f[i - 1]]) =
                         IF i = 0 THEN <<>>
                         ELSE IF frames[i].head.there THEN Append(f[i - 1], frames[i].head) ELSE f[i - 1]
    <3>1. \A i \in 0..n : i # 0 => i \in 1..n /\ i - 1 \in 0..n
      BY <1>0
    <3>2. \A i \in 0..n : i # 0 => f[i - 1] \in S
      BY <2>3, <3>1
    <3> QED  BY <2>2, <3>1, <3>2
  <2>5. f = [i \in 0..n |->
                  IF i = 0 THEN <<>>
                  ELSE IF frames[i].head.there THEN Append(f[i - 1], frames[i].head) ELSE f[i - 1]]
    BY <2>3, <2>4 DEF Solves
  <2> QED  BY <2>5
<1>4. all = [i \in 0..n |->
               IF i = 0 THEN <<>>
               ELSE IF frames[i].head.there THEN Append(all[i - 1], frames[i].head) ELSE all[i - 1]]
  BY <1>3
<1> HIDE DEF all
<1>5. 0 \in T /\ \A i \in 1..n : i - 1 \in T => i \in T
  <2>1. all[0] = <<>>
    BY <1>0, <1>4
  <2>2. ASSUME NEW i \in 1..n, i - 1 \in T PROVE i \in T
    <3>1. i \in 0..n /\ i # 0 /\ all[i - 1] \in S
      BY <1>0, <2>2
    <3>2. all[i] = IF frames[i].head.there THEN Append(all[i - 1], frames[i].head) ELSE all[i - 1]
      BY <1>0, <1>4, <3>1
    <3>3. frames[i].head \in Sight!Heads
      BY <1>0
    <3>4. Append(all[i - 1], frames[i].head) \in S
      <4> DEFINE y == frames[i].head
                 x == all[i - 1]
      <4>1. x \in S /\ y \in Sight!Heads
        BY <3>1, <3>3
      <4> HIDE DEF x, y
      <4>2. Append(x, y) \in S
        BY <1>2, <4>1
      <4> QED  BY <4>2 DEF x, y
    <3>5. all[i] \in S
      <4> DEFINE x == all[i - 1]
                 y == Append(x, frames[i].head)
      <4>1. x \in S /\ y \in S /\ all[i] = IF frames[i].head.there THEN y ELSE x
        BY <3>1, <3>2, <3>4
      <4> HIDE DEF x, y
      <4> QED  BY <4>1
    <3> QED  BY <3>1, <3>5
  <2> QED  BY <1>0, <2>1, <2>2
<1>6. T = 0..n
  <2>1. T \subseteq 0..n
    OBVIOUS
  <2> HIDE DEF T
  <2> QED  BY <1>0, <1>5, <2>1, Carried
<1> QED  BY <1>0, <1>1, <1>6 DEF S

-----------------------------------------------------------------------------
LEMMA CardinalityInstance == \A S : Sight!Cardinality(S) = Cardinality(S)
  BY DEF Sight!Cardinality, Cardinality

LEMMA SignOf ==
  ASSUME NEW x \in Int PROVE (Sight!Sign(x) = 1 => x > 0) /\ (Sight!Sign(x) = -1 => x < 0)
  BY DEF Sight!Sign

LEMMA Opposites ==
  ASSUME NEW a, NEW b, {a, b} = {-1, 1} PROVE (a = 1 /\ b = -1) \/ (a = -1 /\ b = 1)
  OBVIOUS

LEMMA TwoOf ==
  ASSUME NEW n \in Nat, NEW S, S \subseteq 1..n, Cardinality(S) >= 2
  PROVE  \E i, j \in S : i < j
<1>1. S # {}
  BY FS_EmptySet
<1>2. PICK x \in S : TRUE
  BY <1>1
<1>3. S # {x}
  BY FS_Singleton
<1>4. PICK y \in S : y # x
  BY <1>2, <1>3
<1> QED  BY <1>2, <1>4

\* A product with a number that is not negative keeps the order.
LEMMA Above ==
  ASSUME NEW x \in Int, NEW y \in Int, NEW m \in Nat, NEW t \in Int, x * m - t > 0, y * m - t < 0
  PROVE  y < x
<1>1. x * m \in Int /\ y * m \in Int
  OBVIOUS
<1>2. y * m < x * m
  <2> DEFINE a == x * m
             b == y * m
  <2>1. a \in Int /\ b \in Int /\ a - t > 0 /\ b - t < 0
    BY <1>1
  <2> HIDE DEF a, b
  <2>2. b < a
    BY <2>1
  <2> QED  BY <2>2 DEF a, b
<1>3. ASSUME x <= y PROVE x * m <= y * m
  BY <1>3
<1> QED  BY <1>1, <1>2, <1>3

\* Two crossings of the mean are a turn.
LEMMA Turning ==
  ASSUME NEW series \in Seq(Int), Sight!Oscillates(series) PROVE Sight!Turns(series)
<1> DEFINE n == Len(series)
           total == Sight!Total(series)
           d(i) == series[i] * n - total
           sign(i) == Sight!Sign(d(i))
           Cross == {i \in DOMAIN series :
                       \E j \in 1..(i - 1) : /\ {sign(i), sign(j)} = {-1, 1}
                                             /\ \A k \in (j + 1)..(i - 1) : sign(k) = 0}
<1>1. Cardinality(Cross) >= 2
  <2>1. Sight!Crossings(series) = Cardinality(Cross)
    <3>1. Sight!Crossings(series) = Sight!Cardinality(Cross)
      BY DEF Sight!Crossings
    <3> HIDE DEF Cross
    <3> QED  BY <3>1, CardinalityInstance
  <2> HIDE DEF Cross
  <2> QED  BY <2>1 DEF Sight!Oscillates
<1>2. n \in Nat /\ total \in Int /\ DOMAIN series = 1..n /\ \A i \in 1..n : series[i] \in Int
  BY TotalTyped
<1>3. \A i \in 1..n : d(i) \in Int
  BY <1>2
<1>5. \A i \in Cross : i \in 1..n /\ \E j \in 1..(i - 1) : /\ {sign(i), sign(j)} = {-1, 1}
                                                            /\ \A k \in (j + 1)..(i - 1) : sign(k) = 0
  BY <1>2
<1> HIDE DEF sign, Cross, n
<1>6. PICK p, q \in Cross : p < q
  <2>1. Cross \subseteq 1..n
    BY <1>5
  <2> QED  BY <1>1, <1>2, <2>1, TwoOf
<1>8. PICK a \in 1..(p - 1) : {sign(p), sign(a)} = {-1, 1}
  BY <1>5
<1>9. PICK b \in 1..(q - 1) : {sign(q), sign(b)} = {-1, 1} /\ \A k \in (b + 1)..(q - 1) : sign(k) = 0
  BY <1>5
<1>10. p \in 1..n /\ q \in 1..n /\ a \in 1..n /\ b \in 1..n /\ a < p /\ b < q
  <2>1. p \in 1..n /\ q \in 1..n
    BY <1>5
  <2> QED  BY <1>2, <2>1
<1>11. ASSUME NEW i \in 1..n, NEW j \in 1..n, NEW k \in 1..n, i < j, j < k,
              {sign(j), sign(i)} = {-1, 1}, {sign(j), sign(k)} = {-1, 1}
       PROVE  Sight!Turns(series)
  <2>1. \/ sign(j) = 1 /\ sign(i) = -1 /\ sign(k) = -1
        \/ sign(j) = -1 /\ sign(i) = 1 /\ sign(k) = 1
    <3>1. (sign(j) = 1 /\ sign(i) = -1) \/ (sign(j) = -1 /\ sign(i) = 1)
      BY <1>11, Opposites
    <3>2. (sign(j) = 1 /\ sign(k) = -1) \/ (sign(j) = -1 /\ sign(k) = 1)
      BY <1>11, Opposites
    <3> QED  BY <3>1, <3>2
  <2>2. \/ d(j) > 0 /\ d(i) < 0 /\ d(k) < 0
        \/ d(j) < 0 /\ d(i) > 0 /\ d(k) > 0
    <3> HIDE DEF d
    <3>1. ASSUME NEW m \in 1..n PROVE (sign(m) = 1 => d(m) > 0) /\ (sign(m) = -1 => d(m) < 0)
      <4>1. d(m) \in Int
        BY <1>3
      <4>2. sign(m) = Sight!Sign(d(m))
        BY DEF sign
      <4> HIDE DEF d
      <4> QED  BY <4>1, <4>2, SignOf
    <3>2. CASE sign(j) = 1 /\ sign(i) = -1 /\ sign(k) = -1
      BY <1>11, <3>1, <3>2
    <3>3. CASE sign(j) = -1 /\ sign(i) = 1 /\ sign(k) = 1
      BY <1>11, <3>1, <3>3
    <3> QED  BY <2>1, <3>2, <3>3
  <2>3. series[i] \in Int /\ series[j] \in Int /\ series[k] \in Int
    BY <1>2
  <2>4. \/ series[i] < series[j] /\ series[k] < series[j]
        \/ series[i] > series[j] /\ series[k] > series[j]
    <3>1. CASE d(j) > 0 /\ d(i) < 0 /\ d(k) < 0
      <4>1. series[i] < series[j]
        BY <1>2, <2>3, <3>1, Above
      <4>2. series[k] < series[j]
        BY <1>2, <2>3, <3>1, Above
      <4> QED  BY <4>1, <4>2
    <3>2. CASE d(j) < 0 /\ d(i) > 0 /\ d(k) > 0
      <4>1. series[j] < series[i]
        BY <1>2, <2>3, <3>2, Above
      <4>2. series[j] < series[k]
        BY <1>2, <2>3, <3>2, Above
      <4> QED  BY <2>3, <4>1, <4>2
    <3> QED  BY <2>2, <3>1, <3>2
  <2> QED  BY <1>2, <1>11, <2>4 DEF Sight!Turns
<1>12. CASE {sign(p), sign(q)} = {-1, 1}
  BY <1>6, <1>8, <1>10, <1>11, <1>12
<1>13. CASE {sign(p), sign(q)} # {-1, 1}
  <2>1. sign(p) \in {-1, 1} /\ sign(q) \in {-1, 1}
    BY <1>8, <1>9
  <2>2. sign(q) = sign(p) /\ {sign(p), sign(b)} = {-1, 1}
    BY <1>9, <1>13, <2>1
  <2>3. p < b
    <3>1. p # b
      <4>1. {sign(p), sign(b)} = {-1, 1}
        BY <2>2
      <4>2. sign(p) # sign(b)
        <5>1. (sign(p) = 1 /\ sign(b) = -1) \/ (sign(p) = -1 /\ sign(b) = 1)
          BY <4>1, Opposites
        <5> QED  BY <5>1
      <4> QED  BY <4>2
    <3>2. ASSUME b < p PROVE FALSE
      <4>1. p \in (b + 1)..(q - 1)
        BY <1>2, <1>6, <1>10, <3>2
      <4> QED  BY <1>9, <2>1, <4>1
    <3> QED  BY <1>2, <1>10, <3>1, <3>2
  <2> QED  BY <1>8, <1>10, <1>11, <2>2, <2>3
<1> QED  BY <1>12, <1>13

-----------------------------------------------------------------------------
(* What the camera makes out: hands, movements and detections              *)

LEMMA GreatestNumber ==
  ASSUME NEW n \in Nat, NEW T \in SUBSET (0..n), T # {}
  PROVE  \E m \in T : \A i \in T : i <= m
<1> DEFINE U == {n - i : i \in T}
<1>1. U \in SUBSET Nat /\ U # {}
  <2>1. \A i \in T : i \in 0..n
    OBVIOUS
  <2>2. \A i \in T : n - i \in Nat
    BY <2>1
  <2>3. PICK i \in T : TRUE
    OBVIOUS
  <2>4. n - i \in U
    OBVIOUS
  <2> QED  BY <2>2, <2>4
<1>2. PICK u \in U : \A w \in U : u <= w
  <2> HIDE DEF U
  <2> QED  BY <1>1, LeastNumber
<1>3. PICK m \in T : u = n - m
  BY <1>2
<1>4. ASSUME NEW i \in T PROVE i <= m
  <2>1. n - i \in U
    OBVIOUS
  <2>2. u <= n - i
    BY <1>2, <2>1
  <2>3. i \in 0..n /\ m \in 0..n
    OBVIOUS
  <2> QED  BY <1>3, <2>2, <2>3
<1> QED  BY <1>4

LEMMA GreatestChosen ==
  ASSUME NEW n \in Nat, NEW T \in SUBSET (0..n), T # {} PROVE Sight!Max(T) \in T
<1>1. \E m \in T : \A i \in T : m >= i
  BY GreatestNumber
<1> QED  BY <1>1 DEF Sight!Max

\* The hand that is seen most often is one that is seen.
LEMMA MajorityFacts ==
  ASSUME NEW hands \in Seq(Sight!Hands), hands # <<>> PROVE Sight!Majority(hands) \in {"left", "right"}
<1> DEFINE n == Len(hands)
           like(l) == {i \in DOMAIN hands : hands[i].side = l}
           count == [i \in 1..n |-> Cardinality(like(hands[i].side))]
           often == {i \in 1..n : \A j \in 1..n : count[j] <= count[i]}
           IsFirst(i) == /\ \A j \in DOMAIN hands : Cardinality(like(hands[j].side)) <= Cardinality(like(hands[i].side))
                         /\ \A j \in 1..(i - 1) : Cardinality(like(hands[j].side)) < Cardinality(like(hands[i].side))
<1>1. n \in Nat /\ n # 0 /\ DOMAIN hands = 1..n /\ \A i \in 1..n : hands[i] \in Sight!Hands
  OBVIOUS
<1>2. \A l : like(l) \subseteq 1..n /\ Cardinality(like(l)) \in 0..n
  <2>1. ASSUME NEW l PROVE like(l) \subseteq 1..n /\ Cardinality(like(l)) \in 0..n
    <3>1. like(l) \subseteq 1..n
      BY <1>1
    <3>2. IsFiniteSet(1..n) /\ Cardinality(1..n) = n
      BY <1>1, FS_Interval
    <3> HIDE DEF like, n
    <3> QED  BY <1>1, <3>1, <3>2, FS_Subset, FS_CardinalityType
  <2> QED  BY <2>1
<1>3. \A i \in 1..n : count[i] \in 0..n /\ count[i] = Cardinality(like(hands[i].side))
  <2> HIDE DEF like, n
  <2> QED  BY <1>2
<1>4. often # {}
  <2> DEFINE all == {count[i] : i \in 1..n}
  <2>1. all \in SUBSET (0..n) /\ all # {}
    <3>1. 1 \in 1..n
      BY <1>1
    <3>2. count[1] \in all
      BY <3>1
    <3> HIDE DEF n, count
    <3> QED  BY <1>3, <3>2
  <2> HIDE DEF all
  <2>2. PICK m \in all : \A c \in all : c <= m
    BY <1>1, <2>1, GreatestNumber
  <2> QED  BY <2>2 DEF all
<1>5. PICK i \in often : \A j \in often : i <= j
  <2>1. often \in SUBSET Nat
    BY <1>1
  <2> HIDE DEF often
  <2> QED  BY <1>4, <2>1, LeastNumber
<1>6. i \in 1..n /\ \A j \in 1..n : count[j] <= count[i]
  OBVIOUS
<1>7. ASSUME NEW j \in 1..(i - 1) PROVE count[j] < count[i]
  <2>1. j \in 1..n /\ j < i
    BY <1>1, <1>6
  <2>2. j \notin often
    <3> HIDE DEF often
    <3> QED  BY <1>1, <1>5, <1>6, <2>1
  <2>3. PICK k \in 1..n : ~(count[k] <= count[j])
    BY <2>1, <2>2
  <2>4. count[i] \in Int /\ count[j] \in Int /\ count[k] \in Int /\ count[k] <= count[i]
    <3> HIDE DEF count, like, n, often
    <3> QED  BY <1>3, <1>6, <2>1
  <2> HIDE DEF count, like, n, often
  <2> QED  BY <2>3, <2>4
<1>8. IsFirst(i)
  <2> HIDE DEF like, count, often
  <2>1. ASSUME NEW j \in 1..n
        PROVE  Cardinality(like(hands[j].side)) <= Cardinality(like(hands[i].side))
    BY <1>3, <1>6, <2>1
  <2>2. ASSUME NEW j \in 1..(i - 1)
        PROVE  Cardinality(like(hands[j].side)) < Cardinality(like(hands[i].side))
    <3>1. j \in 1..n
      BY <1>1, <1>6, <2>2
    <3> QED  BY <1>3, <1>6, <1>7, <2>2, <3>1
  <2> QED  BY <1>1, <2>1, <2>2
<1> DEFINE first == CHOOSE k \in DOMAIN hands : IsFirst(k)
<1>9. first \in DOMAIN hands
  <2>1. i \in DOMAIN hands
    BY <1>1, <1>6
  <2> HIDE DEF IsFirst
  <2> QED  BY <1>8, <2>1
<1>10. Sight!Majority(hands) = hands[first].side
  BY CardinalityInstance DEF Sight!Majority
<1> HIDE DEF first
<1>11. hands[first] \in Sight!Hands
  BY <1>1, <1>9
<1> QED  BY <1>10, <1>11 DEF Sight!Hands

\* What is found of a frame: something that is known, or nothing.
Findings == Sight!Keys \cup ({"none"} \X {"left", "right", "none"})

FramesOf == Seq([hands : Seq(Sight!Hands), head : Sight!Heads])

\* A way that is measured of each of a series.
LEMMA WaysTyped ==
  ASSUME NEW n \in Nat, NEW f \in [1..n -> Int] PROVE f \in Seq(Int) /\ Len(f) = n
  OBVIOUS

LEMMA MovementFacts ==
  ASSUME NEW frames \in FramesOf
  PROVE  /\ Sight!Movement(frames) \in Findings
         /\ LET m == Sight!Movement(frames)[1]
                hands == Sight!HandsOf(frames)
                heads == Sight!HeadsOf(frames)
            IN /\ m = "wave_motion" => Sight!Turns([i \in DOMAIN hands |-> hands[i].x])
               /\ m = "nodding" => Sight!Turns([i \in DOMAIN heads |-> heads[i].pitch])
               /\ m = "shaking_head" => Sight!Turns([i \in DOMAIN heads |-> heads[i].yaw])
<1> DEFINE hands == Sight!HandsOf(frames)
           heads == Sight!HeadsOf(frames)
           xs == [i \in DOMAIN hands |-> hands[i].x]
           pitches == [i \in DOMAIN heads |-> heads[i].pitch]
           yaws == [i \in DOMAIN heads |-> heads[i].yaw]
           raised == Sight!Cardinality({i \in DOMAIN hands : hands[i].raised})
           up == hands # <<>> /\ 10 * raised >= 8 * Len(hands)
           m == Sight!Movement(frames)
<1>1. hands \in Seq(Sight!Hands) /\ heads \in Seq(Sight!Heads)
  BY HandsTyped, HeadsTyped DEF FramesOf
<1>2. m = IF Len(frames) < 3 THEN <<"none", "none">>
          ELSE IF Sight!Oscillates(xs) THEN <<"wave_motion", Sight!Majority(hands)>>
          ELSE IF up THEN <<"raised_hand", hands[Len(hands)].side>>
          ELSE IF Sight!Oscillates(pitches) THEN <<"nodding", "head">>
          ELSE IF Sight!Oscillates(yaws) THEN <<"shaking_head", "head">>
          ELSE <<"none", "none">>
  BY DEF Sight!Movement
<1> HIDE DEF hands, heads
<1>3. xs \in Seq(Int) /\ Len(xs) = Len(hands)
  <2>1. Len(hands) \in Nat /\ DOMAIN hands = 1..Len(hands) /\ \A i \in 1..Len(hands) : hands[i].x \in Int
    <3>1. Len(hands) \in Nat /\ DOMAIN hands = 1..Len(hands) /\ \A i \in 1..Len(hands) : hands[i] \in Sight!Hands
      BY <1>1
    <3>2. \A h \in Sight!Hands : h.x \in Int
      BY DEF Sight!Hands
    <3> QED  BY <3>1, <3>2
  <2>2. xs \in [1..Len(hands) -> Int]
    BY <2>1
  <2> HIDE DEF xs
  <2> QED  BY <2>1, <2>2, WaysTyped
<1>4. pitches \in Seq(Int) /\ yaws \in Seq(Int)
  <2>1. Len(heads) \in Nat /\ DOMAIN heads = 1..Len(heads) /\ \A i \in 1..Len(heads) : heads[i].pitch \in Int /\ heads[i].yaw \in Int
    <3>1. Len(heads) \in Nat /\ DOMAIN heads = 1..Len(heads) /\ \A i \in 1..Len(heads) : heads[i] \in Sight!Heads
      BY <1>1
    <3>2. \A h \in Sight!Heads : h.pitch \in Int /\ h.yaw \in Int
      BY DEF Sight!Heads
    <3> QED  BY <3>1, <3>2
  <2>2. pitches \in [1..Len(heads) -> Int] /\ yaws \in [1..Len(heads) -> Int]
    BY <2>1
  <2> HIDE DEF pitches, yaws
  <2> QED  BY <2>1, <2>2, WaysTyped
<1> HIDE DEF xs, pitches, yaws
<1>5. Sight!Oscillates(xs) => hands # <<>> /\ Sight!Turns(xs)
  <2>1. ASSUME Sight!Oscillates(xs) PROVE hands # <<>>
    <3>1. Len(xs) >= 3
      BY <2>1 DEF Sight!Oscillates
    <3> QED  BY <1>3, <3>1
  <2> QED  BY <1>3, <2>1, Turning
<1>6. Sight!Oscillates(pitches) => Sight!Turns(pitches)
  BY <1>4, Turning
<1>7. Sight!Oscillates(yaws) => Sight!Turns(yaws)
  BY <1>4, Turning
<1>8. hands # <<>> => Sight!Majority(hands) \in {"left", "right"} /\ hands[Len(hands)].side \in {"left", "right"}
  <2>1. ASSUME hands # <<>> PROVE hands[Len(hands)] \in Sight!Hands
    BY <1>1, <2>1
  <2> QED  BY <1>1, <2>1, MajorityFacts DEF Sight!Hands
<1> DEFINE Right == /\ m[1] = "wave_motion" => Sight!Turns(xs)
                    /\ m[1] = "nodding" => Sight!Turns(pitches)
                    /\ m[1] = "shaking_head" => Sight!Turns(yaws)
<1>9. m \in Findings /\ Right
  <2>0. up => hands # <<>>
    OBVIOUS
  <2> HIDE DEF m, up
  <2>1. CASE m = <<"none", "none">>
    BY <2>1 DEF Findings
  <2>2. CASE Sight!Oscillates(xs) /\ m = <<"wave_motion", Sight!Majority(hands)>>
    BY <1>5, <1>8, <2>2 DEF Findings, Sight!Keys, Sight!Names
  <2>3. CASE up /\ m = <<"raised_hand", hands[Len(hands)].side>>
    BY <1>8, <2>0, <2>3 DEF Findings, Sight!Keys, Sight!Names
  <2>4. CASE Sight!Oscillates(pitches) /\ m = <<"nodding", "head">>
    BY <1>6, <2>4 DEF Findings, Sight!Keys, Sight!Names
  <2>5. CASE Sight!Oscillates(yaws) /\ m = <<"shaking_head", "head">>
    BY <1>7, <2>5 DEF Findings, Sight!Keys, Sight!Names
  <2>6. \/ m = <<"none", "none">>
        \/ Sight!Oscillates(xs) /\ m = <<"wave_motion", Sight!Majority(hands)>>
        \/ up /\ m = <<"raised_hand", hands[Len(hands)].side>>
        \/ Sight!Oscillates(pitches) /\ m = <<"nodding", "head">>
        \/ Sight!Oscillates(yaws) /\ m = <<"shaking_head", "head">>
    BY <1>2
  <2> QED  BY <2>1, <2>2, <2>3, <2>4, <2>5, <2>6
<1> HIDE DEF m
<1> QED  BY <1>9 DEF m, hands, heads, xs, pitches, yaws

-----------------------------------------------------------------------------
\* The ages of what was told: younger than the cooldown.
AgesOf(ages) ==
  /\ ages = [k \in DOMAIN ages |-> ages[k]] /\ DOMAIN ages \subseteq Sight!Keys
  /\ \A k \in DOMAIN ages : ages[k] \in 0..(Cooldown - 1)

DirectiveIsMapped == applied # Sight!NoDirective => applied.source[1] \in Mapped

AllAreTold == since = 0 => Sight!Detected(window) \subseteq DOMAIN detected

\* What holds when the camera is looked through: the debouncer holds back what was told within
\* the cooldown, and that has all that is detected now.
SightInv ==
  /\ since \in 0..Interval /\ window \in Seq(Scenes) /\ Len(window) <= WindowSize
  /\ AgesOf(seen) /\ detected = seen /\ hurried = FALSE
  /\ AllAreTold /\ DirectiveIsMapped

LEMMA SightAssumed ==
  /\ WindowSize \in Nat /\ WindowSize >= 3 /\ Interval \in Nat \ {0} /\ Cooldown \in Nat \ {0}
  /\ Seq(Scenes) \subseteq FramesOf
<1>1. Sight!PipelineBounds
  BY CompanionAssumption
<1>2. Scenes \subseteq [hands : Seq(Sight!Hands), head : Sight!Heads]
  BY <1>1 DEF Sight!PipelineBounds
<1>3. ASSUME NEW R, Scenes \subseteq R PROVE Seq(Scenes) \subseteq Seq(R)
  BY <1>3
<1>4. Seq(Scenes) \subseteq FramesOf
  BY <1>2, <1>3 DEF FramesOf
<1> QED  BY <1>1, <1>4 DEF Sight!PipelineBounds

\* What is found of the newest frame is known, and the movement last.
LEMMA DetectedFacts ==
  ASSUME NEW frames \in Seq(Scenes), frames # <<>>
  PROVE  /\ Sight!Found(frames) \in Seq(Findings)
         /\ Sight!Detected(frames) \subseteq Sight!Keys
<1> DEFINE hands == frames[Len(frames)].hands
           gestures == [i \in DOMAIN hands |-> <<Sight!Gesture(hands[i].up), hands[i].side>>]
           found == Sight!Found(frames)
<1>1. frames \in FramesOf
  BY SightAssumed
<1>2. hands \in Seq(Sight!Hands)
  <2> DEFINE R == [hands : Seq(Sight!Hands), head : Sight!Heads]
  <2>1. frames \in Seq(R)
    BY <1>1 DEF FramesOf
  <2> HIDE DEF R
  <2>2. frames[Len(frames)] \in R
    BY <2>1
  <2> QED  BY <2>2 DEF R
<1>3. Sight!Movement(frames) \in Findings
  BY <1>1, MovementFacts
<1>4. \A h \in Sight!Hands : <<Sight!Gesture(h.up), h.side>> \in Findings
  <2>1. ASSUME NEW h \in Sight!Hands PROVE <<Sight!Gesture(h.up), h.side>> \in Findings
    <3>1. h.side \in {"left", "right"}
      BY DEF Sight!Hands
    <3>2. Sight!Gesture(h.up) \in Sight!Names \cup {"none"}
      BY DEF Sight!Gesture, Sight!Names
    <3> QED  BY <3>1, <3>2 DEF Findings, Sight!Keys
  <2> QED  BY <2>1
<1>5. found = Append(gestures, Sight!Movement(frames))
  BY DEF Sight!Found
<1> HIDE DEF hands
<1>6. gestures \in Seq(Findings)
  <2>1. Len(hands) \in Nat /\ DOMAIN hands = 1..Len(hands) /\ \A i \in 1..Len(hands) : hands[i] \in Sight!Hands
    BY <1>2
  <2>2. gestures \in [1..Len(hands) -> Findings]
    BY <1>4, <2>1
  <2> HIDE DEF gestures
  <2> QED  BY <2>1, <2>2
<1> HIDE DEF gestures, found
<1>7. found \in Seq(Findings)
  BY <1>3, <1>5, <1>6
<1>8. ASSUME NEW k \in Sight!Range(found), k[1] # "none" PROVE k \in Sight!Keys
  <2>1. PICK i \in DOMAIN found : k = found[i]
    BY DEF Sight!Range
  <2>2. k \in Findings
    BY <1>7, <2>1
  <2> QED  BY <1>8, <2>2 DEF Findings
<1> QED  BY <1>7, <1>8 DEF found, Sight!Detected

\* A directive is of a detection that is mapped.
LEMMA AppliedFacts ==
  ASSUME NEW found \in Seq(Findings), NEW fresh, DirectiveIsMapped, applied' = Sight!Applied(found, fresh)
  PROVE  DirectiveIsMapped'
<1> DEFINE mapped == {i \in DOMAIN found : /\ found[i][1] \in Mapped /\ found[i] \in fresh
                                           /\ \A j \in 1..(i - 1) : found[j] # found[i]}
<1>1. applied' = IF mapped = {} THEN applied ELSE Sight!Directive(found[Sight!Max(mapped)])
  BY DEF Sight!Applied
<1>2. mapped \in SUBSET (0..Len(found)) /\ Len(found) \in Nat
  OBVIOUS
<1>3. \A i \in mapped : found[i][1] \in Mapped
  OBVIOUS
<1> HIDE DEF mapped
<1>4. CASE mapped = {}
  BY <1>1, <1>4 DEF DirectiveIsMapped, Sight!NoDirective
<1>5. CASE mapped # {}
  <2>1. Sight!Max(mapped) \in mapped
    BY <1>2, <1>5, GreatestChosen
  <2>2. found[Sight!Max(mapped)][1] \in Mapped
    BY <1>3, <2>1
  <2>3. applied'.source = found[Sight!Max(mapped)]
    BY <1>1, <1>5 DEF Sight!Directive
  <2> QED  BY <2>2, <2>3 DEF DirectiveIsMapped
<1> QED  BY <1>4, <1>5

\* Some time later the debouncer holds back what was told within the cooldown.
LEMMA LaterFacts ==
  ASSUME NEW ages, AgesOf(ages), NEW time \in Nat
  PROVE  AgesOf(Sight!Later(ages, time)) /\ Sight!Recent(ages, time) = Sight!Later(ages, time)
<1>1. Cooldown \in Nat \ {0}
  BY SightAssumed
<1>2. \A k \in DOMAIN ages : ages[k] \in Nat
  BY <1>1 DEF AgesOf
<1>3. {k \in DOMAIN ages : ages[k] + time < Cooldown} = {k \in DOMAIN ages : ~Sight!DebouncerAllows(ages[k] + time)}
  BY <1>1, <1>2 DEF Sight!DebouncerAllows
<1>4. Sight!Recent(ages, time) = Sight!Later(ages, time)
  BY <1>3 DEF Sight!Recent, Sight!Later
<1>5. AgesOf(Sight!Recent(ages, time))
  BY <1>1, <1>2 DEF AgesOf, Sight!Recent
<1> QED  BY <1>4, <1>5

LEMMA SightStarts == CompanionInit => SightInv
<1> SUFFICES ASSUME CompanionInit PROVE SightInv
  OBVIOUS
<1>1. Sight!Init
  BY DEF CompanionInit
<1>2. since = Interval /\ seen = <<>> /\ detected = <<>> /\ window = <<>> /\ hurried = FALSE
      /\ applied = Sight!NoDirective
  BY <1>1 DEF Sight!Init
<1>3. AgesOf(seen)
  <2>1. DOMAIN <<>> = {}
    OBVIOUS
  <2>2. <<>> = [k \in {} |-> <<>>[k]]
    OBVIOUS
  <2> QED  BY <1>2, <2>1, <2>2 DEF AgesOf
<1> QED  BY <1>2, <1>3, SightAssumed DEF SightInv, AllAreTold, DirectiveIsMapped

LEMMA FrameStep ==
  ASSUME SightInv, NEW f \in Scenes, NEW time \in 1..Interval, Sight!Frame(f, time) PROVE SightInv'
<1> DEFINE held == Sight!Later(seen, time)
           frames == Sight!Pushed(window, f)
           fresh == Sight!Detected(frames) \ DOMAIN held
<1>1. Interval \in Nat \ {0} /\ Cooldown \in Nat \ {0} /\ WindowSize \in Nat /\ WindowSize >= 3 /\ time \in Nat \ {0}
  BY SightAssumed
<1>2. AgesOf(held) /\ Sight!Recent(detected, time) = held
  <2>1. AgesOf(seen) /\ detected = seen
    BY DEF SightInv
  <2> QED  BY <1>1, <2>1, LaterFacts
<1>3. CASE Sight!ThrottleAllows(since + time)
  <2>1. /\ since' = 0 /\ window' = frames
        /\ seen' = Sight!Noted(held, fresh) /\ detected' = Sight!Noted(held, fresh)
        /\ hurried' = (hurried \/ fresh \cap DOMAIN held # {})
        /\ applied' = Sight!Applied(Sight!Found(frames), fresh)
    <3>1. /\ since' = 0 /\ window' = frames
          /\ seen' = Sight!Noted(held, fresh) /\ detected' = Sight!Noted(Sight!Recent(detected, time), fresh)
          /\ hurried' = (hurried \/ fresh \cap DOMAIN Sight!Recent(detected, time) # {})
          /\ applied' = Sight!Applied(Sight!Found(frames), fresh)
      BY <1>3 DEF Sight!Frame
    <3> HIDE DEF held, frames, fresh
    <3> QED  BY <1>2, <3>1
  <2>2. frames \in Seq(Scenes) /\ frames # <<>> /\ Len(frames) <= WindowSize
    <3>1. window \in Seq(Scenes) /\ Len(window) <= WindowSize
      BY DEF SightInv
    <3>2. CASE Len(window) >= WindowSize
      BY <1>1, <3>1, <3>2 DEF Sight!Pushed
    <3>3. CASE ~(Len(window) >= WindowSize)
      BY <1>1, <3>1, <3>3 DEF Sight!Pushed
    <3> QED  BY <3>2, <3>3
  <2> HIDE DEF held, frames
  <2>3. Sight!Found(frames) \in Seq(Findings) /\ Sight!Detected(frames) \subseteq Sight!Keys
    BY <2>2, DetectedFacts
  <2>4. AgesOf(Sight!Noted(held, fresh)) /\ Sight!Detected(frames) \subseteq DOMAIN Sight!Noted(held, fresh)
    BY <1>1, <1>2, <2>3 DEF AgesOf, Sight!Noted
  <2>5. hurried' = FALSE
    BY <2>1 DEF SightInv
  <2> HIDE DEF fresh
  <2>6. DirectiveIsMapped'
    BY <2>1, <2>3, AppliedFacts DEF SightInv
  <2>7. AllAreTold'
    BY <2>1, <2>4 DEF AllAreTold
  <2>8. AgesOf(seen')
    BY <2>1, <2>4
  <2> QED  BY <1>1, <2>1, <2>2, <2>5, <2>6, <2>7, <2>8 DEF SightInv
<1>4. CASE ~Sight!ThrottleAllows(since + time)
  <2>1. /\ since' = since + time /\ seen' = held /\ detected' = held
        /\ window' = window /\ applied' = applied /\ hurried' = hurried
    <3>1. /\ since' = since + time /\ seen' = held /\ detected' = Sight!Recent(detected, time)
          /\ window' = window /\ applied' = applied /\ hurried' = hurried
      BY <1>4 DEF Sight!Frame
    <3> QED  BY <1>2, <3>1
  <2> HIDE DEF held
  <2>2. since' \in 0..Interval /\ since' # 0
    <3>1. since \in 0..Interval /\ ~(since + time >= Interval)
      BY <1>4 DEF SightInv, Sight!ThrottleAllows
    <3> QED  BY <1>1, <2>1, <3>1
  <2>3. AgesOf(seen')
    BY <1>2, <2>1
  <2> QED  BY <2>1, <2>2, <2>3 DEF SightInv, AllAreTold, DirectiveIsMapped
<1> QED  BY <1>3, <1>4

LEMMA SightStep ==
  SightInv /\ [CompanionNext]_<<part, voiceVars, showVars, sightVars, libraryVars, switchVars>> => SightInv'
<1> SUFFICES ASSUME SightInv, [CompanionNext]_<<part, voiceVars, showVars, sightVars, libraryVars, switchVars>>
             PROVE  SightInv'
  OBVIOUS
<1>1. CASE Sight!Next
  BY <1>1, FrameStep DEF Sight!Next
<1>2. CASE UNCHANGED sightVars
  BY <1>2 DEF sightVars, SightInv, AllAreTold, DirectiveIsMapped
<1>3. Sight!Next \/ UNCHANGED sightVars
  BY DEF CompanionNext
<1> QED  BY <1>1, <1>2, <1>3

LEMMA SightIsRight == ASSUME SightInv PROVE Sight!TypeOK /\ Sight!DetectionsAreRight
<1>1. window \in FramesOf
  BY SightAssumed DEF SightInv
<1>2. Sight!TypeOK
  BY DEF SightInv, AgesOf, Sight!TypeOK
<1>3. ~hurried /\ AllAreTold /\ DirectiveIsMapped
  BY DEF SightInv
<1> QED  BY <1>1, <1>2, <1>3, MovementFacts DEF Sight!DetectionsAreRight, AllAreTold, DirectiveIsMapped

\* What the camera shows is told when it is detected, and not again within the cooldown, however
\* long the window is, and whatever the scenes; a wave or a nod is told only of a way that turned
\* back, since what crosses its mean twice does (mediapipe_adapter.py:370-402).
THEOREM DetectionsRight == CompanionSpec => []DetectionsAreRight
<1>1. SightInv => DetectionsAreRight
  BY SightIsRight DEF DetectionsAreRight
<1> QED  BY SightStarts, SightStep, <1>1, PTL DEF CompanionSpec
=============================================================================
