------------------------------ MODULE SshLaunchProofs --------------------------
(***************************************************************************)
(* What SshLaunch promises, for any processes, panes, profiles, hosts and  *)
(* answers of `ssh -G`.                                                    *)
(*                                                                         *)
(* An approval is written by a request that named it and by nothing else,  *)
(* so every approval in a document, on disk or in the memory of any        *)
(* process, however old, was agreed to: that is the invariant the launches *)
(* rest on.  A request that is being carried out adds the rest: what it    *)
(* was resolved to was agreed to, is still of its profile, and is what the *)
(* configuration says unless that changed since.  That nobody agreed to it *)
(* for another host or command is what the updates keep.                   *)
(*                                                                         *)
(* The second part is about SettingsSync, for any values and any number of *)
(* edits: that a difference between the file and the settings in force is  *)
(* always noticed is not inductive, since at the end of a launch it rests  *)
(* on what was loaded, before there was a watcher.  SettingsInv says it of *)
(* that state too.                                                         *)
(***************************************************************************)
EXTENDS SshLaunch, SettingsSync, TLAPS

\* The approvals of a document are among some pairs.
Earned(document, pairs) ==
  \A i \in Profiles :
    document[i] # None /\ document[i].reviewed # None =>
      <<i, document[i].reviewed>> \in pairs

\* They were agreed to.
EarnedInv ==
  /\ Earned(onDisk, agreed)
  /\ \A p \in Procs : store[p] # None => Earned(store[p], agreed)

\* The documents, on disk and in memory.
DocumentsInv ==
  /\ disk \in Files /\ onDisk \in Documents
  /\ store \in [Procs -> Documents \union {None}]
  /\ EarnedInv /\ EditsClearApproval

\* A surface that is there has a profile; a live one was resolved to something.
SurfaceInv ==
  \A p \in Procs, n \in Panes :
    /\ surface[p][n].state # "none" => surface[p][n].profile \in Profiles
    /\ surface[p][n].state = "live" => surface[p][n].as \in Fingerprints

SurfacesInv ==
  /\ surface \in [Procs -> [Panes -> Surface]]
  /\ SurfaceInv /\ LaunchWasApproved

\* What a request was resolved to was agreed to, by its own request where it must be,
\* and is what the configuration says unless that has changed.
Resolves(r) ==
  /\ <<r.profile, r.as>> \in agreed
  /\ r.as.resolution \in External => r.named = r.as
  /\ r.as.resolution = config[r.as.host] \/ r.drifted

\* It is still of its profile, which is where it was.
OfProfile(p, r) ==
  /\ Has(p, r.profile)
  /\ store[p][r.profile].host = r.as.host
  /\ store[p][r.profile].command = r.as.command

RequestInv ==
  \A p \in Procs : request[p] # None => Resolves(request[p]) /\ OfProfile(p, request[p])

RequestsInv == request \in [Procs -> Request \union {None}] /\ RequestInv

RestInv ==
  /\ config \in [Hosts -> Resolutions]
  /\ up \in SUBSET Procs
  /\ agreed \in SUBSET (Profiles \X Fingerprints)
  /\ handEdited \in SUBSET Profiles

IInv == DocumentsInv /\ SurfacesInv /\ RequestsInv /\ RestInv

--------------------------------------------------------------------------------
(* The documents that are saved. *)

\* What the requests and the store make of a document is a document.
LEMMA DocumentsKept ==
  ASSUME NEW document \in Documents, NEW i \in Profiles, NEW profile \in Profile \union {None}
  PROVE  [document EXCEPT ![i] = profile] \in Documents
  BY DEF Documents

\* What `ssh -G` says of a profile is a fingerprint.
LEMMA FingerprintTyped ==
  ASSUME config \in [Hosts -> Resolutions], NEW profile \in Profile
  PROVE  Fingerprint(profile) \in Fingerprints
  BY DEF Fingerprint, Resolution, Fingerprints, Profile

\* A document with one profile changed, which now has no approval, one of its own, or
\* was edited by hand.
LEMMA OneProfileBelongs ==
  ASSUME NEW document \in Documents, NEW i \in Profiles, NEW profile \in Profile \union {None},
         NEW before, NEW after, before \subseteq after,
         ApprovalsBelong(document, before),
         i \notin after /\ profile # None /\ profile.reviewed # None =>
           profile.reviewed.host = profile.host /\ profile.reviewed.command = profile.command
  PROVE  ApprovalsBelong([document EXCEPT ![i] = profile], after)
  BY DEF ApprovalsBelong, Documents

\* The same of what was agreed to.
LEMMA OneProfileEarned ==
  ASSUME NEW document \in Documents, NEW i \in Profiles, NEW profile \in Profile \union {None},
         NEW pairs, Earned(document, pairs),
         profile # None /\ profile.reviewed # None => <<i, profile.reviewed>> \in pairs
  PROVE  Earned([document EXCEPT ![i] = profile], pairs)
  BY DEF Earned, Documents

\* A step leaves all documents sound when it puts only sound ones on disk and in memory.
LEMMA DocumentsStaySound ==
  ASSUME DocumentsInv, disk' \in Files, onDisk' \in Documents,
         store' \in [Procs -> Documents \union {None}],
         agreed \subseteq agreed', handEdited \subseteq handEdited',
         NEW new, ApprovalsBelong(new, handEdited'), Earned(new, agreed'),
         onDisk' \in {onDisk, new},
         \A q \in Procs : store'[q] \in {store[q], onDisk, new, None}
  PROVE  DocumentsInv'
<1>1. EarnedInv'
  BY DEF DocumentsInv, EarnedInv, Earned
<1>2. ApprovalsBelong(onDisk, handEdited')
  BY DEF DocumentsInv, EditsClearApproval, ApprovalsBelong
<1>3. \A q \in Procs : store[q] # None => ApprovalsBelong(store[q], handEdited')
  BY DEF DocumentsInv, EditsClearApproval, ApprovalsBelong
<1>4. ApprovalsBelong(onDisk', handEdited')
  BY <1>2
<1>5. \A q \in Procs : store'[q] # None => ApprovalsBelong(store'[q], handEdited')
  BY <1>2, <1>3
<1>6. EditsClearApproval'
  BY <1>4, <1>5 DEF EditsClearApproval, ApprovalsBelong
<1>7. QED
  BY <1>1, <1>6 DEF DocumentsInv

\* A save of a sound document, whole or half, leaves all documents sound.
LEMMA SaveKeepsDocuments ==
  ASSUME DocumentsInv, NEW p \in Procs, NEW document \in Documents,
         ApprovalsBelong(document, handEdited), Earned(document, agreed),
         UNCHANGED history, Stored(p, document)
  PROVE  DocumentsInv'
<1>1. onDisk' = document /\ disk' \in Files
  BY DEF Stored, Saved, HalfSaved, Files
<1>2. \A q \in Procs : store'[q] = store[q] \/ store'[q] = document
  BY DEF Stored, Saved, HalfSaved, DocumentsInv
<1>3. store' \in [Procs -> Documents \union {None}]
  BY DEF Stored, Saved, HalfSaved, DocumentsInv
<1>4. agreed' = agreed /\ handEdited' = handEdited
  BY DEF history
<1>5. QED
  BY <1>1, <1>2, <1>3, <1>4, DocumentsStaySound

\* And so does a step that saves nothing: a document that is opened was on disk.
LEMMA NoSaveKeepsDocuments ==
  ASSUME DocumentsInv, agreed \subseteq agreed', handEdited \subseteq handEdited',
         disk' \in Files, onDisk' \in {onDisk, Empty},
         store' \in [Procs -> Documents \union {None}],
         \A q \in Procs : store'[q] \in {store[q], onDisk, Empty, None}
  PROVE  DocumentsInv'
<1>1. Empty \in Documents /\ ApprovalsBelong(Empty, handEdited') /\ Earned(Empty, agreed')
  BY DEF Empty, Documents, ApprovalsBelong, Earned
<1>2. onDisk' \in Documents
  BY <1>1 DEF DocumentsInv
<1>3. QED
  BY <1>1, <1>2, DocumentsStaySound

\* An approval is of the fingerprint the request named, which is of the profile itself.
LEMMA ApprovingIsSound ==
  ASSUME IInv, NEW p \in Procs, request[p] # None
  PROVE  LET document == Approving(p, request[p].profile, request[p].as)
         IN  /\ document \in Documents
             /\ ApprovalsBelong(document, handEdited)
             /\ Earned(document, agreed)
<1> DEFINE r == request[p]
           i == r.profile
           profile == Reviewed(store[p][i], r.as)
<1>1. r \in Request /\ Resolves(r) /\ OfProfile(p, r)
  BY DEF IInv, RequestsInv, RequestInv
<1>2. i \in Profiles /\ r.as \in Fingerprints
  BY <1>1 DEF Request
<1>3. Has(p, i) /\ store[p][i].host = r.as.host /\ store[p][i].command = r.as.command
  BY <1>1 DEF OfProfile
<1>4. store[p] \in Documents /\ store[p][i] \in Profile
  BY <1>2, <1>3 DEF IInv, DocumentsInv, Has, Documents
<1>5. profile \in Profile
  BY <1>2, <1>4 DEF Profile, Reviewed
<1>6. profile.reviewed = r.as
  BY <1>4 DEF Reviewed, Profile
<1>7. profile.reviewed.host = profile.host /\ profile.reviewed.command = profile.command
  BY <1>3, <1>4, <1>6 DEF Reviewed, Profile
<1>8. <<i, profile.reviewed>> \in agreed
  BY <1>1, <1>6 DEF Resolves
<1>9. ApprovalsBelong(store[p], handEdited) /\ Earned(store[p], agreed)
  BY <1>3 DEF IInv, DocumentsInv, EarnedInv, EditsClearApproval, Has
<1>10. Approving(p, i, r.as) = [store[p] EXCEPT ![i] = profile]
  BY DEF Approving
<1> HIDE DEF profile, i
<1>11. [store[p] EXCEPT ![i] = profile] \in Documents
  BY <1>2, <1>4, <1>5, DocumentsKept
<1>12. ApprovalsBelong([store[p] EXCEPT ![i] = profile], handEdited)
  BY <1>2, <1>4, <1>5, <1>7, <1>9, OneProfileBelongs
<1>13. Earned([store[p] EXCEPT ![i] = profile], agreed)
  BY <1>2, <1>4, <1>5, <1>8, <1>9, OneProfileEarned
<1>14. QED
  BY <1>10, <1>11, <1>12, <1>13 DEF i

--------------------------------------------------------------------------------
(* Every step keeps the documents sound. *)

\* Creating, updating and deleting a profile.
LEMMA StoreKeepsDocuments ==
  ASSUME IInv, NEW p \in Procs, NEW i \in Profiles, NEW host \in Hosts, NEW command \in Commands,
         Create(p, i, host, command) \/ Update(p, i, host, command) \/ Delete(p, i)
  PROVE  DocumentsInv'
<1>1. /\ store[p] \in Documents
      /\ ApprovalsBelong(store[p], handEdited) /\ Earned(store[p], agreed)
  BY DEF IInv, DocumentsInv, EarnedInv, EditsClearApproval, Create, Update, Delete, Has
<1>2. UNCHANGED history
  BY DEF Create, Update, Delete
<1>3. CASE Create(p, i, host, command)
  <2> DEFINE profile == [host |-> host, command |-> command, reviewed |-> None]
  <2>1. profile \in Profile /\ profile.reviewed = None
    BY DEF Profile
  <2>2. Stored(p, [store[p] EXCEPT ![i] = profile])
    BY <1>3 DEF Create
  <2> HIDE DEF profile
  <2>3. QED
    BY <1>1, <1>2, <2>1, <2>2, DocumentsKept, OneProfileBelongs, OneProfileEarned,
       SaveKeepsDocuments DEF IInv
<1>4. CASE Update(p, i, host, command)
  <2> DEFINE profile == Updated(store[p][i], host, command)
  <2>1. store[p][i] \in Profile
    BY <1>1, <1>4 DEF Update, Has, Documents
  <2>2. profile \in Profile
    BY <2>1 DEF Updated, Profile
  <2>3. profile.reviewed # None =>
          /\ profile.reviewed = store[p][i].reviewed
          /\ profile.host = store[p][i].host /\ profile.command = store[p][i].command
    BY DEF Updated
  <2>4. Stored(p, [store[p] EXCEPT ![i] = profile])
    BY <1>4 DEF Update
  <2> HIDE DEF profile
  <2>5. store[p][i] # None
    BY <1>4 DEF Update, Has
  <2>6. i \notin handEdited /\ profile.reviewed # None =>
          /\ profile.reviewed.host = profile.host
          /\ profile.reviewed.command = profile.command
    BY <1>1, <2>3, <2>5 DEF ApprovalsBelong
  <2>7. profile.reviewed # None => <<i, profile.reviewed>> \in agreed
    BY <1>1, <2>3, <2>5 DEF Earned
  <2>8. ApprovalsBelong([store[p] EXCEPT ![i] = profile], handEdited)
    BY <1>1, <2>2, <2>6, OneProfileBelongs
  <2>9. Earned([store[p] EXCEPT ![i] = profile], agreed)
    BY <1>1, <2>2, <2>7, OneProfileEarned
  <2>10. QED
    BY <1>1, <1>2, <2>2, <2>4, <2>8, <2>9, DocumentsKept, SaveKeepsDocuments DEF IInv
<1>5. CASE Delete(p, i)
  <2>1. Stored(p, [store[p] EXCEPT ![i] = None])
    BY <1>5 DEF Delete
  <2>2. ApprovalsBelong([store[p] EXCEPT ![i] = None], handEdited)
    BY <1>1, OneProfileBelongs
  <2>3. Earned([store[p] EXCEPT ![i] = None], agreed)
    BY <1>1, OneProfileEarned
  <2>4. [store[p] EXCEPT ![i] = None] \in Documents
    BY <1>1, DocumentsKept
  <2>5. QED
    BY <1>2, <2>1, <2>2, <2>3, <2>4, SaveKeepsDocuments DEF IInv
<1>6. QED
  BY <1>3, <1>4, <1>5

\* Editing the file itself leaves the approval that is in it.
LEMMA EditKeepsDocuments ==
  ASSUME IInv, NEW i \in Profiles, NEW host \in Hosts, NEW command \in Commands,
         FileEdited(i, host, command)
  PROVE  DocumentsInv'
<1> DEFINE profile ==
      [host |-> host, command |-> command,
       reviewed |-> IF onDisk[i] = None THEN None ELSE onDisk[i].reviewed]
<1>1. DocumentsInv /\ onDisk \in Documents /\ Earned(onDisk, agreed)
        /\ ApprovalsBelong(onDisk, handEdited)
  BY DEF IInv, DocumentsInv, EarnedInv, EditsClearApproval
<1>2. profile \in Profile
  BY <1>1 DEF Documents, Profile
<1>3. profile.reviewed # None => <<i, profile.reviewed>> \in agreed
  BY <1>1 DEF Earned
<1>4. onDisk' = [onDisk EXCEPT ![i] = profile] /\ disk' = "good"
        /\ handEdited' = handEdited \union {i} /\ UNCHANGED <<store, agreed>>
  BY DEF FileEdited
<1> HIDE DEF profile
<1>5. onDisk' \in Documents
  BY <1>1, <1>2, <1>4, DocumentsKept
<1>6. ApprovalsBelong(onDisk', handEdited')
  <2>1. ApprovalsBelong([onDisk EXCEPT ![i] = profile], handEdited \union {i})
    BY <1>1, <1>2, OneProfileBelongs
  <2>2. QED
    BY <1>4, <2>1
<1>7. Earned(onDisk', agreed')
  BY <1>1, <1>2, <1>3, <1>4, OneProfileEarned
<1>8. disk' \in Files /\ store' \in [Procs -> Documents \union {None}]
  BY <1>1, <1>4 DEF DocumentsInv, Files
<1>9. agreed \subseteq agreed' /\ handEdited \subseteq handEdited'
  BY <1>4
<1>10. \A q \in Procs : store'[q] \in {store[q], onDisk, onDisk', None}
  BY <1>4
<1>11. QED
  BY <1>1, <1>5, <1>6, <1>7, <1>8, <1>9, <1>10, DocumentsStaySound

\* The beginning of a request saves nothing.
LEMMA BeginKeepsDocuments ==
  ASSUME IInv, NEW p \in Procs, NEW n, NEW i, NEW named, Begins(p, n, i, named)
  PROVE  DocumentsInv'
<1>1. agreed \subseteq agreed' /\ handEdited' = handEdited /\ UNCHANGED <<disk, onDisk, store>>
  BY DEF Begins, Agrees, profileFile
<1>2. QED
  BY <1>1, NoSaveKeepsDocuments DEF IInv, DocumentsInv

LEMMA DocumentsStep == IInv /\ [Next]_vars => DocumentsInv'
<1> SUFFICES ASSUME IInv, [Next]_vars PROVE DocumentsInv'
  OBVIOUS
<1>0. ASSUME UNCHANGED <<profileFile, store, history>> PROVE DocumentsInv'
  BY <1>0, NoSaveKeepsDocuments DEF profileFile, history, IInv, DocumentsInv
<1>1. ASSUME NEW p \in Procs, Launch(p) PROVE DocumentsInv'
  <2>1. Empty \in Documents
    BY DEF Empty, Documents
  <2>2. QED
    BY <1>1, <2>1, NoSaveKeepsDocuments
       DEF Launch, OpenStore, history, IInv, DocumentsInv, Files
<1>2. ASSUME NEW p \in Procs, RestoreSurfaces(p) PROVE DocumentsInv'
  BY <1>0, <1>2 DEF RestoreSurfaces
<1>3. ASSUME NEW p \in Procs, End(p) PROVE DocumentsInv'
  BY <1>3, NoSaveKeepsDocuments DEF End, profileFile, history, IInv, DocumentsInv
<1>4. ASSUME NEW p \in Procs, NEW i \in Profiles, Delete(p, i) PROVE DocumentsInv'
  <2>1. PICK host \in Hosts, command \in Commands : TRUE
    BY <1>4 DEF Delete, Has, IInv, DocumentsInv, Documents, Profile
  <2>2. QED
    BY <1>4, <2>1, StoreKeepsDocuments
<1>5. ASSUME NEW p \in Procs, Approve(p) \/ ApprovalFails(p) PROVE DocumentsInv'
  <2>1. request[p] # None /\ UNCHANGED history
    BY <1>5 DEF Approve, ApprovalFails
  <2>2. \/ Stored(p, Approving(p, request[p].profile, request[p].as))
        \/ UNCHANGED <<profileFile, store>>
    BY <1>5 DEF Approve, ApprovalFails, Stored
  <2>3. QED
    BY <1>0, <2>1, <2>2, ApprovingIsSound, SaveKeepsDocuments DEF IInv
<1>6. ASSUME NEW p \in Procs, NEW i \in Profiles, NEW host \in Hosts, NEW command \in Commands,
             Create(p, i, host, command) \/ Update(p, i, host, command)
      PROVE  DocumentsInv'
  BY <1>6, StoreKeepsDocuments
<1>7. ASSUME NEW p \in Procs, NEW n \in Panes, NEW named \in Fingerprints \union {None},
             Reconnect(p, n, named) \/ \E i \in Profiles : Connect(p, n, i, named)
      PROVE  DocumentsInv'
  BY <1>7, BeginKeepsDocuments DEF Connect, Reconnect
<1>8. ASSUME NEW p \in Procs, Start(p) PROVE DocumentsInv'
  BY <1>0, <1>8 DEF Start
<1>9. ASSUME NEW p \in Procs, NEW n \in Panes, Disconnects(p, n) \/ Closes(p, n)
      PROVE  DocumentsInv'
  BY <1>0, <1>9 DEF Disconnects, Closes
<1>10. ASSUME NEW h \in Hosts, NEW r \in Resolutions, ConfigChanges(h, r) PROVE DocumentsInv'
  BY <1>0, <1>10 DEF ConfigChanges
<1>11. ASSUME NEW d \in Files, FileDamaged(d) PROVE DocumentsInv'
  BY <1>11, NoSaveKeepsDocuments DEF FileDamaged, history, IInv, DocumentsInv
<1>12. ASSUME NEW i \in Profiles, NEW host \in Hosts, NEW command \in Commands,
              FileEdited(i, host, command)
       PROVE  DocumentsInv'
  BY <1>12, EditKeepsDocuments
<1>13. CASE UNCHANGED vars
  BY <1>0, <1>13 DEF vars
<1>14. QED
  BY <1>1, <1>2, <1>3, <1>4, <1>5, <1>6, <1>7, <1>8, <1>9, <1>10, <1>11, <1>12, <1>13
     DEF Next, Process, Turn

--------------------------------------------------------------------------------
(* Every step keeps the surfaces sound. *)

\* A surface is sound when it has a profile and, if it is live, what it was resolved to
\* was agreed to and, unless the configuration changed first, is what runs.
Sound(s, pairs) ==
  /\ s \in Surface
  /\ s.state # "none" => s.profile \in Profiles
  /\ s.state = "live" =>
       /\ s.as \in Fingerprints
       /\ <<s.profile, s.as>> \in pairs
       /\ s.as.resolution \in External => s.named = s.as
       /\ s.ran = s.as \/ s.drifted

LEMMA SoundSurfaces ==
  SurfacesInv <=>
    /\ surface \in [Procs -> [Panes -> Surface]]
    /\ \A p \in Procs, n \in Panes : Sound(surface[p][n], agreed)
  BY DEF SurfacesInv, SurfaceInv, LaunchWasApproved, Sound

\* More agreement makes no surface unsound.
LEMMA MoreAgreed ==
  ASSUME NEW s, NEW before, NEW after, before \subseteq after, Sound(s, before)
  PROVE  Sound(s, after)
  BY DEF Sound

\* Surfaces that end or go.
LEMMA EndedSound ==
  ASSUME NEW pairs
  PROVE  Sound(NoSurface, pairs) /\ \A i \in Profiles : Sound(Ended(i), pairs)
  BY DEF Sound, Surface, NoSurface, Ended, Idle

\* One changed surface that is sound leaves all sound.
LEMMA OneSurface ==
  ASSUME SurfacesInv, NEW p \in Procs, NEW n \in Panes, NEW s, Sound(s, agreed'),
         agreed \subseteq agreed',
         surface' = [surface EXCEPT ![p][n] = s] \/ surface' = surface
  PROVE  SurfacesInv'
<1>1. surface \in [Procs -> [Panes -> Surface]] /\ s \in Surface
  BY DEF SurfacesInv, Sound
<1>2. surface' \in [Procs -> [Panes -> Surface]]
  BY <1>1
<1>3. \A q \in Procs, m \in Panes : surface'[q][m] = s \/ surface'[q][m] = surface[q][m]
  BY <1>1
<1>4. \A q \in Procs, m \in Panes : Sound(surface'[q][m], agreed')
  BY <1>3, SoundSurfaces, MoreAgreed
<1>5. SurfacesInv' <=>
        /\ surface' \in [Procs -> [Panes -> Surface]]
        /\ \A q \in Procs, m \in Panes : Sound(surface'[q][m], agreed')
  BY SMTT(30) DEF SurfacesInv, SurfaceInv, LaunchWasApproved, Sound
<1>6. QED
  BY <1>2, <1>4, <1>5

\* All surfaces of a process replaced by sound ones leave all sound.
LEMMA AllSurfaces ==
  ASSUME SurfacesInv, NEW p \in Procs, NEW f \in [Panes -> Surface],
         \A n \in Panes : Sound(f[n], agreed'),
         agreed' = agreed, surface' = [surface EXCEPT ![p] = f]
  PROVE  SurfacesInv'
<1>1. surface \in [Procs -> [Panes -> Surface]]
  BY DEF SurfacesInv
<1>2. surface' \in [Procs -> [Panes -> Surface]]
  BY <1>1
<1>3. \A q \in Procs, m \in Panes : Sound(surface'[q][m], agreed')
  BY <1>1, SoundSurfaces
<1>4. QED
  BY <1>2, <1>3 DEF SurfacesInv, SurfaceInv, LaunchWasApproved, Sound

\* A request launches what it was resolved to, or what the configuration has become.
LEMMA LaunchSound ==
  ASSUME IInv, NEW p \in Procs, request[p] # None
  PROVE  LET r == request[p]
         IN  r.pane \in Panes /\ Sound(Live(r.profile, r.as, r.named, r.drifted), agreed)
<1> DEFINE r == request[p]
<1>1. r \in Request /\ Resolves(r)
  BY DEF IInv, RequestsInv, RequestInv
<1>2. r.as \in [host : Hosts, resolution : Resolutions, command : Commands]
  BY <1>1 DEF Request, Fingerprints
<1>3. config[r.as.host] \in Resolutions
  BY <1>2 DEF IInv, RestInv
<1> DEFINE ran == [r.as EXCEPT !.resolution = config[r.as.host]]
<1>4. ran \in Fingerprints
  BY <1>2, <1>3 DEF Fingerprints
<1>5. ran = r.as \/ r.drifted
  <2>1. CASE r.as.resolution = config[r.as.host]
    BY <1>2, <2>1
  <2>2. CASE r.drifted
    BY <2>2
  <2>3. QED
    BY <1>1, <2>1, <2>2 DEF Resolves
<1>6. Live(r.profile, r.as, r.named, r.drifted) =
        [state |-> "live", profile |-> r.profile, as |-> r.as, named |-> r.named,
         drifted |-> r.drifted, ran |-> ran]
  BY DEF Live
<1> HIDE DEF ran
<1>7. QED
  BY <1>1, <1>4, <1>5, <1>6 DEF Sound, Surface, Request, Resolves

LEMMA SurfacesStep == IInv /\ [Next]_vars => SurfacesInv'
<1> SUFFICES ASSUME IInv, [Next]_vars PROVE SurfacesInv'
  OBVIOUS
<1>0. SurfacesInv
  BY DEF IInv
<1>1. ASSUME agreed \subseteq agreed', UNCHANGED surface PROVE SurfacesInv'
  <2>1. \A p \in Procs, n \in Panes : Sound(surface'[p][n], agreed')
    BY <1>0, <1>1, SoundSurfaces, MoreAgreed
  <2>2. QED
    BY <1>0, <1>1, <2>1 DEF SurfacesInv, SurfaceInv, LaunchWasApproved, Sound
<1>2. ASSUME NEW p \in Procs, Launch(p) \/ Approve(p) \/ ApprovalFails(p) PROVE SurfacesInv'
  BY <1>1, <1>2 DEF Launch, Approve, ApprovalFails, history
<1>3. ASSUME NEW p \in Procs, RestoreSurfaces(p) PROVE SurfacesInv'
  <2>1. PICK saved \in [Panes -> Profiles \union {None}] :
          surface' = [surface EXCEPT ![p] = [n \in Panes |-> Restored(saved[n])]]
    BY <1>3 DEF RestoreSurfaces
  <2>2. \A n \in Panes : Sound(Restored(saved[n]), agreed')
    BY EndedSound DEF Restored
  <2>3. [n \in Panes |-> Restored(saved[n])] \in [Panes -> Surface]
    BY <2>2 DEF Sound
  <2>4. QED
    BY <1>0, <1>3, <2>1, <2>2, <2>3, AllSurfaces DEF RestoreSurfaces, history
<1>4. ASSUME NEW p \in Procs, End(p) PROVE SurfacesInv'
  <2>1. Sound(NoSurface, agreed')
    BY EndedSound
  <2>2. [n \in Panes |-> NoSurface] \in [Panes -> Surface]
    BY <2>1 DEF Sound
  <2>3. QED
    BY <1>0, <1>4, <2>1, <2>2, AllSurfaces DEF End, history
<1>5. ASSUME NEW p \in Procs, NEW i \in Profiles,
             Delete(p, i) \/ \E host \in Hosts, command \in Commands :
                               Create(p, i, host, command) \/ Update(p, i, host, command)
      PROVE  SurfacesInv'
  BY <1>1, <1>5 DEF Delete, Create, Update, history
<1>6. ASSUME NEW p \in Procs, NEW n \in Panes, NEW named \in Fingerprints \union {None},
             Reconnect(p, n, named) \/ \E i \in Profiles : Connect(p, n, i, named)
      PROVE  SurfacesInv'
  BY <1>1, <1>6 DEF Connect, Reconnect, Begins, Agrees
<1>7. ASSUME NEW p \in Procs, Start(p) PROVE SurfacesInv'
  BY <1>0, <1>7, LaunchSound, OneSurface DEF Start, history
<1>8. ASSUME NEW p \in Procs, NEW n \in Panes, Disconnects(p, n) PROVE SurfacesInv'
  <2>1. surface[p][n].profile \in Profiles
    BY <1>0, <1>8 DEF Disconnects, SurfacesInv, SurfaceInv
  <2>2. QED
    BY <1>0, <1>8, <2>1, EndedSound, OneSurface DEF Disconnects, history
<1>9. ASSUME NEW p \in Procs, NEW n \in Panes, Closes(p, n) PROVE SurfacesInv'
  BY <1>0, <1>9, EndedSound, OneSurface DEF Closes, history
<1>10. ASSUME NEW h \in Hosts, NEW r \in Resolutions, ConfigChanges(h, r) PROVE SurfacesInv'
  BY <1>1, <1>10 DEF ConfigChanges, history
<1>11. ASSUME (\E d \in Files : FileDamaged(d))
                \/ \E i \in Profiles, host \in Hosts, command \in Commands :
                     FileEdited(i, host, command)
       PROVE  SurfacesInv'
  BY <1>1, <1>11 DEF FileDamaged, FileEdited, history
<1>12. CASE UNCHANGED vars
  BY <1>1, <1>12 DEF vars, history
<1>13. QED
  BY <1>2, <1>3, <1>4, <1>5, <1>6, <1>7, <1>8, <1>9, <1>10, <1>11, <1>12
     DEF Next, Process, Turn

--------------------------------------------------------------------------------
(* Every step keeps the requests sound. *)

\* A request is sound.
Fit(p, r) == r \in Request /\ Resolves(r) /\ OfProfile(p, r)

LEMMA FitRequests ==
  RequestsInv <=>
    /\ request \in [Procs -> Request \union {None}]
    /\ \A p \in Procs : request[p] # None => Fit(p, request[p])
  BY DEF RequestsInv, RequestInv, Fit

\* What is to be shown of a step: every request there is then is sound.
LEMMA FitAfter ==
  ASSUME request' \in [Procs -> Request \union {None}],
         \A p \in Procs : \A r : r = request'[p] /\ r # None => Fit(p, r)'
  PROVE  RequestsInv'
<1>1. ASSUME NEW p \in Procs, request'[p] # None
      PROVE  (Resolves(request[p]) /\ OfProfile(p, request[p]))'
  <2>1. PICK r : r = request'[p]
    OBVIOUS
  <2>2. Fit(p, r)'
    BY <1>1, <2>1
  <2>3. QED
    BY <2>1, <2>2 DEF Fit, Resolves, OfProfile
<1>2. QED
  BY <1>1 DEF RequestsInv, RequestInv

\* A request no step is about stays sound while the process keeps its documents.
LEMMA StaysFit ==
  ASSUME NEW p, NEW r, Fit(p, r), agreed \subseteq agreed', config' = config,
         store'[p] = store[p], p \in up => p \in up'
  PROVE  Fit(p, r)'
  BY DEF Fit, Resolves, OfProfile, Has

\* A step that is about one process, which has no request then or one that is sound.
LEMMA OneRequest ==
  ASSUME RequestsInv, NEW p \in Procs, NEW r, r # None => Fit(p, r)',
         request' = [request EXCEPT ![p] = r],
         agreed \subseteq agreed', config' = config,
         \A q \in Procs \ {p} : store'[q] = store[q] /\ (q \in up => q \in up')
  PROVE  RequestsInv'
<1>1. request \in [Procs -> Request \union {None}] /\ (r # None => r \in Request)
  BY DEF RequestsInv, Fit
<1>2. request' \in [Procs -> Request \union {None}]
  BY <1>1
<1>3. ASSUME NEW q \in Procs, NEW s, s = request'[q], s # None PROVE Fit(q, s)'
  <2>1. CASE q = p
    <3>1. s = r
      BY <1>1, <1>3, <2>1
    <3>2. QED
      BY <1>3, <2>1, <3>1
  <2>2. CASE q # p
    <3>1. s = request[q] /\ Fit(q, s)
      BY <1>1, <1>3, <2>2, FitRequests
    <3>2. QED
      BY <2>2, <3>1, StaysFit
  <2>3. QED
    BY <2>1, <2>2
<1>4. QED
  BY <1>2, <1>3, FitAfter

\* A step of a process that has none, or that leaves what it is about alone.
LEMMA NoRequest ==
  ASSUME RequestsInv, NEW p \in Procs, UNCHANGED request,
         request[p] # None => store'[p] = store[p] /\ (p \in up => p \in up'),
         agreed \subseteq agreed', config' = config,
         \A q \in Procs \ {p} : store'[q] = store[q] /\ (q \in up => q \in up')
  PROVE  RequestsInv'
<1>1. request \in [Procs -> Request \union {None}]
  BY DEF RequestsInv
<1>2. request' = [request EXCEPT ![p] = request[p]]
  BY <1>1
<1>3. PICK r : r = request[p]
  OBVIOUS
<1>4. r # None => Fit(p, r)'
  BY <1>3, FitRequests, StaysFit
<1>5. QED
  BY <1>2, <1>3, <1>4, OneRequest

\* Nor does a process with a request start anew.
LEMMA NoRequestYet ==
  ASSUME RequestsInv, NEW p \in Procs, p \notin up
  PROVE  request[p] = None
  BY DEF RequestsInv, RequestInv, OfProfile, Has

\* A request that proceeds was resolved to what it named, or what was approved before.
LEMMA BeginFits ==
  ASSUME IInv, NEW p \in Procs, NEW n \in Panes, NEW i \in Profiles,
         NEW named \in Fingerprints \union {None}, Begins(p, n, i, named),
         NEW r, r = Pending(n, i, store[p][i], named)
  PROVE  Fit(p, r)'
<1> DEFINE profile == store[p][i]
<1>0. PICK fp : fp = Fingerprint(profile)
  OBVIOUS
<1>1. Has(p, i) /\ Proceeds(profile, named) /\ Agrees(i, named)
        /\ UNCHANGED <<config, up, store>>
  BY DEF Begins
<1>2. profile \in Profile /\ fp \in Fingerprints /\ fp # None
  BY <1>0, <1>1, FingerprintTyped, SshAssumption
     DEF IInv, DocumentsInv, RestInv, Has, Documents
<1>3. fp.resolution = config[fp.host] /\ fp.host = profile.host /\ fp.command = profile.command
  BY <1>0 DEF Fingerprint, Resolution
<1>4. fp.resolution \in External => named = fp
  BY <1>0, <1>1, <1>3 DEF Proceeds, RequiresApproval, Exposed, Resolution, Fingerprint
<1>5. <<i, fp>> \in agreed'
  <2>1. CASE named = fp
    BY <1>1, <1>2, <2>1 DEF Agrees
  <2>2. CASE named = None
    <3>1. profile.reviewed = fp
      BY <1>0, <1>1, <1>2, <2>2 DEF Proceeds, RequiresApproval
    <3>2. Earned(store[p], agreed)
      BY <1>1 DEF IInv, DocumentsInv, EarnedInv, Has
    <3>3. <<i, fp>> \in agreed
      BY <1>1, <1>2, <3>1, <3>2 DEF Earned, Has
    <3>4. QED
      BY <1>1, <3>3 DEF Agrees
  <2>3. QED
    BY <1>0, <1>1, <2>1, <2>2 DEF Proceeds
<1>6. /\ r \in Request
      /\ r.profile = i /\ r.as = fp /\ r.named = named
  BY <1>0, <1>2 DEF Pending, Request
<1>7. Resolves(r)'
  BY <1>1, <1>3, <1>4, <1>5, <1>6 DEF Resolves
<1>8. OfProfile(p, r)'
  BY <1>1, <1>3, <1>6 DEF OfProfile, Has
<1>9. QED
  BY <1>6, <1>7, <1>8 DEF Fit

\* Its approval is saved in the profile, which stays what it is otherwise.
LEMMA ApprovedFits ==
  ASSUME IInv, NEW p \in Procs, Approve(p),
         NEW next, next = [request[p] EXCEPT !.step = "start"]
  PROVE  Fit(p, next)'
<1> DEFINE r == request[p]
           i == r.profile
<1>1. r # None /\ Fit(p, r) /\ r \in Request
  BY FitRequests DEF Approve, IInv, Fit
<1>2. /\ next \in Request /\ next.profile = i
      /\ next.as = r.as /\ next.named = r.named /\ next.drifted = r.drifted
  BY <1>1 DEF Request
<1>3. i \in Profiles /\ r.as \in Fingerprints
  BY <1>1 DEF Request
<1>4. store[p] \in Documents /\ store[p][i] \in Profile /\ Has(p, i)
  BY <1>1, <1>3 DEF Fit, OfProfile, IInv, DocumentsInv, Has, Documents
<1>5. store' = [store EXCEPT ![p] = Approving(p, i, r.as)] /\ UNCHANGED <<config, up, agreed>>
  BY DEF Approve, Saved, history
<1>6. store'[p][i] = Reviewed(store[p][i], r.as)
  BY <1>3, <1>4, <1>5 DEF Approving, IInv, DocumentsInv, Documents
<1>7. store'[p] # None
  BY <1>1, <1>5, ApprovingIsSound, SshAssumption DEF IInv, DocumentsInv
<1>8. /\ store'[p][i].host = store[p][i].host
      /\ store'[p][i].command = store[p][i].command
      /\ store'[p][i] # None
  BY <1>3, <1>4, <1>6, SshAssumption DEF Reviewed, Profile
<1>9. Resolves(next)'
  BY <1>1, <1>2, <1>5 DEF Fit, Resolves
<1>10. OfProfile(p, next)'
  BY <1>1, <1>2, <1>4, <1>5, <1>7, <1>8 DEF Fit, OfProfile, Has
<1>11. QED
  BY <1>2, <1>9, <1>10 DEF Fit

\* A change of the configuration is noted in every request it is about.
LEMMA DriftIsNoted ==
  ASSUME IInv, NEW h \in Hosts, NEW c \in Resolutions, ConfigChanges(h, c)
  PROVE  RequestsInv'
<1>1. /\ request' = [p \in Procs |-> IF request[p] # None /\ request[p].as.host = h
                                     THEN [request[p] EXCEPT !.drifted = TRUE]
                                     ELSE request[p]]
      /\ config' = [config EXCEPT ![h] = c] /\ UNCHANGED <<up, store, agreed>>
  BY DEF ConfigChanges, history
<1>2. ASSUME NEW p \in Procs, NEW s, s = request'[p], s # None PROVE Fit(p, s)'
  <2> DEFINE r == request[p]
  <2>1. r # None /\ Fit(p, r) /\ r \in Request
    BY <1>1, <1>2, FitRequests DEF IInv, Fit
  <2>2. CASE r.as.host = h
    <3>1. s = [r EXCEPT !.drifted = TRUE]
      BY <1>1, <1>2, <2>1, <2>2
    <3>2. /\ s \in Request /\ s.drifted = TRUE
          /\ s.profile = r.profile /\ s.as = r.as /\ s.named = r.named
      BY <2>1, <3>1 DEF Request
    <3>3. Resolves(s)'
      BY <1>1, <2>1, <3>2 DEF Fit, Resolves
    <3>4. OfProfile(p, s)'
      BY <1>1, <2>1, <3>2 DEF Fit, OfProfile, Has
    <3>5. QED
      BY <3>2, <3>3, <3>4 DEF Fit
  <2>3. CASE r.as.host # h
    <3>1. s = r
      BY <1>1, <1>2, <2>3
    <3>2. r.as.host \in Hosts
      BY <2>1 DEF Request, Fingerprints
    <3>3. config'[r.as.host] = config[r.as.host]
      BY <1>1, <2>3, <3>2 DEF IInv, RestInv
    <3>4. QED
      BY <1>1, <2>1, <3>1, <3>3 DEF Fit, Resolves, OfProfile, Has
  <2>4. QED
    BY <2>2, <2>3
<1>3. request' \in [Procs -> Request \union {None}]
  <2>1. ASSUME NEW p \in Procs PROVE request'[p] \in Request \union {None}
    BY <1>2 DEF Fit
  <2>2. QED
    BY <1>1, <2>1
<1>4. QED
  BY <1>2, <1>3, FitAfter

LEMMA RequestsStep == IInv /\ [Next]_vars => RequestsInv'
<1> SUFFICES ASSUME IInv, [Next]_vars PROVE RequestsInv'
  OBVIOUS
<1>0. RequestsInv /\ store \in [Procs -> Documents \union {None}]
  BY DEF IInv, DocumentsInv
<1>1. ASSUME NEW p \in Procs, Launch(p) PROVE RequestsInv'
  <2>1. request[p] = None
    BY <1>0, <1>1, NoRequestYet DEF Launch
  <2>2. \A q \in Procs \ {p} : store'[q] = store[q] /\ (q \in up => q \in up')
    BY <1>0, <1>1 DEF Launch, OpenStore
  <2>3. QED
    BY <1>0, <1>1, <2>1, <2>2, NoRequest DEF Launch, history
<1>2. ASSUME NEW p \in Procs, End(p) PROVE RequestsInv'
  <2>1. \A q \in Procs \ {p} : store'[q] = store[q] /\ (q \in up => q \in up')
    BY <1>0, <1>2 DEF End
  <2>2. QED
    BY <1>0, <1>2, <2>1, OneRequest DEF End, history
<1>3. ASSUME NEW p \in Procs, Approve(p) PROVE RequestsInv'
  <2>1. \A q \in Procs \ {p} : store'[q] = store[q] /\ (q \in up => q \in up')
    BY <1>0, <1>3 DEF Approve, Saved
  <2>2. PICK r : r = [request[p] EXCEPT !.step = "start"]
    OBVIOUS
  <2>3. request' = [request EXCEPT ![p] = r]
    BY <1>0, <1>3, <2>2 DEF Approve, RequestsInv
  <2>4. Fit(p, r)'
    BY <1>3, <2>2, ApprovedFits
  <2>5. QED
    BY <1>0, <1>3, <2>1, <2>3, <2>4, OneRequest DEF Approve, history
<1>4. ASSUME NEW p \in Procs, ApprovalFails(p) \/ Start(p) PROVE RequestsInv'
  <2>1. UNCHANGED store
    BY <1>4 DEF ApprovalFails, Start, HalfSaved
  <2>2. QED
    BY <1>0, <1>4, <2>1, OneRequest DEF ApprovalFails, Start, history
<1>5. ASSUME NEW p \in Procs, NEW n \in Panes, NEW named \in Fingerprints \union {None},
             Reconnect(p, n, named) \/ \E i \in Profiles : Connect(p, n, i, named)
      PROVE  RequestsInv'
  <2>1. PICK i \in Profiles : Begins(p, n, i, named)
    BY <1>5 DEF Connect, Reconnect, IInv, SurfacesInv, SurfaceInv
  <2>2. PICK r : r = Pending(n, i, store[p][i], named)
    OBVIOUS
  <2>3. /\ request' = [request EXCEPT ![p] = r]
        /\ agreed \subseteq agreed' /\ UNCHANGED <<config, up, store>>
    BY <2>1, <2>2 DEF Begins, Agrees
  <2>4. Fit(p, r)'
    BY <2>1, <2>2, BeginFits
  <2>5. \A q \in Procs \ {p} : store'[q] = store[q] /\ (q \in up => q \in up')
    BY <2>3
  <2>6. QED
    BY <1>0, <2>3, <2>4, <2>5, OneRequest
<1>6. ASSUME NEW p \in Procs, request[p] = None, NEW i \in Profiles,
             Delete(p, i) \/ \E host \in Hosts, command \in Commands :
                               Create(p, i, host, command) \/ Update(p, i, host, command)
      PROVE  RequestsInv'
  <2>1. \A q \in Procs \ {p} : store'[q] = store[q]
    BY <1>0, <1>6 DEF Delete, Create, Update, Stored, Saved, HalfSaved
  <2>2. QED
    BY <1>0, <1>6, <2>1, NoRequest DEF Delete, Create, Update, history
<1>7. ASSUME UNCHANGED <<config, up, store, request, agreed>> PROVE RequestsInv'
  <2>1. ASSUME NEW p \in Procs, NEW r, r = request'[p], r # None PROVE Fit(p, r)'
    <3>1. Fit(p, r)
      BY <1>0, <1>7, <2>1, FitRequests
    <3>2. QED
      BY <1>7, <3>1, StaysFit
  <2>2. QED
    BY <1>0, <1>7, <2>1, FitAfter DEF RequestsInv
<1>8. ASSUME NEW p \in Procs,
             RestoreSurfaces(p) \/ \E n \in Panes : Disconnects(p, n) \/ Closes(p, n)
      PROVE  RequestsInv'
  BY <1>7, <1>8 DEF RestoreSurfaces, Disconnects, Closes, history
<1>9. ASSUME NEW h \in Hosts, NEW r \in Resolutions, ConfigChanges(h, r) PROVE RequestsInv'
  BY <1>9, DriftIsNoted
<1>10. ASSUME (\E d \in Files : FileDamaged(d))
                \/ \E i \in Profiles, host \in Hosts, command \in Commands :
                     FileEdited(i, host, command)
       PROVE  RequestsInv'
  BY <1>7, <1>10 DEF FileDamaged, FileEdited, history
<1>11. CASE UNCHANGED vars
  BY <1>7, <1>11 DEF vars, history
<1>12. QED
  BY <1>1, <1>2, <1>3, <1>4, <1>5, <1>6, <1>8, <1>9, <1>10, <1>11 DEF Next, Process, Turn

--------------------------------------------------------------------------------
(* The rest. *)

LEMMA RestStep == IInv /\ [Next]_vars => RestInv'
<1> SUFFICES ASSUME IInv, [Next]_vars PROVE RestInv'
  OBVIOUS
<1> USE DEF RestInv
<1>0. RestInv
  BY DEF IInv
<1>1. ASSUME NEW p \in Procs, Launch(p) \/ RestoreSurfaces(p) \/ End(p) PROVE RestInv'
  BY <1>0, <1>1 DEF Launch, RestoreSurfaces, End, history
<1>2. ASSUME NEW p \in Procs, NEW i \in Profiles,
             Delete(p, i) \/ \E host \in Hosts, command \in Commands :
                               Create(p, i, host, command) \/ Update(p, i, host, command)
      PROVE  RestInv'
  BY <1>0, <1>2 DEF Delete, Create, Update, history
<1>3. ASSUME NEW p \in Procs, Approve(p) \/ ApprovalFails(p) \/ Start(p) PROVE RestInv'
  BY <1>0, <1>3 DEF Approve, ApprovalFails, Start, history
<1>4. ASSUME NEW p \in Procs, NEW n \in Panes, NEW named \in Fingerprints \union {None},
             Reconnect(p, n, named) \/ \E i \in Profiles : Connect(p, n, i, named)
      PROVE  RestInv'
  <2>1. PICK i \in Profiles : Begins(p, n, i, named)
    BY <1>4 DEF Connect, Reconnect, IInv, SurfacesInv, SurfaceInv
  <2>2. Agrees(i, named) /\ UNCHANGED <<config, up, handEdited>>
    BY <2>1 DEF Begins
  <2>3. agreed' \in SUBSET (Profiles \X Fingerprints)
    BY <1>0, <2>2 DEF Agrees
  <2>4. QED
    BY <1>0, <2>2, <2>3
<1>5. ASSUME NEW p \in Procs, NEW n \in Panes, Disconnects(p, n) \/ Closes(p, n)
      PROVE  RestInv'
  BY <1>0, <1>5 DEF Disconnects, Closes, history
<1>6. ASSUME NEW h \in Hosts, NEW r \in Resolutions, ConfigChanges(h, r) PROVE RestInv'
  BY <1>0, <1>6 DEF ConfigChanges, history
<1>7. ASSUME NEW d \in Files, FileDamaged(d) PROVE RestInv'
  BY <1>0, <1>7 DEF FileDamaged, history
<1>8. ASSUME NEW i \in Profiles, NEW host \in Hosts, NEW command \in Commands,
             FileEdited(i, host, command)
      PROVE  RestInv'
  BY <1>0, <1>8 DEF FileEdited
<1>9. CASE UNCHANGED vars
  BY <1>0, <1>9 DEF vars, history
<1>10. QED
  BY <1>1, <1>2, <1>3, <1>4, <1>5, <1>6, <1>7, <1>8, <1>9 DEF Next, Process, Turn

LEMMA Inductive == Spec => []IInv
<1>1. Init => IInv
  <2> SUFFICES ASSUME Init PROVE IInv
    OBVIOUS
  <2>1. DocumentsInv
    BY DEF Init, DocumentsInv, EarnedInv, Earned, EditsClearApproval, ApprovalsBelong, Files,
       Documents, Empty
  <2>2. SurfacesInv
    BY DEF Init, SurfacesInv, SurfaceInv, LaunchWasApproved, Surface, NoSurface, Idle
  <2>3. RequestsInv
    BY DEF Init, RequestsInv, RequestInv
  <2>4. RestInv
    BY DEF Init, RestInv
  <2>5. QED
    BY <2>1, <2>2, <2>3, <2>4 DEF IInv
<1>2. IInv /\ [Next]_vars => IInv'
  BY DocumentsStep, SurfacesStep, RequestsStep, RestStep DEF IInv
<1>3. QED
  BY <1>1, <1>2, PTL DEF Spec

--------------------------------------------------------------------------------
(* What follows from it. *)

\* The shape of the state.
THEOREM TypeCorrect == Spec => []TypeOK
<1>1. IInv => TypeOK
  BY DEF IInv, DocumentsInv, SurfacesInv, RequestsInv, RestInv, TypeOK
<1>2. QED
  BY <1>1, Inductive, PTL

\* Every connection, of any process at any time, was started on an answer of `ssh -G` a
\* request had named for its profile, its own request for an externally listening
\* forward, and runs that unless ssh_config changed between the answer and the start.
THEOREM EveryLaunchWasApproved == Spec => []LaunchWasApproved
  BY Inductive, PTL DEF IInv, SurfacesInv

\* No document, on disk or in any copy, has an approval of another host or command of a
\* profile nobody edited past the store.
THEOREM ApprovalsFollowEdits == Spec => []EditsClearApproval
  BY Inductive, PTL DEF IInv, DocumentsInv

--------------------------------------------------------------------------------
(* Settings: the invariant. *)

\* Between the load and the first fingerprint only an edit puts the file ahead.
LoadedInv == stage = "loaded" /\ Behind => missed

SettingsInv == SettingsTypeOK /\ EditsNoticed /\ LoadedInv

--------------------------------------------------------------------------------
(* Settings: documents. *)

\* What is saved is what is in force, and it keeps the mark of what it is made of.
LEMMA EncodedDocument ==
  ASSUME NEW r \in Contents, NEW v \in Values
  PROVE  /\ Encoded(r, v) \in Contents
         /\ Resolved(Encoded(r, v)) = v
         /\ Encoded(r, v).mark = r.mark
  BY SettingsAssumption DEF Contents, Encoded, Resolved

LEMMA ResolvedTyped ==
  ASSUME NEW c \in Contents
  PROVE  Resolved(c) \in Values
  BY SettingsAssumption DEF Contents, Resolved

LEMMA EmptyTyped == EmptyDocument \in Contents
  BY SettingsAssumption DEF EmptyDocument, Contents, Marks

--------------------------------------------------------------------------------
(* Settings: the steps. *)

\* A save of a document, by the command or by the dialog.
LEMMA SaveStep ==
  ASSUME SettingsInv, NEW r \in Contents, NEW v \in Values, Saves(r, v), resolved' = v,
         raw' \in Contents, dialog' \in BOOLEAN, UNCHANGED <<stage, watching, base, edits>>
  PROVE  SettingsInv'
<1>1. content' = Encoded(r, v) /\ condition' = "good" /\ changed' = TRUE /\ missed' = FALSE
  BY DEF Saves
<1>2. content' \in Contents /\ Resolved(content') = resolved'
  BY <1>1, EncodedDocument
<1>3. SettingsTypeOK'
  BY <1>1, <1>2 DEF SettingsInv, SettingsTypeOK, States
<1>4. ~ Behind'
  BY <1>2 DEF Behind
<1>5. QED
  BY <1>3, <1>4 DEF SettingsInv, EditsNoticed, LoadedInv

LEMMA SettingsStepKeeps == SettingsInv /\ [SettingsNext]_settingsVars => SettingsInv'
<1> SUFFICES ASSUME SettingsInv, [SettingsNext]_settingsVars PROVE SettingsInv'
  OBVIOUS
<1>0. SettingsTypeOK
  BY DEF SettingsInv
<1>1. CASE Load
  <2> DEFINE c == IF condition = "good" THEN content ELSE EmptyDocument
  <2>1. c \in Contents /\ raw' = c /\ resolved' = Resolved(c)
    BY <1>0, <1>1, EmptyTyped DEF Load, Decoded, SettingsTypeOK
  <2>2. resolved' \in Values
    BY <2>1, ResolvedTyped
  <2>3. condition' \in States /\ (condition' = "good" => condition = "good")
    BY <1>0, <1>1 DEF Load, SettingsTypeOK, States
  <2>4. stage' = "loaded" /\ missed' = FALSE
          /\ UNCHANGED <<content, changed, watching, dialog, base, edits>>
    BY <1>1 DEF Load
  <2>5. SettingsTypeOK'
    BY <1>0, <2>1, <2>2, <2>3, <2>4 DEF SettingsTypeOK
  <2>6. ~ Behind'
    <3>1. CASE condition' = "good"
      BY <2>1, <2>3, <2>4, <3>1 DEF Behind, Resolved
    <3>2. CASE condition' # "good"
      BY <3>2 DEF Behind
    <3>3. QED
      BY <3>1, <3>2
  <2>7. QED
    BY <2>4, <2>5, <2>6 DEF SettingsInv, EditsNoticed, LoadedInv
<1>2. CASE Watch
  <2>1. SettingsTypeOK'
    BY <1>0, <1>2 DEF Watch, SettingsTypeOK, memory
  <2>2. Behind' => missed'
    BY <1>2 DEF Watch, memory, SettingsInv, LoadedInv, Behind, Resolved
  <2>3. QED
    BY <1>2, <2>1, <2>2 DEF Watch, SettingsInv, EditsNoticed, LoadedInv
<1>3. CASE Poll
  <2>1. SettingsTypeOK'
    BY <1>0, <1>3 DEF Poll, SettingsTypeOK, memory
  <2>2. QED
    BY <1>3, <2>1 DEF Poll, SettingsInv, EditsNoticed, LoadedInv
<1>4. CASE Reload
  <2>1. stage' = "idle" /\ UNCHANGED <<condition, content, changed, watching, dialog, base, edits>>
    BY <1>4 DEF Reload, file
  <2>2. CASE condition = "good"
    <3>1. raw' = content /\ resolved' = Resolved(content) /\ missed' = FALSE
      BY <1>4, <2>2 DEF Reload, Decoded
    <3>2. resolved' \in Values
      BY <1>0, <3>1, ResolvedTyped DEF SettingsTypeOK
    <3>3. SettingsTypeOK'
      BY <1>0, <2>1, <3>1, <3>2 DEF SettingsTypeOK
    <3>4. ~ Behind'
      BY <2>1, <3>1 DEF Behind, Resolved
    <3>5. QED
      BY <2>1, <3>3, <3>4 DEF SettingsInv, EditsNoticed, LoadedInv
  <2>3. CASE condition # "good"
    <3>1. SettingsTypeOK'
      BY <1>0, <1>4, <2>1, <2>3 DEF Reload, memory, SettingsTypeOK
    <3>2. ~ Behind'
      BY <2>1, <2>3 DEF Behind
    <3>3. QED
      BY <2>1, <3>1, <3>2 DEF SettingsInv, EditsNoticed, LoadedInv
  <2>4. QED
    BY <2>2, <2>3
<1>5. ASSUME NEW v \in Values, Toggle(v) PROVE SettingsInv'
  BY <1>0, <1>5, SaveStep DEF Toggle, SettingsTypeOK
<1>6. ASSUME NEW v \in Values, SaveDialog(v) PROVE SettingsInv'
  <2>1. base[1] \in Contents
    BY <1>0 DEF SettingsTypeOK
  <2>2. QED
    BY <1>6, <2>1, SaveStep DEF SaveDialog
<1>7. CASE OpenDialog \/ CloseDialog
  <2>0. base' = base \/ base' = <<raw, resolved>>
    BY <1>7 DEF OpenDialog, CloseDialog, Document
  <2>1. base' \in Contents \X Values
    BY <1>0, <2>0 DEF SettingsTypeOK
  <2>2. UNCHANGED <<condition, content, changed, stage, raw, resolved, watching, missed, edits>>
          /\ dialog' \in BOOLEAN
    BY <1>7 DEF OpenDialog, CloseDialog, file, memory
  <2>3. SettingsTypeOK'
    BY <1>0, <2>1, <2>2 DEF SettingsTypeOK
  <2>4. UNCHANGED <<stage, condition, content, resolved, changed, missed, watching>>
    BY <1>7 DEF OpenDialog, CloseDialog, file, memory
  <2>5. QED
    BY <2>3, <2>4 DEF SettingsInv, EditsNoticed, LoadedInv, Behind, Resolved
<1>8. CASE Stop
  <2>1. Resolved(EmptyDocument) \in Values
    BY EmptyTyped, ResolvedTyped
  <2>2. base' \in Contents \X Values
    BY <1>8, EmptyTyped, SettingsAssumption DEF Stop
  <2>3. SettingsTypeOK'
    BY <1>0, <1>8, EmptyTyped, <2>1, <2>2 DEF Stop, SettingsTypeOK, Decoded, file
  <2>4. QED
    BY <1>8, <2>3 DEF Stop, SettingsInv, EditsNoticed, LoadedInv
<1>9. ASSUME NEW s \in States, NEW k \in Values \union {Invalid}, Edit(s, k) PROVE SettingsInv'
  <2>1. edits' \in Marks
    BY <1>0, <1>9, SettingsAssumption DEF Edit, SettingsTypeOK, Marks
  <2>2. content' \in Contents
    BY <1>0, <1>9, <2>1 DEF Edit, SettingsTypeOK, Contents
  <2>3. missed' \in BOOLEAN
    BY <1>0, <1>9 DEF Edit, SettingsTypeOK
  <2>4. SettingsTypeOK'
    BY <1>0, <1>9, <2>1, <2>2, <2>3 DEF Edit, SettingsTypeOK, memory
  <2>5. QED
    BY <1>9, <2>4 DEF Edit, SettingsInv, EditsNoticed, LoadedInv
<1>10. CASE UNCHANGED settingsVars
  <2>1. SettingsTypeOK'
    BY <1>0, <1>10 DEF settingsVars, SettingsTypeOK, file, memory
  <2>2. UNCHANGED <<stage, condition, content, resolved, changed, missed, watching>>
    BY <1>10 DEF settingsVars, file, memory
  <2>3. QED
    BY <2>1, <2>2 DEF SettingsInv, EditsNoticed, LoadedInv, Behind, Resolved
<1>11. QED
  BY <1>1, <1>2, <1>3, <1>4, <1>5, <1>6, <1>7, <1>8, <1>9, <1>10 DEF SettingsNext, User

LEMMA SettingsInductive == SettingsSpec => []SettingsInv
<1>1. SettingsInit => SettingsInv
  <2> SUFFICES ASSUME SettingsInit PROVE SettingsInv
    OBVIOUS
  <2>1. content \in Contents /\ raw \in Contents
    BY EmptyTyped, SettingsAssumption DEF SettingsInit, Contents, Marks
  <2>2. resolved \in Values
    BY SettingsAssumption DEF SettingsInit
  <2>3. base \in Contents \X Values
    BY <2>1, <2>2 DEF SettingsInit
  <2>4. edits \in Marks
    BY SettingsAssumption DEF SettingsInit, Marks
  <2>5. SettingsTypeOK
    BY <2>1, <2>2, <2>3, <2>4 DEF SettingsInit, SettingsTypeOK, States
  <2>6. QED
    BY <2>5 DEF SettingsInit, SettingsInv, EditsNoticed, LoadedInv
<1>2. QED
  BY <1>1, SettingsStepKeeps, PTL DEF SettingsSpec

--------------------------------------------------------------------------------
(* Settings: what follows from it. *)

\* The shape of the state.
THEOREM SettingsTypeCorrect == SettingsSpec => []SettingsTypeOK
  BY SettingsInductive, PTL DEF SettingsInv

\* Settings that differ from a good file will be looked at, but for the two holes.
THEOREM EditsAreNoticed == SettingsSpec => []EditsNoticed
  BY SettingsInductive, PTL DEF SettingsInv

\* A save never goes back behind an edit that was taken over.
THEOREM TakenEditsAreKept == SettingsSpec => TakenEditKept
<1> DEFINE Keeps == \A v \in Values : Toggle(v) \/ SaveDialog(v) => content'.mark >= raw.mark
<1>1. SettingsInv => Keeps
  <2> SUFFICES ASSUME SettingsInv, NEW v \in Values, Toggle(v) \/ SaveDialog(v)
               PROVE  content'.mark >= raw.mark
    OBVIOUS
  <2>1. raw \in Contents
    BY DEF SettingsInv, SettingsTypeOK
  <2>2. content' = Encoded(raw, v)
    BY DEF Toggle, SaveDialog, Saves, Document
  <2>3. content'.mark = raw.mark
    BY <2>1, <2>2, EncodedDocument
  <2>4. raw.mark \in Nat
    BY <2>1, SettingsAssumption DEF Contents, Marks
  <2>5. QED
    BY <2>3, <2>4
<1>2. QED
  BY <1>1, SettingsInductive, PTL DEF TakenEditKept

================================================================================
