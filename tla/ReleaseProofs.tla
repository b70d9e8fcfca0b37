----------------------------- MODULE ReleaseProofs -----------------------------
(***************************************************************************)
(* Theorems about Release, for any number of maintainers and of releases.  *)
(***************************************************************************)
EXTENDS Release, WellFoundedInduction, TLAPS

-----------------------------------------------------------------------------
(* The highest tag.                                                        *)

LEMMA HasMax ==
  ASSUME NEW N \in Nat, NEW S \in SUBSET (0..N), S # {}
  PROVE  \E x \in S : \A y \in S : x >= y
<1> DEFINE T == {N - x : x \in S}
<1>1. T \subseteq Nat
  <2>1. \A x \in S : x \in 0..N
    OBVIOUS
  <2> QED
    BY <2>1
<1>2. T # {}
  <2>1. PICK x \in S : TRUE
    OBVIOUS
  <2> QED
    BY <2>1
<1> DEFINE R == OpToRel(<, Nat)
<1>3. PICK z \in T : \A y \in T : ~(<<y, z>> \in R)
  <2>1. IsWellFoundedOn(R, Nat)
    BY NatLessThanWellFounded
  <2> HIDE DEF T, R
  <2> QED
    BY <1>1, <1>2, <2>1, WFMin
<1>4. \A y \in T : ~(y < z)
  BY <1>1, <1>3 DEF OpToRel
<1>5. PICK x \in S : z = N - x
  OBVIOUS
<1>6. \A y \in S : N - y \in T
  OBVIOUS
<1>7. \A y \in S : x >= y
  BY <1>4, <1>5, <1>6
<1> QED
  BY <1>7

LEMMA HighestTagIsHighest ==
  ASSUME NEW table
  PROVE  /\ HighestTag(table) \in 0..MaxTag
         /\ \A t \in Present(table) : HighestTag(table) >= t
<1> DEFINE S == {0} \union Present(table)
<1>1. S \in SUBSET (0..MaxTag) /\ S # {}
  BY MaxTagAssumption DEF Present, Tags
<1>2. \E x \in S : \A y \in S : x >= y
  <2> HIDE DEF S
  <2> QED
    BY <1>1, HasMax, MaxTagAssumption
<1>3. Max(S) \in S /\ \A y \in S : Max(S) >= y
  BY <1>2 DEF Max
<1> QED
  BY <1>1, <1>3 DEF HighestTag

LEMMA NextTagIsNew ==
  ASSUME NEW table
  PROVE  /\ NextTag(table) \in 1..(MaxTag + 1)
         /\ \A t \in Present(table) : NextTag(table) > t
<1>1. \A t \in Present(table) : t \in Int
  BY DEF Present, Tags
<1> QED
  BY <1>1, HighestTagIsHighest, MaxTagAssumption DEF NextTag

-----------------------------------------------------------------------------
(* Types.                                                                  *)

LEMMA TypeInit == Init => ReleaseTypeOK
<1> SUFFICES ASSUME Init
             PROVE  ReleaseTypeOK
  OBVIOUS
<1>1. remote \in TagTables /\ latest \in 0..MaxTag
  BY MaxTagAssumption DEF Init, TagTables
<1>2. local \in [Maintainers -> TagTables] /\ newTag \in [Maintainers -> 0..MaxTag]
  BY <1>1, MaxTagAssumption DEF Init
<1>3. overlap \in BOOLEAN /\ releases \subseteq Tags
  BY DEF Init
<1>4. /\ pc \in [Maintainers -> {"idle", "prompt", "tag", "push", "publish", "done"}]
      /\ build \in [Tags -> {"none", "queued", "built", "published", "failed"}]
  BY DEF Init
<1> QED
  BY <1>1, <1>2, <1>3, <1>4 DEF ReleaseTypeOK

LEMMA MergedType ==
  ASSUME ReleaseTypeOK, NEW m \in Maintainers
  PROVE  Merged(m) \in TagTables
BY DEF ReleaseTypeOK, Merged, TagTables

\* A run past the fetch has a tag number.
RunsHaveTag == \A m \in Maintainers : pc[m] # "idle" => newTag[m] \in Tags

LEMMA TagNext == ReleaseTypeOK /\ RunsHaveTag /\ [Next]_vars => RunsHaveTag'
<1> SUFFICES ASSUME ReleaseTypeOK, RunsHaveTag, [Next]_vars,
                    NEW n \in Maintainers, pc'[n] # "idle"
             PROVE  newTag'[n] \in Tags
  BY DEF RunsHaveTag
<1> USE DEF ReleaseTypeOK, RunsHaveTag
<1>1. ASSUME NEW m \in Maintainers, Fetch(m)
      PROVE  newTag'[n] \in Tags
  <2>1. NextTag(Merged(m)) \in 1..(MaxTag + 1)
    BY NextTagIsNew
  <2> QED
    BY <1>1, <2>1, MaxTagAssumption DEF Fetch, Goto, Tags
<1>2. ASSUME NEW m \in Maintainers, Confirm(m) \/ MakeTag(m) \/ Push(m) \/ PushFails(m) \/ PublishRelease(m)
      PROVE  newTag'[n] \in Tags
  BY <1>2 DEF Confirm, MakeTag, Push, PushFails, PublishRelease, Goto
<1>3. CASE UNCHANGED <<pc, newTag>>
  BY <1>3
<1> QED
  BY <1>1, <1>2, <1>3 DEF Next, ScriptStep, WorkflowStep, BuildImage, PublishImage, vars

LEMMA TypeNext == ReleaseTypeOK /\ RunsHaveTag /\ [Next]_vars => ReleaseTypeOK'
<1> SUFFICES ASSUME ReleaseTypeOK, RunsHaveTag, [Next]_vars
             PROVE  ReleaseTypeOK'
  OBVIOUS
<1> USE DEF ReleaseTypeOK
<1>1. ASSUME NEW m \in Maintainers, Fetch(m)
      PROVE  ReleaseTypeOK'
  <2>1. NextTag(Merged(m)) \in 1..(MaxTag + 1)
    BY NextTagIsNew
  <2>2. local' \in [Maintainers -> TagTables]
    BY <1>1, MergedType DEF Fetch
  <2>3. newTag' \in [Maintainers -> 0..MaxTag]
    BY <1>1, <2>1, MaxTagAssumption DEF Fetch
  <2>4. pc' \in [Maintainers -> {"idle", "prompt", "tag", "push", "publish", "done"}]
    BY <1>1 DEF Fetch, Goto
  <2>5. overlap' \in BOOLEAN
    BY <1>1 DEF Fetch
  <2> QED
    BY <1>1, <2>2, <2>3, <2>4, <2>5 DEF Fetch, ciVars
<1>2. ASSUME NEW m \in Maintainers, Confirm(m)
      PROVE  ReleaseTypeOK'
  BY <1>2 DEF Confirm, Goto, ciVars
<1>3. ASSUME NEW m \in Maintainers, MakeTag(m)
      PROVE  ReleaseTypeOK'
  <2>1. local' \in [Maintainers -> TagTables]
    BY <1>3 DEF MakeTag, TagTables
  <2> QED
    BY <1>3, <2>1 DEF MakeTag, Goto, ciVars
<1>4. ASSUME NEW m \in Maintainers, Push(m)
      PROVE  ReleaseTypeOK'
  <2>1. remote' \in TagTables
    BY <1>4 DEF Push, TagTables
  <2>2. pc' \in [Maintainers -> {"idle", "prompt", "tag", "push", "publish", "done"}]
    BY <1>4 DEF Push, Goto
  <2>3. overlap' \in BOOLEAN
    BY <1>4 DEF Push
  <2> QED
    BY <1>4, <2>1, <2>2, <2>3 DEF Push
<1>5. ASSUME NEW m \in Maintainers, PushFails(m)
      PROVE  ReleaseTypeOK'
  BY <1>5 DEF PushFails, Goto, ciVars
<1>6. ASSUME NEW m \in Maintainers, PublishRelease(m)
      PROVE  ReleaseTypeOK'
  BY <1>6 DEF PublishRelease, Goto, ciVars, RunsHaveTag
<1>7. ASSUME NEW t \in Tags, BuildImage(t)
      PROVE  ReleaseTypeOK'
  BY <1>7 DEF BuildImage
<1>8. ASSUME NEW t \in Tags, PublishImage(t)
      PROVE  ReleaseTypeOK'
  BY <1>8 DEF PublishImage, Tags
<1>9. CASE UNCHANGED vars
  BY <1>9 DEF vars
<1> QED
  BY <1>1, <1>2, <1>3, <1>4, <1>5, <1>6, <1>7, <1>8, <1>9 DEF Next, ScriptStep, WorkflowStep

\* What is shown for every step rests on these two.
TagInv == ReleaseTypeOK /\ RunsHaveTag

LEMMA TagInvariant == Spec => []TagInv
<1>1. Init => TagInv
  BY TypeInit DEF Init, TagInv, RunsHaveTag
<1>2. TagInv /\ [Next]_vars => TagInv'
  BY TypeNext, TagNext DEF TagInv
<1> QED
  BY <1>1, <1>2, PTL DEF Spec

\* Every variable of the release flow keeps its type, and no run counts past
\* the bound on tags.
THEOREM ReleaseTypeCorrect == Spec => []ReleaseTypeOK
<1>1. TagInv => ReleaseTypeOK
  BY DEF TagInv
<1> QED
  BY <1>1, TagInvariant, PTL

-----------------------------------------------------------------------------
(* The tags of origin.                                                     *)

LEMMA AnnouncedNext == TagInv /\ AnnouncedTagIsOwn /\ [Next]_vars => AnnouncedTagIsOwn'
<1> SUFFICES ASSUME TagInv, AnnouncedTagIsOwn, [Next]_vars
             PROVE  AnnouncedTagIsOwn'
  OBVIOUS
<1> USE NoneAssumption DEF AnnouncedTagIsOwn, TagInv, ReleaseTypeOK, RunsHaveTag
<1>1. ASSUME NEW m \in Maintainers, Fetch(m) \/ Confirm(m) \/ MakeTag(m) \/ PushFails(m)
      PROVE  AnnouncedTagIsOwn'
  BY <1>1 DEF Fetch, Confirm, MakeTag, PushFails, Goto
<1>2. ASSUME NEW m \in Maintainers, Push(m)
      PROVE  AnnouncedTagIsOwn'
  <2>1. newTag[m] \in Tags
    BY <1>2 DEF Push
  <2>2. ASSUME NEW n \in Maintainers, pc'[n] \in {"publish", "done"}
        PROVE  remote'[newTag'[n]] = n
    <3>1. CASE n = m
      BY <1>2, <2>1, <3>1 DEF Push, TagTables
    <3>2. CASE n # m
      <4>1. remote[newTag[n]] = n /\ newTag[n] \in Tags
        BY <1>2, <2>2, <3>2 DEF Push, Goto
      <4> QED
        BY <1>2, <4>1 DEF Push, Accepted, TagTables
    <3> QED
      BY <3>1, <3>2
  <2>3. \A t \in releases' : remote'[t] # None
    BY <1>2 DEF Push, TagTables
  <2> QED
    BY <2>2, <2>3
<1>3. ASSUME NEW m \in Maintainers, PublishRelease(m)
      PROVE  AnnouncedTagIsOwn'
  BY <1>3 DEF PublishRelease, Goto
<1>4. CASE UNCHANGED <<remote, pc, newTag, releases>>
  BY <1>4
<1> QED
  BY <1>1, <1>2, <1>3, <1>4 DEF Next, ScriptStep, WorkflowStep, BuildImage, PublishImage, vars

\* Whoever is told that a tag is pushed owns that tag on origin, however many
\* maintainers release at once.
THEOREM AnnouncedTagsAreOwn == Spec => []AnnouncedTagIsOwn
<1>1. Init => AnnouncedTagIsOwn
  BY DEF Init, AnnouncedTagIsOwn
<1> QED
  BY <1>1, AnnouncedNext, TagInvariant, PTL DEF Spec

-----------------------------------------------------------------------------
(* The image "latest".                                                     *)

\* Images come from tags of origin.
BuiltFromTags ==
  /\ \A t \in Tags : build[t] # "none" => remote[t] # None
  /\ latest # 0 => remote[latest] # None

\* Without an overlap one run at a time is past its fetch, with a number above
\* all of origin's, and only the newest tag is being built.
OneAtATime ==
  ~overlap =>
    /\ \A m, n \in Undecided : m = n
    /\ \A m \in Undecided : \A t \in Present(remote) : newTag[m] > t
    /\ \A t \in Building : \A u \in Present(remote) : u <= t

LEMMA BuiltFromTagsNext == TagInv /\ BuiltFromTags /\ [Next]_vars => BuiltFromTags'
<1> SUFFICES ASSUME TagInv, BuiltFromTags, [Next]_vars
             PROVE  BuiltFromTags'
  OBVIOUS
<1> USE NoneAssumption DEF BuiltFromTags, TagInv, ReleaseTypeOK
<1>1. ASSUME NEW m \in Maintainers, Push(m)
      PROVE  BuiltFromTags'
  BY <1>1 DEF Push, TagTables, Tags
<1>2. ASSUME NEW t \in Tags, BuildImage(t)
      PROVE  BuiltFromTags'
  BY <1>2 DEF BuildImage
<1>3. ASSUME NEW t \in Tags, PublishImage(t)
      PROVE  BuiltFromTags'
  BY <1>3 DEF PublishImage
<1>4. CASE UNCHANGED <<remote, build, latest>>
  BY <1>4
<1> QED
  BY <1>1, <1>2, <1>3, <1>4 DEF Next, ScriptStep, WorkflowStep, Fetch, Confirm, MakeTag, PushFails,
    PublishRelease, ciVars, vars

LEMMA FetchKeepsOrder ==
  ASSUME TagInv, OneAtATime, NEW m \in Maintainers, Fetch(m), ~overlap'
  PROVE  OneAtATime'
<1> USE DEF TagInv, ReleaseTypeOK
<1>1. CASE Clobbers(m)
  <2>1. Undecided' \subseteq Undecided /\ UNCHANGED <<newTag, remote, build, overlap>>
    BY <1>1 DEF Fetch, Undecided, Goto, ciVars
  <2>2. Present(remote)' = Present(remote) /\ Building' = Building
    BY <2>1 DEF Present, Building
  <2> QED
    BY <2>1, <2>2 DEF OneAtATime
<1>2. CASE ~Clobbers(m)
  <2>1. Undecided = {} /\ ~overlap
    BY <1>2 DEF Fetch
  <2>2. Undecided' \subseteq {m}
    BY <1>2, <2>1 DEF Fetch, Undecided, Goto
  <2>3. Present(remote) \subseteq Present(Merged(m))
    BY DEF Present, Merged
  <2>4. \A t \in Present(remote) : newTag'[m] > t
    BY <1>2, <2>3, NextTagIsNew DEF Fetch
  <2>5. Present(remote)' = Present(remote) /\ Building' = Building
    BY DEF Fetch, Present, Building, ciVars
  <2> QED
    BY <2>1, <2>2, <2>4, <2>5 DEF OneAtATime
<1> QED
  BY <1>1, <1>2

LEMMA PushKeepsOrder ==
  ASSUME TagInv, OneAtATime, NEW m \in Maintainers, Push(m), ~overlap'
  PROVE  OneAtATime'
<1> USE DEF TagInv, ReleaseTypeOK
<1>1. Building = {} /\ ~overlap /\ m \in Undecided
  BY DEF Push, Undecided
<1>2. newTag[m] \in Tags
  BY DEF RunsHaveTag, Push
<1>3. Undecided' = {}
  BY <1>1 DEF OneAtATime, Undecided, Push, Goto
<1>4. Building' \subseteq {newTag[m]}
  BY <1>1 DEF Building, Push
<1>5. Present(remote)' \subseteq Present(remote) \union {newTag[m]}
  BY DEF Present, Push, TagTables
<1>6. \A t \in Present(remote) : t \in Int /\ newTag[m] > t
  BY <1>1 DEF OneAtATime, Present, Tags
<1>7. newTag[m] \in Int
  BY <1>2 DEF Tags
<1> QED
  BY <1>3, <1>4, <1>5, <1>6, <1>7 DEF OneAtATime

LEMMA OrderNext == TagInv /\ OneAtATime /\ [Next]_vars => OneAtATime'
<1> SUFFICES ASSUME TagInv, OneAtATime, [Next]_vars, ~overlap'
             PROVE  OneAtATime'
  BY DEF OneAtATime
<1>1. ASSUME NEW m \in Maintainers, Confirm(m) \/ MakeTag(m) \/ PushFails(m) \/ PublishRelease(m)
      PROVE  OneAtATime'
  <2>1. Undecided' \subseteq Undecided
    BY <1>1 DEF TagInv, ReleaseTypeOK, Confirm, MakeTag, PushFails, PublishRelease, Undecided, Goto
  <2>2. Present(remote)' = Present(remote) /\ Building' = Building /\ UNCHANGED <<newTag, overlap>>
    BY <1>1 DEF Confirm, MakeTag, PushFails, PublishRelease, Present, Building, ciVars
  <2> QED
    BY <2>1, <2>2 DEF OneAtATime
<1>2. ASSUME NEW t \in Tags, BuildImage(t) \/ PublishImage(t)
      PROVE  OneAtATime'
  <2>1. Building' \subseteq Building
    BY <1>2 DEF TagInv, ReleaseTypeOK, BuildImage, PublishImage, Building
  <2>2. Present(remote)' = Present(remote) /\ Undecided' = Undecided /\ UNCHANGED <<newTag, overlap>>
    BY <1>2 DEF BuildImage, PublishImage, Present, Undecided
  <2> QED
    BY <2>1, <2>2 DEF OneAtATime
<1>3. CASE UNCHANGED vars
  BY <1>3 DEF vars, OneAtATime, Undecided, Present, Building
<1> QED
  BY <1>1, <1>2, <1>3, FetchKeepsOrder, PushKeepsOrder DEF Next, ScriptStep, WorkflowStep

LatestInv == TagInv /\ BuiltFromTags /\ OneAtATime

LEMMA LatestInvariant == Spec => []LatestInv
<1>1. Init => BuiltFromTags /\ OneAtATime
  BY DEF Init, BuiltFromTags, OneAtATime, Undecided, Building
<1>2. LatestInv /\ [Next]_vars => LatestInv'
  BY TypeNext, TagNext, BuiltFromTagsNext, OrderNext DEF LatestInv, TagInv
<1>3. LatestInv <=> TagInv /\ BuiltFromTags /\ OneAtATime
  BY DEF LatestInv
<1> QED
  BY <1>1, <1>2, <1>3, TagInvariant, PTL DEF Spec

\* One release after the other moves the image forward only: if no two runs
\* and no two builds have overlapped, no step moves "latest" to a lower tag.
THEOREM LatestMovesForward == Spec => LatestFallsOnlyOnOverlap
<1>1. ASSUME LatestInv, [Next]_vars
      PROVE  [latest' < latest => overlap]_vars
  <2> SUFFICES ASSUME latest' < latest
               PROVE  overlap
    OBVIOUS
  <2> USE <1>1 DEF LatestInv, TagInv, ReleaseTypeOK
  <2>1. ASSUME NEW t \in Tags, PublishImage(t)
        PROVE  overlap
    <3>1. latest' = t /\ t \in Building /\ latest # 0
      BY <2>1, MaxTagAssumption DEF PublishImage, Building, Tags
    <3>2. latest \in Present(remote)
      BY <3>1, MaxTagAssumption DEF BuiltFromTags, Present, Tags
    <3> QED
      BY <3>1, <3>2, MaxTagAssumption DEF OneAtATime, Tags
  <2>2. CASE UNCHANGED latest
    BY <2>2, MaxTagAssumption
  <2> QED
    BY <2>1, <2>2 DEF Next, ScriptStep, WorkflowStep, Fetch, Confirm, MakeTag, Push, PushFails,
      PublishRelease, BuildImage, ciVars, vars
<1> QED
  BY <1>1, LatestInvariant, PTL DEF Spec, LatestFallsOnlyOnOverlap

-----------------------------------------------------------------------------
(* The clones.                                                             *)

\* A run that has yet to make its tag counts from what its clone has, and a
\* clone has only its own tags and tags of origin.
FreshTag ==
  \A m \in Maintainers : pc[m] \in {"prompt", "tag"} => local[m][newTag[m]] = None
OwnOrOrigins ==
  \A m \in Maintainers : \A t \in Tags : local[m][t] \notin {m, None} => remote[t] = local[m][t]

CloneInv == TagInv /\ FreshTag /\ OwnOrOrigins

LEMMA FreshTagNext == TagInv /\ FreshTag /\ [Next]_vars => FreshTag'
<1> SUFFICES ASSUME TagInv, FreshTag, [Next]_vars,
                    NEW n \in Maintainers, pc'[n] \in {"prompt", "tag"}
             PROVE  local'[n][newTag'[n]] = None
  BY DEF FreshTag
<1> USE DEF TagInv, ReleaseTypeOK
<1>1. ASSUME NEW m \in Maintainers, Fetch(m)
      PROVE  local'[n][newTag'[n]] = None
  <2>1. CASE n # m
    <3>1. pc'[n] = pc[n] /\ local'[n] = local[n] /\ newTag'[n] = newTag[n]
      BY <1>1, <2>1 DEF Fetch, Goto
    <3> QED
      BY <3>1 DEF FreshTag
  <2>2. CASE n = m
    <3> DEFINE table == Merged(m)
               tag   == NextTag(table)
    <3>1. newTag'[m] = tag /\ local'[m] = table /\ tag <= MaxTag
      BY <1>1, <2>2 DEF Fetch, Goto
    <3>2. tag \in Tags /\ \A t \in Present(table) : tag > t
      BY <3>1, NextTagIsNew, MaxTagAssumption DEF Tags
    <3>3. tag \notin Present(table)
      BY <3>2 DEF Tags
    <3> QED
      BY <2>2, <3>1, <3>2, <3>3 DEF Present
  <2> QED
    BY <2>1, <2>2
<1>2. ASSUME NEW m \in Maintainers, Confirm(m) \/ Push(m) \/ PushFails(m) \/ PublishRelease(m)
      PROVE  local'[n][newTag'[n]] = None
  BY <1>2 DEF Confirm, Push, PushFails, PublishRelease, Goto, FreshTag
<1>3. ASSUME NEW m \in Maintainers, MakeTag(m)
      PROVE  local'[n][newTag'[n]] = None
  BY <1>3 DEF MakeTag, Goto, FreshTag
<1>4. CASE UNCHANGED <<local, pc, newTag>>
  BY <1>4 DEF FreshTag
<1> QED
  BY <1>1, <1>2, <1>3, <1>4 DEF Next, ScriptStep, WorkflowStep, BuildImage, PublishImage, vars

LEMMA OwnOrOriginsNext == TagInv /\ OwnOrOrigins /\ [Next]_vars => OwnOrOrigins'
<1> SUFFICES ASSUME TagInv, OwnOrOrigins, [Next]_vars,
                    NEW n \in Maintainers, NEW t \in Tags, local'[n][t] \notin {n, None}
             PROVE  remote'[t] = local'[n][t]
  BY DEF OwnOrOrigins
<1> USE DEF TagInv, ReleaseTypeOK
<1>1. ASSUME NEW m \in Maintainers, Fetch(m)
      PROVE  remote'[t] = local'[n][t]
  <2>1. local'[n] = IF n = m THEN Merged(m) ELSE local[n]
    BY <1>1 DEF Fetch
  <2> QED
    BY <1>1, <2>1 DEF Fetch, Merged, OwnOrOrigins
<1>2. ASSUME NEW m \in Maintainers, MakeTag(m)
      PROVE  remote'[t] = local'[n][t]
  <2>1. newTag[m] \in Tags /\ local[m] \in TagTables
    BY <1>2 DEF MakeTag, RunsHaveTag
  <2>2. local'[n][t] = IF n = m /\ t = newTag[m] THEN m ELSE local[n][t]
    BY <1>2, <2>1 DEF MakeTag, TagTables
  <2> QED
    BY <1>2, <2>2 DEF MakeTag, OwnOrOrigins
<1>3. ASSUME NEW m \in Maintainers, Push(m)
      PROVE  remote'[t] = local'[n][t]
  <2>1. local' = local /\ remote[t] = local[n][t]
    BY <1>3 DEF Push, OwnOrOrigins
  <2>2. t # newTag[m]
    BY <1>3, <2>1 DEF Push, Accepted
  <2> QED
    BY <1>3, <2>1, <2>2 DEF Push, TagTables
<1>4. CASE UNCHANGED <<remote, local>>
  BY <1>4 DEF OwnOrOrigins
<1> QED
  BY <1>1, <1>2, <1>3, <1>4 DEF Next, ScriptStep, WorkflowStep, Confirm, PushFails,
    PublishRelease, BuildImage, PublishImage, vars

LEMMA CloneInvariant == Spec => []CloneInv
<1>1. Init => FreshTag /\ OwnOrOrigins
  BY DEF Init, FreshTag, OwnOrOrigins
<1>2. CloneInv <=> TagInv /\ FreshTag /\ OwnOrOrigins
  BY DEF CloneInv
<1> QED
  BY <1>1, <1>2, TagInvariant, FreshTagNext, OwnOrOriginsNext, PTL DEF Spec

\* A clone that disagrees with origin about a tag keeps disagreeing, whatever
\* anybody does with the script, and none of its later runs passes the fetch.
THEOREM LosersStayOut == Spec => LoserStaysOut
<1>1. ASSUME CloneInv, [Next]_vars, NEW m \in Maintainers, Clobbers(m)
      PROVE  /\ Clobbers(m)'
             /\ pc[m] \in {"idle", "done"} => pc'[m] \in {"idle", "done"}
  <2> USE <1>1 DEF CloneInv, TagInv, ReleaseTypeOK
  <2>1. PICK t \in Tags : None \notin {local[m][t], remote[t]} /\ local[m][t] # remote[t]
    BY DEF Clobbers
  <2>2. remote'[t] = remote[t]
    <3>1. ASSUME NEW n \in Maintainers, Push(n)
          PROVE  remote'[t] = remote[t]
      BY <2>1, <3>1 DEF Push, Accepted, TagTables
    <3>2. CASE UNCHANGED remote
      BY <3>2
    <3> QED
      BY <3>1, <3>2 DEF Next, ScriptStep, WorkflowStep, Fetch, Confirm, MakeTag, PushFails,
        PublishRelease, BuildImage, PublishImage, vars
  <2>3. local'[m][t] = local[m][t]
    <3>1. ASSUME NEW n \in Maintainers, Fetch(n)
          PROVE  local'[m][t] = local[m][t]
      BY <2>1, <3>1 DEF Fetch, Merged
    <3>2. ASSUME NEW n \in Maintainers, MakeTag(n)
          PROVE  local'[m][t] = local[m][t]
      <4>1. n = m => newTag[n] # t
        BY <2>1, <3>2 DEF MakeTag, FreshTag
      <4> QED
        BY <3>2, <4>1 DEF MakeTag, TagTables
    <3>3. CASE UNCHANGED local
      BY <3>3
    <3> QED
      BY <3>1, <3>2, <3>3 DEF Next, ScriptStep, WorkflowStep, Confirm, Push, PushFails,
        PublishRelease, BuildImage, PublishImage, vars
  <2>4. Clobbers(m)'
    BY <2>1, <2>2, <2>3 DEF Clobbers
  <2>5. ASSUME pc[m] \in {"idle", "done"}
        PROVE  pc'[m] \in {"idle", "done"}
    BY <2>5 DEF Next, ScriptStep, WorkflowStep, Fetch, Confirm, MakeTag, Push, PushFails,
      PublishRelease, BuildImage, PublishImage, Goto, vars
  <2> QED
    BY <2>4, <2>5
<1>2. CloneInv /\ [Next]_vars =>
        [\A m \in Maintainers : Clobbers(m) =>
           /\ Clobbers(m)'
           /\ pc[m] \in {"idle", "done"} => pc'[m] \in {"idle", "done"}]_vars
  BY <1>1
<1> QED
  BY <1>2, CloneInvariant, PTL DEF Spec, LoserStaysOut

\* A clone disagrees with origin only about a tag of its own that another
\* maintainer pushed first: who never lost a race can always release.
THEOREM OnlyLosersAreStuck == Spec => []OnlyLosersStuck
<1>1. ASSUME CloneInv, NEW m \in Maintainers, Clobbers(m)
      PROVE  \E t \in Tags : local[m][t] = m /\ remote[t] \notin {m, None}
  <2>1. PICK t \in Tags : None \notin {local[m][t], remote[t]} /\ local[m][t] # remote[t]
    BY <1>1 DEF Clobbers
  <2> QED
    BY <1>1, <2>1 DEF CloneInv, OwnOrOrigins
<1>2. CloneInv => OnlyLosersStuck
  BY <1>1 DEF OnlyLosersStuck
<1> QED
  BY <1>2, CloneInvariant, PTL
=============================================================================
