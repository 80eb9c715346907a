----------------------------- MODULE ClientProofs -----------------------------
(***************************************************************************)
(* Proofs about the client: its listeners and its toast, for every         *)
(* canister that serves it, every order of answers, losses and taps, and   *)
(* any number of them; then the geometry of its card; and then what it     *)
(* shows, from what its requests find in the asset store.                  *)
(***************************************************************************)
EXTENDS Client, AssetsProofs

\* What the browser was asked and has not answered: the effect of App asks
\* before there is a toast, and a tap on the toast takes it away.
Asked ==
  /\ pending \subseteq {"effect", "accept"}
  /\ pending # {} => ~toast /\ app # "absent" /\ granted # "free"
  /\ "effect" \in pending => "accept" \notin pending
  /\ toast => app = "mounted"

\* App is there from the first page to the crash.
AppFollowsPage ==
  /\ stage \in {"closed", "manifest", "textures", "shown", "crashed"}
  /\ app = IF stage = "closed" THEN "absent"
           ELSE IF stage = "crashed" THEN "unmounted" ELSE "mounted"
  /\ late => app = "unmounted"
  /\ listeners \in [App : {0, 1}, Card : {0, 1}]
  /\ granted \in {"ask", "granted", "denied", "free"}
  /\ toast \in BOOLEAN /\ late \in BOOLEAN

\* The inductive invariant.
SensorInv ==
  AppFollowsPage /\ Asked /\ ListenersComeAndGo /\ NoToastOnceGranted

-----------------------------------------------------------------------------
\* The page begins without listeners, toast or questions.
LEMMA InitSensor == ClientInit => SensorInv
  <1> SUFFICES ASSUME ClientInit
               PROVE  SensorInv
    OBVIOUS
  <1>1. AppFollowsPage
    BY DEF ClientInit, PageInit, MotionInit, AppFollowsPage
  <1>2. Asked
    BY DEF ClientInit, PageInit, MotionInit, Asked
  <1>3. ListenersComeAndGo /\ NoToastOnceGranted
    BY DEF ClientInit, PageInit, MotionInit, ListenersComeAndGo,
           NoToastOnceGranted
  <1> QED
    BY <1>1, <1>2, <1>3 DEF SensorInv

\* The canister, and the loading of a page that goes well, do not touch it.
LEMMA SensorsStay ==
  ASSUME SensorInv, UNCHANGED sensorVars,
         \/ stage' = stage
         \/ stage = "manifest" /\ stage' = "textures"
  PROVE  SensorInv'
  BY DEF SensorInv, AppFollowsPage, Asked, ListenersComeAndGo,
         NoToastOnceGranted, sensorVars

\* The page opens.
LEMMA OpenKeepsSensor ==
  ASSUME SensorInv, NEW i, OpenPage(i)
  PROVE  SensorInv'
  BY DEF SensorInv, AppFollowsPage, Asked, ListenersComeAndGo,
         NoToastOnceGranted, OpenPage, Open, Mount, Bind

\* All unmounts.
LEMMA CrashKeepsSensor ==
  ASSUME SensorInv, Loading, stage' = "crashed", Unmount
  PROVE  SensorInv'
  BY DEF SensorInv, AppFollowsPage, Asked, ListenersComeAndGo,
         NoToastOnceGranted, Loading, Unmount

\* The card mounts.
LEMMA ShowKeepsSensor ==
  ASSUME SensorInv, ShowCard
  PROVE  SensorInv'
  BY DEF SensorInv, AppFollowsPage, Asked, ListenersComeAndGo,
         NoToastOnceGranted, ShowCard, Show, Loaded, CardMount, Bind

\* The browser answers the effect of App, to which there is no toast yet.
LEMMA EffectKeepsSensor ==
  ASSUME SensorInv, UNCHANGED stage, Answer("effect")
  PROVE  SensorInv'
  BY DEF SensorInv, AppFollowsPage, Asked, ListenersComeAndGo,
         NoToastOnceGranted, Answer, Answers, EffectAnswered

\* It answers a tap on the toast, which is gone by now.
LEMMA AcceptKeepsSensor ==
  ASSUME SensorInv, UNCHANGED stage, Answer("accept")
  PROVE  SensorInv'
  BY DEF SensorInv, AppFollowsPage, Asked, ListenersComeAndGo,
         NoToastOnceGranted, Answer, Answers, AcceptAnswered, Bind

\* The user takes the toast away.
LEMMA ToastKeepsSensor ==
  ASSUME SensorInv, UNCHANGED stage, AcceptToast \/ DismissToast
  PROVE  SensorInv'
  <1>1. /\ app = "mounted" /\ toast /\ pending = {} /\ ~toast'
        /\ pending' \subseteq {"accept"}
        /\ UNCHANGED <<app, listeners, granted, late>>
    BY DEF SensorInv, Asked, AcceptToast, DismissToast
  <1>2. granted \notin {"granted", "free"} /\ toast' \in BOOLEAN
    BY <1>1 DEF SensorInv, NoToastOnceGranted, AcceptToast, DismissToast
  <1>3. AppFollowsPage'
    BY <1>1, <1>2 DEF SensorInv, AppFollowsPage
  <1>4. Asked'
    BY <1>1, <1>2 DEF Asked
  <1>5. ListenersComeAndGo' /\ NoToastOnceGranted'
    BY <1>1, <1>2 DEF SensorInv, ListenersComeAndGo, NoToastOnceGranted
  <1> QED
    BY <1>3, <1>4, <1>5 DEF SensorInv

\* The page gets on, or crashes.
LEMMA LoadKeepsSensor ==
  ASSUME SensorInv, LoadPage
  PROVE  SensorInv'
  <1>1. \/ stage' = "crashed"
        \/ stage' = stage
        \/ stage = "manifest" /\ stage' = "textures"
    BY DEF LoadPage, PageReply, ManifestReply, TextureReply, Lose
  <1>2. Loading
    BY DEF LoadPage, PageReply, ManifestReply, TextureReply, Lose, Loading
  <1>3. CASE stage' = "crashed"
    BY <1>2, <1>3, CrashKeepsSensor DEF LoadPage
  <1>4. CASE stage' # "crashed"
    BY <1>1, <1>4, SensorsStay DEF LoadPage, motionVars
  <1> QED
    BY <1>3, <1>4

\* Something moves while the page is open.
LEMMA MoveKeepsSensor ==
  ASSUME SensorInv, MotionStep, UNCHANGED stage
  PROVE  SensorInv'
  <1>1. CASE \E request \in pending : Answer(request)
    <2>1. Answer("effect") \/ Answer("accept")
      BY <1>1 DEF SensorInv, Asked
    <2> QED
      BY <2>1, EffectKeepsSensor, AcceptKeepsSensor
  <1>2. CASE AcceptToast \/ DismissToast
    BY <1>2, ToastKeepsSensor
  <1>3. CASE Touch \/ Rerender \/ Frame \/ Debounce
    <2>1. UNCHANGED sensorVars
      BY <1>3 DEF Touch, Click, Point, Rerender, Frame, Debounce
    <2> QED
      BY <2>1, SensorsStay
  <1> QED
    BY <1>1, <1>2, <1>3 DEF MotionStep

\* Every step keeps the invariant.
LEMMA NextSensor == SensorInv /\ [ClientNext]_clientVars => SensorInv'
  <1> SUFFICES ASSUME SensorInv, [ClientNext]_clientVars
               PROVE  SensorInv'
    OBVIOUS
  <1>1. CASE ServerStep
    BY <1>1, SensorsStay DEF ServerStep, Notice, motionVars
  <1>2. ASSUME NEW i \in 0 .. Supply - 1, OpenPage(i)
        PROVE  SensorInv'
    BY <1>2, OpenKeepsSensor
  <1>3. CASE LoadPage
    BY <1>3, LoadKeepsSensor
  <1>4. CASE Render
    BY <1>4, SensorsStay, ShowKeepsSensor
    DEF Render, BuildCard, pageVars, motionVars
  <1>5. CASE Move
    BY <1>5, MoveKeepsSensor DEF Move, Moves, pageVars
  <1>6. CASE UNCHANGED clientVars
    BY <1>6, SensorsStay DEF clientVars, pageVars, motionVars
  <1> QED
    BY <1>1, <1>2, <1>3, <1>4, <1>5, <1>6 DEF ClientNext

\* Listeners, toast and answers keep their invariant.
THEOREM SensorInvariance == ClientSpec => []SensorInv
  BY InitSensor, NextSensor, PTL DEF ClientSpec

\* However answers, losses and the changes of the canister interleave, App and
\* the card have one listener each while they are there, and none is left
\* behind but by a permission that is granted after the app has unmounted.
THEOREM ListenersMatch == ClientSpec => []ListenersComeAndGo
  <1>1. SensorInv => ListenersComeAndGo
    BY DEF SensorInv
  <1> QED
    BY <1>1, SensorInvariance, PTL

\* Nobody is asked for a permission that is granted: the effect that opens the
\* toast cannot be answered after a tap on it.
THEOREM ToastIsNeeded == ClientSpec => []NoToastOnceGranted
  <1>1. SensorInv => NoToastOnceGranted
    BY DEF SensorInv
  <1> QED
    BY <1>1, SensorInvariance, PTL

-----------------------------------------------------------------------------
(***************************************************************************)
(* The card: its groups are its faces and its texture covers it, for every *)
(* size of the card and every mesh that comes as three.js makes it: back,  *)
(* front, sides.                                                           *)
(***************************************************************************)

\* Where a face begins in the mesh, and how many vertices it has.
First(f) == IF f = -1 THEN 0 ELSE IF f = 1 THEN Lid ELSE 2 * Lid
Extent(f) == IF f = 0 THEN Wall ELSE Lid

\* The vertices of a face that the loop has seen after n turns.
Seen(f, n) ==
  IF n <= First(f) THEN 0
  ELSE IF n >= First(f) + Extent(f) THEN Extent(f) ELSE n - First(f)

\* Before the loop reaches a face it has no start; from then on it starts where
\* the face begins.
GroupInv ==
  /\ vertex \in 0 .. 2 * Lid + Wall
  /\ groupCount = [f \in Faces |-> Seen(f, vertex)]
  /\ groupStart = [f \in Faces |-> IF vertex <= First(f) THEN Undefined
                                   ELSE First(f)]

\* A vertex is of a face exactly when it is in the face's stretch of the mesh.
LEMMA FaceIsAStretch ==
  ASSUME NEW v \in Vertices, NEW f \in Faces
  PROVE  NormalZ(v) = f <=> First(f) <= v /\ v < First(f) + Extent(f)
BY GeometryAssumption DEF Vertices, Faces, NormalZ, First, Extent

\* The loop keeps the count and the start of every face.
LEMMA TurnKeepsGroupInv ==
  ASSUME GroupInv, GroupVertex
  PROVE  GroupInv'
<1> DEFINE g == NormalZ(vertex)
<1>1. vertex \in Nat /\ vertex < 2 * Lid + Wall /\ vertex' = vertex + 1
  BY GeometryAssumption DEF GroupInv, GroupVertex, Grouped
<1>2. g \in Faces /\ vertex \in Vertices
  BY <1>1, GeometryAssumption DEF NormalZ, Faces, Vertices
<1>3. First(g) <= vertex /\ vertex < First(g) + Extent(g)
  BY <1>2, FaceIsAStretch
<1>4. \A f \in Faces :
         f # g => \/ vertex + 1 <= First(f)
                  \/ First(f) + Extent(f) <= vertex /\ vertex > First(f)
  BY <1>1, <1>2, GeometryAssumption, FaceIsAStretch
     DEF First, Extent, Faces, NormalZ
<1>5. groupCount' = [f \in Faces |-> Seen(f, vertex')]
  <2>1. groupCount' = [groupCount EXCEPT ![g] = @ + 1]
    BY DEF GroupVertex
  <2>2. Seen(g, vertex + 1) = Seen(g, vertex) + 1
    BY <1>1, <1>2, <1>3, GeometryAssumption DEF Seen, First, Extent, Faces
  <2>3. \A f \in Faces : f # g => Seen(f, vertex + 1) = Seen(f, vertex)
    BY <1>1, <1>4, GeometryAssumption DEF Seen, First, Extent, Faces
  <2> QED
    BY <1>1, <1>2, <2>1, <2>2, <2>3 DEF GroupInv
<1>6. groupStart' = [f \in Faces |-> IF vertex' <= First(f) THEN Undefined
                                     ELSE First(f)]
  <2>1. groupStart' = [groupStart EXCEPT ![g] = Started(g)]
    BY DEF GroupVertex
  <2>2. Started(g) = First(g)
    BY <1>1, <1>2, <1>3, GeometryAssumption
       DEF GroupInv, Started, First, Faces
  <2>3. ~ (vertex + 1 <= First(g))
    BY <1>1, <1>2, <1>3, GeometryAssumption DEF First, Faces
  <2>4. \A f \in Faces :
           f # g => (vertex + 1 <= First(f) <=> vertex <= First(f))
    BY <1>1, <1>4, GeometryAssumption DEF First, Extent, Faces
  <2> QED
    BY <1>1, <1>2, <2>1, <2>2, <2>3, <2>4 DEF GroupInv
<1> QED
  BY <1>1, <1>5, <1>6, GeometryAssumption DEF GroupInv

\* GroupInv is inductive.
LEMMA GroupInvHolds == GeometrySpec => []GroupInv
<1>1. GeometryInit => GroupInv
  BY GeometryAssumption DEF GeometryInit, GroupInv, Seen, First, Faces
<1>2. GroupInv /\ [GroupVertex]_geometryVars => GroupInv'
  <2> SUFFICES ASSUME GroupInv, [GroupVertex]_geometryVars PROVE GroupInv'
    OBVIOUS
  <2>1. CASE GroupVertex
    BY <2>1, TurnKeepsGroupInv
  <2>2. CASE UNCHANGED geometryVars
    BY <2>2 DEF GroupInv, geometryVars
  <2> QED
    BY <2>1, <2>2
<1> QED
  BY <1>1, <1>2, PTL DEF GeometrySpec

\* The groups useCardGeometry hands to three.js are the faces of the card: each
\* vertex is drawn with the material of its side.
THEOREM GroupsAreRight == GeometrySpec => []GroupsAreTheFaces
<1>1. GroupInv => GroupsAreTheFaces
  <2> SUFFICES ASSUME GroupInv, Grouped, NEW v \in Vertices, NEW f \in Faces
               PROVE  InGroup(v, f) <=> NormalZ(v) = f
    BY DEF GroupsAreTheFaces
  <2>1. First(f) < vertex /\ First(f) + Extent(f) <= vertex
        /\ First(f) \in Nat /\ Extent(f) \in Nat
    BY GeometryAssumption DEF Grouped, First, Extent, Faces
  <2>2. groupStart[f] = First(f) /\ groupCount[f] = Extent(f)
    BY <2>1, GeometryAssumption DEF GroupInv, Seen
  <2>3. InGroup(v, f) <=> First(f) <= v /\ v < First(f) + Extent(f)
    BY <2>1, <2>2, GeometryAssumption DEF InGroup
  <2> QED
    BY <2>3, FaceIsAStretch
<1> QED
  BY <1>1, GroupInvHolds, PTL

-----------------------------------------------------------------------------

\* The range of one axis that goes from -a to a has length 2 * a.
LEMMA SpreadOfRange ==
  ASSUME NEW a \in Nat, NEW S,
         -a \in S, a \in S, \A n \in S : n \in -a .. a
  PROVE  Spread(S) = 2 * a
<1> DEFINE R == S \cup {0}
<1>0. -a \in R /\ a \in R /\ \A n \in R : n \in Int /\ -a <= n /\ n <= a
  OBVIOUS
<1>1. Least(R) = -a
  <2>1. \A n \in R : (\A m \in R : n <= m) => n = -a
    BY <1>0
  <2> QED
    BY <1>0, <2>1 DEF Least
<1>2. Most(R) = a
  <2>1. \A n \in R : (\A m \in R : m <= n) => n = a
    BY <1>0
  <2> QED
    BY <1>0, <2>1 DEF Most
<1> QED
  BY <1>1, <1>2 DEF Spread, Abs

\* getDimensions finds the width and the height, though it looks at the start of
\* each curve only.
LEMMA Dimensions == Across = 2 * HalfWidth /\ Upright = 2 * HalfHeight
<1>1. Across = 2 * HalfWidth
  <2> DEFINE S == {p[1] : p \in Outline}
  <2>1. S = {0, -HalfWidth, Corner - HalfWidth, HalfWidth - Corner, HalfWidth}
    BY GeometryAssumption DEF Outline
  <2>2. \A n \in S : n \in -HalfWidth .. HalfWidth
    BY <2>1, GeometryAssumption
  <2> QED
    BY <2>1, <2>2, SpreadOfRange, GeometryAssumption DEF Across
<1>2. Upright = 2 * HalfHeight
  <2> DEFINE S == {p[2] : p \in Outline}
  <2>1. S = {0, HalfHeight - Corner, HalfHeight, Corner - HalfHeight,
             -HalfHeight}
    BY GeometryAssumption DEF Outline
  <2>2. \A n \in S : n \in -HalfHeight .. HalfHeight
    BY <2>1, GeometryAssumption
  <2> QED
    BY <2>1, <2>2, SpreadOfRange, GeometryAssumption DEF Upright
<1> QED
  BY <1>1, <1>2

\* Whatever the size of the card and of its corners, its texture covers it from
\* edge to edge.
THEOREM ArtIsWhole == GeometrySpec => []ArtFillsTheCard
<1>1. \A p \in Outline : /\ p[1] \in -HalfWidth .. HalfWidth
                         /\ p[2] \in -HalfHeight .. HalfHeight
  BY GeometryAssumption DEF Outline
<1>2. \A p \in Outline : /\ TopU(p) \in 0 .. 2 * Across
                         /\ TopV(p) \in 0 .. 2 * Upright
  BY <1>1, Dimensions, GeometryAssumption DEF TopU, TopV
<1>3. \E p, q \in Outline : TopU(p) = 0 /\ TopU(q) = 2 * Across
  <2>1. <<-HalfWidth, HalfHeight - Corner>> \in Outline
        /\ <<HalfWidth, HalfHeight - Corner>> \in Outline
    BY DEF Outline
  <2> QED
    BY <2>1, Dimensions, GeometryAssumption DEF TopU
<1>4. \E p, q \in Outline : TopV(p) = 0 /\ TopV(q) = 2 * Upright
  <2>1. <<HalfWidth - Corner, -HalfHeight>> \in Outline
        /\ <<HalfWidth - Corner, HalfHeight>> \in Outline
    BY DEF Outline
  <2> QED
    BY <2>1, Dimensions, GeometryAssumption DEF TopV
<1>5. ArtFillsTheCard
  BY <1>2, <1>3, <1>4 DEF ArtFillsTheCard
<1> QED
  BY <1>5, PTL
-----------------------------------------------------------------------------
(***************************************************************************)
(* The page: what it shows is the legend, and a crash has a cause, for any *)
(* records, tokens and legends, and whatever the admins do meanwhile.      *)
(***************************************************************************)

\* The files of the records with a tag.
TaggedFiles(records, t) ==
  {records[k].file : k \in {k \in DOMAIN records : t \in records[k].tags}}

\* One step of _findAllTag.
Found(t, found, r) == IF t \in r.tags THEN Append(found, r.file) ELSE found

FoundFold(records, t, iter) ==
  iter = [s \in SUBSET DOMAIN records |->
            IF s = {} THEN << >>
            ELSE LET x == Max(s)
                 IN  IF t \in records[x].tags
                     THEN Append(iter[s \ {x}], records[x].file)
                     ELSE iter[s \ {x}]]

\* _findAllTag is such a fold, once there is one.
LEMMA FoundFolds ==
  ASSUME NEW records, NEW t, NEW g, FoundFold(records, t, g)
  PROVE  \E h : FoundFold(records, t, h)
               /\ FilesWith(records, t) = h[DOMAIN records]
  <1> DEFINE h == CHOOSE iter : FoundFold(records, t, iter)
  <1>1. FoundFold(records, t, h)
    BY Zenon
  <1>2. FilesWith(records, t) = h[DOMAIN records]
    BY Zenon DEF FilesWith, FoldLeft, MapThenFoldSet, FoundFold
  <1> QED
    BY <1>1, <1>2, Zenon

\* _findAllTag finds only records with the tag.
LEMMA FilesWithTag ==
  ASSUME NEW records \in Seq(Records), NEW t
  PROVE  FilesWith(records, t) \in Seq(TaggedFiles(records, t))
  <1> DEFINE n == Len(records)
             F == TaggedFiles(records, t)
             step == [p \in Seq(F) \X (1 .. n) |->
                        Found(t, p[1], records[p[2]])]
  <1>1. n \in Nat /\ DOMAIN records = 1 .. n
    OBVIOUS
  <1>2. ASSUME NEW found \in Seq(F), NEW k \in 1 .. n
        PROVE  Found(t, found, records[k]) \in Seq(F)
    <2>1. t \in records[k].tags => records[k].file \in F
      BY <1>1 DEF TaggedFiles
    <2> HIDE DEF F
    <2> QED
      BY <2>1 DEF Found
  <1> HIDE DEF F
  <1>3. step \in [Seq(F) \X (1 .. n) -> Seq(F)]
    <2>1. \A p \in Seq(F) \X (1 .. n) :
             Found(t, p[1], records[p[2]]) \in Seq(F)
      <3> SUFFICES ASSUME NEW p \in Seq(F) \X (1 .. n)
                   PROVE  Found(t, p[1], records[p[2]]) \in Seq(F)
        OBVIOUS
      <3>1. p[1] \in Seq(F) /\ p[2] \in 1 .. n
        OBVIOUS
      <3> QED
        BY <1>2, <3>1
    <2> QED
      BY <2>1
  <1>4. PICK g : Stepwise(Seq(F), n, << >>, step, g)
    <2>1. << >> \in Seq(F)
      OBVIOUS
    <2> HIDE DEF step, n
    <2> QED
      BY <1>1, <1>3, <2>1, FoldValues
  <1>5. ASSUME NEW s \in SUBSET (1 .. n), s # {}
        PROVE  g[s] = Found(t, g[s \ {Max(s)}], records[Max(s)])
    <2>1. PICK x \in 1 .. n : x = Max(s) /\ g[s \ {x}] \in Seq(F)
                             /\ g[s] = step[<<g[s \ {x}], x>>]
      <3> HIDE DEF step
      <3> QED
        BY <1>4, <1>5 DEF Stepwise
    <2> QED
      BY <2>1
  <1> HIDE DEF step
  <1>6. FoundFold(records, t, g)
    <2>1. g = [s \in SUBSET (1 .. n) |->
                 IF s = {} THEN << >>
                 ELSE Found(t, g[s \ {Max(s)}], records[Max(s)])]
      <3> HIDE DEF n
      <3> QED
        BY <1>4, <1>5 DEF Stepwise
    <2> QED
      BY <1>1, <2>1, Zenon DEF FoundFold, Found
  <1>7. PICK f : FoundFold(records, t, f) /\ FilesWith(records, t) = f[1 .. n]
    BY <1>1, <1>6, FoundFolds
  <1> DEFINE S == {k \in Nat : k <= n => f[1 .. k] \in Seq(F)}
  <1>8. 0 \in S
    <2>1. 1 .. 0 = {} /\ {} \in SUBSET DOMAIN records
      BY FirstPositions
    <2>2. f[{}] = << >>
      BY <1>7, <2>1, Zenon DEF FoundFold
    <2>3. f[1 .. 0] = f[{}]
      BY <2>1
    <2>4. f[1 .. 0] \in Seq(F)
      BY <2>2, <2>3
    <2> HIDE DEF n
    <2> QED
      BY <2>4
  <1>9. ASSUME NEW m \in Nat, m \in S PROVE m + 1 \in S
    <2> SUFFICES ASSUME m + 1 <= n PROVE f[1 .. m + 1] \in Seq(F)
      <3> HIDE DEF n
      <3> QED
        OBVIOUS
    <2>1. PICK k \in 1 .. n : k = m + 1 /\ k - 1 = m
      <3> HIDE DEF n
      <3> QED
        BY <1>1
    <2>2. f[1 .. m] \in Seq(F)
      <3> HIDE DEF n
      <3> QED
        BY <1>1, <1>9, <2>1
    <2>3. /\ 1 .. k \in SUBSET (1 .. n) /\ 1 .. k # {}
          /\ Max(1 .. k) = k /\ (1 .. k) \ {k} = 1 .. (k - 1)
      BY <1>1, FirstPositions
    <2>4. PICK s : s = 1 .. k
      OBVIOUS
    <2>5. s \in SUBSET DOMAIN records /\ s # {} /\ Max(s) = k
      BY <1>1, <2>3, <2>4
    <2>6. f[s] = Found(t, f[s \ {k}], records[k])
      BY <1>7, <2>5, Zenon DEF FoundFold, Found
    <2>7. f[s] = Found(t, f[1 .. m], records[k])
      BY <2>1, <2>3, <2>4, <2>6
    <2>8. f[s] \in Seq(F)
      BY <1>2, <2>2, <2>7
    <2> QED
      BY <2>1, <2>4, <2>8
  <1>10. Nat \subseteq S
    <2> HIDE DEF S
    <2> QED
      BY <1>8, <1>9, SetInduction
  <1>11. f[1 .. n] \in Seq(F)
    <2> HIDE DEF n
    <2> QED
      BY <1>1, <1>10
  <1> QED
    BY <1>7, <1>11 DEF F
-----------------------------------------------------------------------------
\* The inductive invariant of the page.

\* Some record of f has these tags.
HasTags(f, tags) ==
  \E m \in DOMAIN assets : assets[m].file = f /\ tags \subseteq assets[m].tags

\* Some record of f has tags.
Linked(f) == \E m \in DOMAIN assets : assets[m].file = f /\ assets[m].tags # {}

\* What the manifest links to is still there.
Links ==
  /\ HasTags(manifest.normal, {"normal", Metadata[index].normal})
  /\ HasTags(manifest.back, {"back", Metadata[index].back})
  /\ HasTags(manifest.border, {"border", Metadata[index].border})
  /\ \A k \in DOMAIN Wanted : Linked(Wanted[k])

\* The cache has the files it says, and if the assets are still those of the
\* manifest, what they have.
CacheIsRight ==
  \A f \in DOMAIN textures :
    /\ textures[f].file = f
    /\ changed \/ \A m \in DOMAIN assets :
         assets[m].file = f /\ assets[m].tags # {} => textures[f] = assets[m]

Following == stage \in {"textures", "shown"}

\* Manifests are of this shape.
ManifestTyped ==
  /\ {manifest.normal, manifest.back, manifest.border} \subseteq Files
  /\ manifest.mask # None => manifest.mask \in Files
  /\ manifest.layers \in Seq(Files)

PageInv ==
  /\ stage \in {"closed", "manifest", "textures", "shown", "crashed"}
  /\ stage \in {"closed", "manifest"} => manifest = None /\ textures = << >>
  /\ Following => ManifestTyped
  /\ Following /\ ~changed => Links
  /\ Following /\ ~strayed => CacheIsRight
  /\ stage = "shown" => Missing = {}
  /\ losses \in Nat /\ changed \in BOOLEAN /\ strayed \in BOOLEAN
  /\ CrashIsExplained

ClientInv == CInv /\ PageInv
-----------------------------------------------------------------------------
\* What the canister answers.

\* _findTags finds a record with the tags, if there is one.
LEMMA TagsAreFound ==
  ASSUME Bounded, NEW tags, FindTags(tags) # None
  PROVE  /\ HasTags(FindTags(tags).file, tags)
         /\ FindTags(tags).file \in Files
  <1>1. PICK found :
          found = {k \in DOMAIN assets : tags \subseteq assets[k].tags}
    OBVIOUS
  <1>2. /\ found # {}
        /\ FindTags(tags)
             = assets[CHOOSE k \in found : \A m \in found : k <= m]
    BY <1>1 DEF FindTags
  <1>3. found \in SUBSET Nat
    BY <1>1 DEF Bounded
  <1>4. \E k \in found : \A m \in found : k <= m
    BY <1>2, <1>3, LeastNatural
  <1>5. PICK k \in found : FindTags(tags) = assets[k]
    BY <1>2, <1>4
  <1>6. k \in DOMAIN assets /\ assets[k] \in Records
        /\ tags \subseteq assets[k].tags
    BY <1>1 DEF Bounded
  <1> QED
    BY <1>5, <1>6 DEF HasTags, Records

\* A manifest links to records with the tags of the legend.
ManifestRight(r, i) ==
  /\ {r.normal, r.back, r.border} \subseteq Files
  /\ HasTags(r.normal, {"normal", Metadata[i].normal})
  /\ HasTags(r.back, {"back", Metadata[i].back})
  /\ HasTags(r.border, {"border", Metadata[i].border})
  /\ r.mask # None => r.mask \in Files /\ Linked(r.mask)
  /\ r.layers \in Seq(TaggedFiles(assets, "layer"))

\* renderManifest does so, of a token that is minted.
LEMMA ManifestIsRight ==
  ASSUME Bounded, NEW i, GetManifest(i).kind = "manifest"
  PROVE  ManifestRight(GetManifest(i), i)
  <1>1. GetManifest(i) = Manifest(i)
    BY DEF GetManifest, IfMinted, Failed, Text, WithTags, NotFound, Asset
  <1>2. PICK l : l = Metadata[i]
    OBVIOUS
  <1>3. PICK normal : normal = FindTags({"normal", l.normal})
    OBVIOUS
  <1>4. PICK back : back = FindTags({"back", l.back})
    OBVIOUS
  <1>5. PICK border : border = FindTags({"border", l.border})
    OBVIOUS
  <1>6. PICK mask : mask = FindTags({"mask", l.mask})
    OBVIOUS
  <1>7. PICK layers : layers = FilesWith(assets, "layer")
    OBVIOUS
  <1>8. Manifest(i) # Failed
    BY <1>1 DEF Failed, Text
  <1>9. /\ normal # None /\ back # None /\ border # None
        /\ Manifest(i) =
             [status |-> 200, kind |-> "manifest", normal |-> normal.file,
              back |-> back.file, border |-> border.file,
              mask |-> IF mask = None THEN None ELSE mask.file,
              layers |-> layers]
    BY <1>2, <1>3, <1>4, <1>5, <1>6, <1>7, <1>8 DEF Manifest
  <1>10. /\ HasTags(normal.file, {"normal", l.normal}) /\ normal.file \in Files
         /\ HasTags(back.file, {"back", l.back}) /\ back.file \in Files
         /\ HasTags(border.file, {"border", l.border})
         /\ border.file \in Files
    BY <1>3, <1>4, <1>5, <1>9, TagsAreFound
  <1>11. mask # None => mask.file \in Files /\ Linked(mask.file)
    <2>1. mask # None => /\ HasTags(mask.file, {"mask", l.mask})
                         /\ mask.file \in Files
      BY <1>6, TagsAreFound
    <2> QED
      BY <2>1 DEF HasTags, Linked
  <1>12. layers \in Seq(TaggedFiles(assets, "layer"))
    BY <1>7, FilesWithTag DEF Bounded
  <1> QED
    BY <1>1, <1>2, <1>9, <1>10, <1>11, <1>12 DEF ManifestRight

\* A sequence over S with these three elements.
Includes(w, S, normal, back, border) ==
  /\ w \in Seq(S)
  /\ \E k \in DOMAIN w : w[k] = normal
  /\ \E k \in DOMAIN w : w[k] = back
  /\ \E k \in DOMAIN w : w[k] = border

\* The textures that the components ask for, put together.
LEMMA WantedParts ==
  ASSUME NEW S, NEW normal \in S, NEW mask \in Seq(S), NEW back \in S,
         NEW border \in S, NEW layers \in Seq(S), NEW w,
         w = <<normal>> \o mask \o <<back, border>> \o layers
  PROVE  Includes(w, S, normal, back, border)
  <1>1. PICK head : head = <<normal>> \o mask
    OBVIOUS
  <1>2. head \in Seq(S) /\ Len(head) \in Nat /\ Len(head) > 0
        /\ head[1] = normal
    BY <1>1
  <1>3. PICK face : face = head \o <<back, border>>
    OBVIOUS
  <1>4. /\ face \in Seq(S) /\ Len(face) = Len(head) + 2
        /\ face[1] = normal /\ face[Len(head) + 1] = back
        /\ face[Len(head) + 2] = border
    BY <1>2, <1>3
  <1>5. w = face \o layers
    BY <1>1, <1>3
  <1>6. /\ w \in Seq(S) /\ Len(w) >= Len(head) + 2 /\ DOMAIN w = 1 .. Len(w)
        /\ w[1] = normal /\ w[Len(head) + 1] = back
        /\ w[Len(head) + 2] = border
    BY <1>2, <1>4, <1>5
  <1>7. {1, Len(head) + 1, Len(head) + 2} \subseteq DOMAIN w
    BY <1>2, <1>6
  <1> QED
    BY <1>6, <1>7 DEF Includes

\* The texture that is awaited is one of them.
LEMMA AwaitedIsWanted ==
  ASSUME ManifestTyped, Missing # {}
  PROVE  \E k \in DOMAIN Wanted : Awaited = Wanted[k]
  <1>1. PICK mask : mask = IF manifest.mask = None THEN << >>
                           ELSE <<manifest.mask>>
    OBVIOUS
  <1>2. mask \in Seq(Files)
    BY <1>1 DEF ManifestTyped
  <1>3. Wanted \in Seq(Files)
    BY <1>1, <1>2, WantedParts DEF Wanted, ManifestTyped, Includes
  <1>4. Missing \in SUBSET Nat
    <2>1. DOMAIN Wanted \in SUBSET Nat
      BY <1>3
    <2> QED
      BY <2>1 DEF Missing
  <1>5. \E k \in Missing : \A m \in Missing : k <= m
    BY <1>4, LeastNatural
  <1>6. (CHOOSE k \in Missing : \A m \in Missing : k <= m) \in Missing
    BY <1>5
  <1> QED
    BY <1>6 DEF Awaited, Missing
-----------------------------------------------------------------------------
\* The page keeps its invariant.

\* Files that were linked stay so while the assets stay.
LEMMA LinksStay ==
  ASSUME UNCHANGED <<assets, index, manifest>>
  PROVE  /\ Links' <=> Links
         /\ Wanted' = Wanted /\ ManifestTyped' <=> ManifestTyped
  <1>1. \A f, tags : HasTags(f, tags)' <=> HasTags(f, tags)
    BY DEF HasTags
  <1>2. \A f : Linked(f)' <=> Linked(f)
    BY DEF Linked
  <1>3. Wanted' = Wanted
    BY DEF Wanted
  <1>4. ManifestTyped' <=> ManifestTyped
    BY DEF ManifestTyped
  <1>5. Links' <=> Links
    BY <1>1, <1>2, <1>3 DEF Links
  <1> QED
    BY <1>3, <1>4, <1>5

\* What explains a crash goes on explaining it.
LEMMA CrashStays ==
  ASSUME CrashIsExplained,
         UNCHANGED <<stage, manifest, losses, strayed>>,
         changed' = (changed \/ assets' # assets)
  PROVE  CrashIsExplained'
  <1> SUFFICES ASSUME stage = "crashed", manifest # None, ~changed'
               PROVE  \/ losses' > 0 \/ strayed'
                      \/ \E f \in Range(Wanted') : Hollow(f)'
    BY DEF CrashIsExplained
  <1>1. assets' = assets /\ ~changed
    OBVIOUS
  <1>2. Wanted' = Wanted /\ \A f : Hollow(f) => Hollow(f)'
    BY <1>1 DEF Wanted, Hollow
  <1>3. losses > 0 \/ strayed \/ \E f \in Range(Wanted) : Hollow(f)
    BY <1>1 DEF CrashIsExplained
  <1> QED
    BY <1>2, <1>3

\* A step of the canister, or of another part of the page.
LEMMA PageStays ==
  ASSUME PageInv,
         UNCHANGED <<stage, index, manifest, textures, losses, strayed>>,
         changed' = (changed \/ assets' # assets)
  PROVE  PageInv'
  <1>1. Wanted' = Wanted /\ ManifestTyped' = ManifestTyped
    BY DEF Wanted, ManifestTyped
  <1>2. Missing' = Missing
    BY <1>1 DEF Missing
  <1>3. changed' \in BOOLEAN /\ (changed => changed')
    BY DEF PageInv
  <1>4. Following' /\ ~changed' => Links'
    <2> SUFFICES ASSUME Following', ~changed' PROVE Links'
      OBVIOUS
    <2>1. Following /\ ~changed /\ assets' = assets
      BY DEF Following
    <2> QED
      BY <2>1, LinksStay DEF PageInv
  <1>5. Following' /\ ~strayed' => CacheIsRight'
    <2> SUFFICES ASSUME Following', ~strayed' PROVE CacheIsRight'
      OBVIOUS
    <2>1. CacheIsRight
      BY DEF Following, PageInv
    <2>2. changed' \/ (~changed /\ assets' = assets)
      BY DEF PageInv
    <2> QED
      BY <2>1, <2>2 DEF CacheIsRight
  <1>6. CrashIsExplained'
    BY CrashStays DEF PageInv
  <1> QED
    BY <1>1, <1>2, <1>3, <1>4, <1>5, <1>6 DEF PageInv, Following

\* The card is shown when everything is there.
LEMMA ShowKeepsPage ==
  ASSUME PageInv, Show, UNCHANGED assets
  PROVE  PageInv'
  <1>1. /\ stage = "textures" /\ stage' = "shown" /\ Missing = {}
        /\ UNCHANGED <<index, manifest, textures, losses, changed, strayed>>
    BY DEF Show, Loaded
  <1>2. /\ Wanted' = Wanted /\ ManifestTyped' = ManifestTyped
        /\ Links' = Links /\ CacheIsRight' = CacheIsRight
    BY <1>1 DEF Wanted, ManifestTyped, Links, HasTags, Linked, CacheIsRight
  <1>3. Missing' = {}
    BY <1>1, <1>2 DEF Missing
  <1> QED
    BY <1>1, <1>2, <1>3 DEF PageInv, Following, CrashIsExplained

\* A request is lost.
LEMMA LoseKeepsPage ==
  ASSUME PageInv, Lose
  PROVE  PageInv'
  BY DEF PageInv, Lose, Following, CrashIsExplained

\* The page is opened.
LEMMA OpenKeepsPage ==
  ASSUME PageInv, NEW i, Open(i)
  PROVE  PageInv'
  BY DEF PageInv, Open, Following, CrashIsExplained

\* The manifest comes.
LEMMA ManifestKeepsPage ==
  ASSUME Bounded, purged \in BOOLEAN, PageInv, ManifestReply,
         UNCHANGED <<assets, purged>>
  PROVE  PageInv'
  <1>1. /\ stage = "manifest" /\ manifest = None /\ textures = << >>
        /\ UNCHANGED <<index, textures, losses>>
        /\ changed' = FALSE /\ strayed' \in BOOLEAN
    BY DEF ManifestReply, PageInv
  <1>2. CASE GetManifest(index).kind # "manifest"
    <2>1. stage' = "crashed" /\ manifest' = None
      BY <1>1, <1>2 DEF ManifestReply
    <2> QED
      BY <1>1, <2>1 DEF PageInv, Following, CrashIsExplained
  <1>3. CASE GetManifest(index).kind = "manifest"
    <2>1. PICK r : r = GetManifest(index)
      OBVIOUS
    <2>2. stage' = "textures" /\ manifest' = r
      BY <1>3, <2>1 DEF ManifestReply
    <2>3. ManifestRight(r, index)
      BY <1>3, <2>1, ManifestIsRight
    <2>4. PICK T : T = {f \in Files : Linked(f)}
      OBVIOUS
    <2>5. \A f, tags : f \in Files /\ HasTags(f, tags) /\ tags # {} => f \in T
      BY <2>4 DEF HasTags, Linked
    <2>6. r.normal \in T /\ r.back \in T /\ r.border \in T
      BY <2>3, <2>5 DEF ManifestRight
    <2>7. TaggedFiles(assets, "layer") \subseteq T
      <3> SUFFICES ASSUME NEW f \in TaggedFiles(assets, "layer")
                   PROVE  f \in T
        OBVIOUS
      <3>1. PICK k \in DOMAIN assets : f = assets[k].file
                                       /\ "layer" \in assets[k].tags
        BY DEF TaggedFiles
      <3>2. assets[k] \in Records
        BY DEF Bounded
      <3>3. f \in Files
        BY <3>1, <3>2 DEF Records
      <3> QED
        BY <2>4, <3>1, <3>3 DEF Linked
    <2>8. r.layers \in Seq(T) /\ r.layers \in Seq(Files)
      <3>1. T \subseteq Files
        BY <2>4
      <3>2. \A q \in Seq(TaggedFiles(assets, "layer")) :
              q \in Seq(T) /\ q \in Seq(Files)
        BY <2>7, <3>1
      <3> QED
        BY <2>3, <3>2 DEF ManifestRight
    <2>9. PICK mask : mask = IF r.mask = None THEN << >> ELSE <<r.mask>>
      OBVIOUS
    <2>10. mask \in Seq(T)
      <3>1. CASE r.mask = None
        BY <2>9, <3>1
      <3>2. CASE r.mask # None
        <4>1. r.mask \in T
          BY <2>3, <2>4, <3>2 DEF ManifestRight
        <4>2. mask = <<r.mask>>
          BY <2>9, <3>2
        <4> QED
          BY <4>1, <4>2
      <3> QED
        BY <3>1, <3>2
    <2>11. Wanted' = <<r.normal>> \o mask \o <<r.back, r.border>> \o r.layers
      BY <2>2, <2>9 DEF Wanted
    <2>12. Wanted' \in Seq(T)
      BY <2>6, <2>8, <2>10, <2>11, WantedParts DEF Includes
    <2>13. ManifestTyped'
      BY <2>2, <2>3, <2>8 DEF ManifestTyped, ManifestRight
    <2>14. Links'
      <3>1. \A k \in DOMAIN Wanted' : Linked(Wanted'[k])
        <4>1. \A k \in DOMAIN Wanted' : Wanted'[k] \in T
          BY <2>12
        <4> QED
          BY <2>4, <4>1
      <3>2. \A f : Linked(f) => Linked(f)'
        BY DEF Linked
      <3>3. \A f, tags : HasTags(f, tags) => HasTags(f, tags)'
        BY DEF HasTags
      <3> QED
        BY <1>1, <2>2, <2>3, <3>1, <3>2, <3>3 DEF Links, ManifestRight
    <2>15. CacheIsRight'
      <3>1. DOMAIN textures' = {}
        BY <1>1
      <3> QED
        BY <3>1 DEF CacheIsRight
    <2> QED
      BY <1>1, <2>2, <2>13, <2>14, <2>15
      DEF PageInv, Following, CrashIsExplained
  <1> QED
    BY <1>2, <1>3

\* In a sound store, what is served under a filename is its record with tags,
\* if it has one.
LEMMA ServedIsRecord ==
  ASSUME CInv, ~purged, NEW f
  PROVE  /\ \A m \in DOMAIN assets :
              assets[m].file = f /\ assets[m].tags # {} =>
                GetAsset(f) = Asset(assets[m])
         /\ GetAsset(f).kind = "asset" => GetAsset(f).record.file = f
  <1>1. /\ Store \in Stores /\ Store.assets = assets /\ Store.files = files
        /\ Sound(Store) /\ assets \in Seq(Records)
    BY BoundedStore DEF CInv, Bounded
  <1>2. DOMAIN assets = 1 .. Len(assets)
    BY <1>1
  <1>3. ASSUME NEW m \in DOMAIN assets,
               assets[m].file = f, assets[m].tags # {}
        PROVE  GetAsset(f) = Asset(assets[m])
    <2>1. Content(assets[m]) # Nothing
      BY <1>3 DEF Content, Nothing
    <2>2. f \in DOMAIN files /\ files[f] = m
      BY <1>1, <1>3, <2>1 DEF Sound
    <2>3. Indexed(Store, f) /\ InRange(Store, f)
      BY <1>1, <1>2, <1>3, <2>2 DEF Indexed, InRange
    <2> QED
      BY <1>3, <2>2, <2>3 DEF GetAsset
  <1>4. ASSUME GetAsset(f).kind = "asset"
        PROVE  GetAsset(f).record.file = f
    <2>1. Indexed(Store, f) /\ GetAsset(f) = Asset(assets[files[f]])
      BY <1>4 DEF GetAsset, NotFound, Failed, Text
    <2>2. IsLast(assets, f, files[f])
      BY <1>1, <2>1 DEF Sound, Indexed
    <2> QED
      BY <2>1, <2>2 DEF Asset, IsLast
  <1> QED
    BY <1>3, <1>4

\* A texture comes.
LEMMA TextureKeepsPage ==
  ASSUME CInv, PageInv, TextureReply, UNCHANGED <<assets, purged>>
  PROVE  PageInv'
  <1>1. PICK f : f = Awaited
    OBVIOUS
  <1>2. PICK r : r = GetAsset(f)
    OBVIOUS
  <1>3. /\ stage = "textures" /\ Missing # {}
        /\ UNCHANGED <<index, manifest, losses, changed>>
        /\ strayed' = (strayed \/ purged)
        /\ IF r.kind = "asset" /\ r.record.payload # << >>
           THEN textures' = Keep(f, r.record) /\ stage' = stage
           ELSE stage' = "crashed"
    BY <1>1, <1>2 DEF TextureReply
  <1>4. strayed' \in BOOLEAN /\ (~strayed' => ~strayed /\ ~purged)
    BY <1>3 DEF CInv, PageInv
  <1>5. /\ \A m \in DOMAIN assets :
             ~purged /\ assets[m].file = f /\ assets[m].tags # {} =>
               r = Asset(assets[m])
        /\ ~purged /\ r.kind = "asset" => r.record.file = f
    BY <1>2, ServedIsRecord
  <1>6. CASE r.kind = "asset" /\ r.record.payload # << >>
    <2>1. textures' = Keep(f, r.record) /\ stage' = stage
      BY <1>3, <1>6
    <2>2. ~strayed' => CacheIsRight'
      <3> SUFFICES ASSUME ~strayed', NEW g \in DOMAIN textures'
                   PROVE  /\ textures'[g].file = g
                          /\ changed' \/ \A m \in DOMAIN assets' :
                               assets'[m].file = g /\ assets'[m].tags # {}
                                 => textures'[g] = assets'[m]
        BY DEF CacheIsRight
      <3>1. CASE g = f
        <4>1. textures'[g] = r.record
          BY <2>1, <3>1 DEF Keep
        <4>2. \A m \in DOMAIN assets :
                assets[m].file = f /\ assets[m].tags # {} =>
                  r.record = assets[m]
          BY <1>4, <1>5 DEF Asset
        <4> QED
          BY <1>4, <1>5, <1>6, <3>1, <4>1, <4>2
      <3>2. CASE g # f
        <4>1. textures'[g] = textures[g] /\ g \in DOMAIN textures
          BY <2>1, <3>2 DEF Keep
        <4>2. CacheIsRight
          BY <1>3, <1>4 DEF PageInv, Following
        <4> QED
          BY <1>3, <4>1, <4>2 DEF CacheIsRight
      <3> QED
        BY <3>1, <3>2
    <2>3. ManifestTyped' /\ (~changed' => Links')
      BY <1>3, LinksStay DEF PageInv, Following
    <2> QED
      BY <1>3, <1>4, <2>1, <2>2, <2>3
      DEF PageInv, Following, CrashIsExplained
  <1>7. CASE ~(r.kind = "asset" /\ r.record.payload # << >>)
    <2>1. stage' = "crashed"
      BY <1>3, <1>7
    <2>2. ASSUME ~changed', ~strayed'
          PROVE  \E g \in Range(Wanted') : Hollow(g)'
      <3>1. Links /\ ManifestTyped
        BY <1>3, <2>2 DEF PageInv, Following
      <3>2. PICK k \in DOMAIN Wanted : f = Wanted[k]
        BY <1>1, <1>3, <3>1, AwaitedIsWanted
      <3>3. Linked(f)
        BY <3>1, <3>2 DEF Links
      <3>4. PICK m \in DOMAIN assets :
              assets[m].file = f /\ assets[m].tags # {}
        BY <3>3 DEF Linked
      <3>5. r = Asset(assets[m])
        BY <1>4, <1>5, <2>2, <3>4
      <3>6. assets[m].payload = << >>
        BY <1>7, <3>5 DEF Asset
      <3>7. Hollow(f)'
        BY <3>4, <3>6 DEF Hollow, Range
      <3>8. f \in Range(Wanted')
        BY <1>3, <3>2 DEF Range, Wanted
      <3> QED
        BY <3>7, <3>8
    <2> QED
      BY <1>3, <1>4, <2>1, <2>2 DEF PageInv, Following, CrashIsExplained
  <1> QED
    BY <1>6, <1>7
-----------------------------------------------------------------------------
\* The canister keeps its invariant.

LEMMA ServerInit == ClientInit => CInv
  <1> SUFFICES ASSUME ClientInit PROVE CInv
    OBVIOUS
  <1>1. PICK store : store = Restored(Provisioned)
    OBVIOUS
  <1>2. /\ assets = store.assets /\ files = store.files
        /\ buffer = << >> /\ purged = FALSE
    BY <1>1 DEF ClientInit
  <1>3. Provisioned \in Seq(Records) /\ Len(store.assets) <= MaxAssets
    BY <1>1, ClientAssumption
  <1>4. RestoredRight(Provisioned, store)
    BY <1>1, <1>3, RestoredKeepsPages
  <1>5. store \in Stores /\ Sound(store)
    BY <1>4 DEF RestoredRight
  <1>6. /\ Store = store
        /\ assets \in Seq(Records) /\ files \in Indexes
    BY <1>2, <1>5 DEF Store, Stores
  <1>7. \A f \in DOMAIN files : files[f] <= MaxAssets
    <2> SUFFICES ASSUME NEW f \in DOMAIN files PROVE files[f] <= MaxAssets
      OBVIOUS
    <2>1. files[f] \in DOMAIN assets
      BY <1>2, <1>5 DEF Sound, IsLast
    <2>2. files[f] \in 1 .. Len(assets) /\ Len(assets) \in Nat
      BY <1>6, <2>1
    <2> QED
      BY <1>2, <1>3, <2>2, AssetsAssumption
  <1>8. buffer \in Seq(Chunks)
    BY <1>2
  <1>9. Sound(Store)
    BY <1>5, <1>6
  <1> QED
    BY <1>2, <1>6, <1>7, <1>8, <1>9 DEF CInv, Bounded

\* A step that leaves the store alone.
LEMMA ServerStays ==
  ASSUME CInv, UNCHANGED <<vars, purged>>
  PROVE  CInv'
  BY CInvNext DEF carefulVars

\* The admins here do what AssetsCareful allows, all of it.
LEMMA EditKeepsServer ==
  ASSUME CInv, Edit \/ UpgradeServer
  PROVE  CInv'
  <1>1. ASSUME ~purged, UNCHANGED purged,
               NEW r \in Replacements, UploadFinalize(r.file, r.tags)
        PROVE  CarefulNext
    <2>1. r.file \in Files /\ r.tags \in SUBSET Tags
      BY ClientAssumption
    <2> QED
      BY <1>1, <2>1 DEF CarefulNext
  <1>2. ASSUME ~purged, UNCHANGED purged,
               \/ UploadClear
               \/ \E bytes \in Uploads : Upload(bytes)
               \/ \E requests \in TagRequests : Tag(requests)
        PROVE  CarefulNext
    BY <1>2 DEF CarefulNext
  <1>3. ASSUME ~purged, UNCHANGED purged, NEW f \in Deletable,
               Cardinality(Positions(f)) < 2, Delete(f)
        PROVE  CarefulNext
    BY <1>3, ClientAssumption DEF CarefulNext
  <1>4. ASSUME ~purged, NEW t \in Purgeable, PurgeTagged(t), purged' = TRUE
        PROVE  CarefulNext
    BY <1>4, ClientAssumption DEF CarefulNext
  <1>5. ASSUME PurgeAll \/ Upgrade, purged' = FALSE
        PROVE  CarefulNext
    BY <1>5 DEF CarefulNext
  <1>6. CarefulNext
    BY <1>1, <1>2, <1>3, <1>4, <1>5 DEF Edit, UpgradeServer
  <1> QED
    BY <1>6, CInvNext

-----------------------------------------------------------------------------
\* The page and the canister together.

LEMMA ClientInvInit == ClientInit => ClientInv
  <1> SUFFICES ASSUME ClientInit PROVE ClientInv
    OBVIOUS
  <1>1. PageInv
    BY DEF ClientInit, PageInit, PageInv, Following, CrashIsExplained
  <1> QED
    BY <1>1, ServerInit DEF ClientInv

\* Every step of the admins and of the page keeps the invariant.
LEMMA ClientInvNext ==
  ClientInv /\ [ClientNext]_clientVars => ClientInv'
  <1> SUFFICES ASSUME ClientInv, [ClientNext]_clientVars PROVE ClientInv'
    OBVIOUS
  <1>0. PageInv /\ CInv /\ Bounded /\ purged \in BOOLEAN
    BY DEF ClientInv, CInv
  <1>1. CASE ServerStep
    <2>1. PageInv'
      BY <1>0, <1>1, PageStays DEF ServerStep, Notice
    <2>2. CInv'
      BY <1>0, <1>1, EditKeepsServer, ServerStays DEF ServerStep, MintToken
    <2> QED
      BY <2>1, <2>2 DEF ClientInv
  <1>2. ASSUME UNCHANGED serverVars, PageInv' PROVE ClientInv'
    <2>1. CInv'
      BY <1>0, <1>2, ServerStays DEF serverVars
    <2> QED
      BY <1>2, <2>1 DEF ClientInv
  <1>3. ASSUME NEW i \in 0 .. Supply - 1, OpenPage(i)
        PROVE  ClientInv'
    BY <1>0, <1>2, <1>3, OpenKeepsPage DEF OpenPage
  <1>4. CASE LoadPage
    <2>1. UNCHANGED serverVars /\ UNCHANGED <<assets, purged>>
      BY <1>4 DEF LoadPage, serverVars, vars
    <2>2. PageInv'
      BY <1>0, <1>4, <2>1, ManifestKeepsPage, TextureKeepsPage, LoseKeepsPage
      DEF LoadPage, PageReply
    <2> QED
      BY <1>2, <2>1, <2>2
  <1>5. ASSUME UNCHANGED serverVars, UNCHANGED pageVars
        PROVE  ClientInv'
    <2>1. assets' = assets /\ changed' = (changed \/ assets' # assets)
      BY <1>0, <1>5 DEF serverVars, vars, pageVars, PageInv
    <2>2. PageInv'
      BY <1>0, <1>5, <2>1, PageStays DEF pageVars
    <2> QED
      BY <1>2, <1>5, <2>2
  <1>6. CASE Render
    <2>1. CASE ShowCard
      <3>1. UNCHANGED serverVars /\ assets' = assets /\ Show
        BY <2>1 DEF ShowCard, serverVars, vars
      <3> QED
        BY <1>0, <1>2, <3>1, ShowKeepsPage
    <2>2. CASE BuildCard
      BY <1>5, <2>2 DEF BuildCard
    <2> QED
      BY <1>6, <2>1, <2>2 DEF Render
  <1>7. CASE Move
    BY <1>5, <1>7 DEF Move, Moves
  <1>8. CASE UNCHANGED clientVars
    BY <1>5, <1>8 DEF clientVars
  <1> QED
    BY <1>1, <1>3, <1>4, <1>6, <1>7, <1>8 DEF ClientNext

\* The invariant of page and canister holds.
THEOREM ClientInvariance == ClientSpec => []ClientInv
  BY ClientInvInit, ClientInvNext, PTL DEF ClientSpec

\* A page that got its manifest crashes only for a lost request, for assets that
\* changed after that, for an index that a purge by tag left wrong, or for a file
\* that has tags and no content: otherwise every file the manifest links to is
\* served, whatever was done to the store before, upload, deletion, retagging,
\* purge or upgrade.
THEOREM CrashesAreExplained == ClientSpec => []CrashIsExplained
  <1>1. ClientInv => CrashIsExplained
    BY DEF ClientInv, PageInv
  <1> QED
    BY <1>1, ClientInvariance, PTL

\* What is shown are the files the manifest named; and if the assets did not
\* change since, they are those with the tags of the legend.
THEOREM LegendIsShown == ClientSpec => []ShownIsTheLegend
  <1>1. ClientInv => ShownIsTheLegend
    <2> SUFFICES ASSUME ClientInv, stage = "shown", ~strayed
                 PROVE  /\ \A f \in DOMAIN textures : textures[f].file = f
                        /\ changed \/
                           LET l == Metadata[index] IN
                           /\ {"normal", l.normal}
                                \subseteq textures[manifest.normal].tags
                           /\ {"back", l.back}
                                \subseteq textures[manifest.back].tags
                           /\ {"border", l.border}
                                \subseteq textures[manifest.border].tags
      BY DEF ShownIsTheLegend
    <2>1. /\ CacheIsRight /\ ManifestTyped /\ Missing = {}
          /\ ~changed => Links
      BY DEF ClientInv, PageInv, Following
    <2>2. \A x \in {manifest.normal, manifest.back, manifest.border} :
            x \in DOMAIN textures
      <3>1. PICK mask : mask = IF manifest.mask = None THEN << >>
                               ELSE <<manifest.mask>>
        OBVIOUS
      <3>2. PICK w, n, b, o, layers :
              /\ w = Wanted /\ n = manifest.normal /\ b = manifest.back
              /\ o = manifest.border /\ layers = manifest.layers
        OBVIOUS
      <3>3. /\ \E k \in DOMAIN w : w[k] = n
            /\ \E k \in DOMAIN w : w[k] = b
            /\ \E k \in DOMAIN w : w[k] = o
        <4>1. /\ n \in Files /\ b \in Files /\ o \in Files
              /\ layers \in Seq(Files) /\ mask \in Seq(Files)
          BY <2>1, <3>1, <3>2 DEF ManifestTyped
        <4>2. w = <<n>> \o mask \o <<b, o>> \o layers
          BY <3>1, <3>2 DEF Wanted
        <4>3. Includes(w, Files, n, b, o)
          BY <4>1, <4>2, WantedParts
        <4> QED
          BY <4>3 DEF Includes
      <3>4. \A k \in DOMAIN Wanted : Wanted[k] \in DOMAIN textures
        BY <2>1 DEF Missing
      <3> QED
        BY <3>2, <3>3, <3>4
    <2>3. ASSUME ~changed, NEW f \in DOMAIN textures, NEW tags, tags # {},
                 HasTags(f, tags)
          PROVE  tags \subseteq textures[f].tags
      BY <2>1, <2>3 DEF HasTags, CacheIsRight
    <2>4. CASE ~changed
      <3>1. Links /\ {"normal", Metadata[index].normal} # {}
            /\ {"back", Metadata[index].back} # {}
            /\ {"border", Metadata[index].border} # {}
        BY <2>1, <2>4
      <3>2. /\ {"normal", Metadata[index].normal}
                 \subseteq textures[manifest.normal].tags
            /\ {"back", Metadata[index].back}
                 \subseteq textures[manifest.back].tags
            /\ {"border", Metadata[index].border}
                 \subseteq textures[manifest.border].tags
        BY <2>2, <2>3, <2>4, <3>1 DEF Links
      <3> QED
        BY <2>1, <3>2 DEF CacheIsRight
    <2> QED
      BY <2>1, <2>4 DEF CacheIsRight
  <1> QED
    BY <1>1, ClientInvariance, PTL
=============================================================================
