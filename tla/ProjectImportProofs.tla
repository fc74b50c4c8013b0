------------------------ MODULE ProjectImportProofs ------------------------
(***************************************************************************)
(* Theorems about ProjectImport, for any projects, options and flows.      *)
(***************************************************************************)
EXTENDS ProjectImport, Induction, FiniteSetTheorems, TLAPS

\* The project of the entry was parsed from one of the documents.
Known == document = None \/ document \in Documents

LEMMA KnownInit == Init => Known
BY DEF Init, Known

LEMMA KnownNext == Known /\ [Next]_vars => Known'
BY DEF Known, Next, Import, ShowForm, PortRefused, SubmitForm, vars

\* What parsing keeps of a network.
LEMMA ParsedNetwork ==
  ASSUME NEW d \in Documents, NEW n \in DOMAIN d
  PROVE  /\ DOMAIN Parsed[d] = DOMAIN d
         /\ Parsed[d][n] = ParseNetwork(d[n])
         /\ Parsed[d][n].interface = d[n].interface
<1>1. Parsed[d] = ParseProject(d)
  BY DEF Parsed
<1>2. DOMAIN Parsed[d] = DOMAIN d /\ Parsed[d][n] = ParseNetwork(d[n])
  BY <1>1 DEF ParseProject
<1>3. ParseNetwork(d[n]).interface = d[n].interface
  BY DEF ParseNetwork
<1> QED  BY <1>2, <1>3

-----------------------------------------------------------------------------
(* Settings.                                                               *)

\* A key that is not lost is saved as it was entered: with its value or, for a host
\* or port that is blank, with none or with the one that was cleared.
Kept(k) ==
  /\ entered[k] # None => options[k] = entered[k]
  /\ k[1] \in {"host", "port"} /\ entered[k] = None => options[k] \in {None, cleared[k]}

SettingsInv == \A k \in Keys \ lost : Kept(k)

\* What a form shows of a key whose option has not changed since is saved unchanged.
LEMMA ShownKept ==
  ASSUME NEW form, NEW k \in Keys, form.defaults[k] = options[k], Kept(k)
  PROVE  /\ entered[k] # None => Shown(form, k) = entered[k]
         /\ k[1] \in {"host", "port"} /\ entered[k] = None =>
              Shown(form, k) \in {None, cleared[k]}
<1>1. Shown(form, k) = IF options[k] # None THEN options[k]
                       ELSE Default(Parsed[form.project], k)
  BY DEF Shown, Or
<1>2. k[1] \in {"host", "port"} => Default(Parsed[form.project], k) = None
  BY DEF Default
<1> QED  BY <1>1, <1>2 DEF Kept

LEMMA SettingsNext == SettingsInv /\ [Next]_vars => SettingsInv'
<1> SUFFICES ASSUME SettingsInv, [Next]_vars PROVE SettingsInv'
  OBVIOUS
<1>1. CASE UNCHANGED <<options, entered, cleared, lost>>
  BY <1>1 DEF SettingsInv, Kept
<1>2. CASE Import
  BY <1>1, <1>2 DEF Import
<1>3. ASSUME NEW f \in Flows, ShowForm(f) PROVE SettingsInv'
  BY <1>1, <1>3 DEF ShowForm
<1>4. ASSUME NEW f \in Flows, PortRefused(f) PROVE SettingsInv'
  BY <1>1, <1>4 DEF PortRefused
<1>5. ASSUME NEW f \in Flows, SubmitForm(f) PROVE SettingsInv'
  <2> DEFINE form == forms[f]
             Touched(k, v) == {j \in {k} : v # Shown(form, j)}
             Input(k, v, w) == [j \in form.keys |-> IF j \in Touched(k, v) THEN w ELSE Shown(form, j)]
             Saved(k, v, w) ==
               /\ options' = Merged(Input(k, v, w))
               /\ entered' = [j \in Keys |-> IF j \in Touched(k, v) THEN v ELSE entered[j]]
               /\ cleared' = [j \in Keys |-> CASE j \notin Touched(k, v) -> cleared[j]
                                      [] j \in Touched(k, v) /\ v = None -> Shown(form, j)
                                      [] j \in Touched(k, v) /\ v # None -> None]
               /\ lost' = (lost \ Touched(k, v))
                          \cup {j \in form.keys \ Touched(k, v) : form.defaults[j] # options[j]}
  <2>1. \E k \in form.keys : \E v \in Allowed(form, k) : \E w \in Received(form, k, v) :
          Saved(k, v, w)
    BY <1>5 DEF SubmitForm
  <2> HIDE DEF Saved
  <2>a. PICK k, v, w : k \in form.keys /\ w \in Received(form, k, v) /\ Saved(k, v, w)
    BY <2>1
  <2>2. /\ options' = Merged(Input(k, v, w))
        /\ entered' = [j \in Keys |-> IF j \in Touched(k, v) THEN v ELSE entered[j]]
        /\ cleared' = [j \in Keys |-> CASE j \notin Touched(k, v) -> cleared[j]
                               [] j \in Touched(k, v) /\ v = None -> Shown(form, j)
                               [] j \in Touched(k, v) /\ v # None -> None]
        /\ lost' = (lost \ Touched(k, v))
                   \cup {j \in form.keys \ Touched(k, v) : form.defaults[j] # options[j]}
    BY <2>a DEF Saved
  <2> DEFINE touched == Touched(k, v)
  <2>3. touched \subseteq {k}
    OBVIOUS
  <2>4. \A j \in Keys :
          /\ entered'[j] = IF j \in touched THEN v ELSE entered[j]
          /\ options'[j] = IF j \in form.keys THEN IF j \in touched THEN w ELSE Shown(form, j)
                           ELSE options[j]
          /\ j \in touched /\ v = None => cleared'[j] = Shown(form, j)
          /\ j \notin touched => cleared'[j] = cleared[j]
    BY <2>2 DEF Merged
  <2> HIDE DEF form, Touched, touched
  <2>5. ASSUME NEW j \in Keys, j \notin lost' PROVE Kept(j)'
    <3>1. CASE j \in touched
      <4>1. /\ entered'[j] = v /\ options'[j] = w /\ j = k
            /\ v = None => cleared'[j] = Shown(form, j)
        BY <2>a, <2>3, <2>4, <3>1
      <4>2. IF v = None THEN w \in {None, cleared'[j]} ELSE w = v
        BY <2>a, <4>1 DEF Received
      <4> QED  BY <4>1, <4>2 DEF Kept
    <3>2. CASE j \notin touched /\ j \in form.keys
      <4>1. entered'[j] = entered[j] /\ options'[j] = Shown(form, j) /\ cleared'[j] = cleared[j]
        BY <2>4, <3>2
      <4>2. j \notin lost /\ form.defaults[j] = options[j]
        BY <2>2, <2>5, <3>2 DEF touched
      <4>3. Kept(j)
        BY <4>2 DEF SettingsInv
      <4> QED  BY <4>1, <4>2, <4>3, ShownKept DEF Kept
    <3>3. CASE j \notin touched /\ j \notin form.keys
      <4>1. /\ entered'[j] = entered[j] /\ options'[j] = options[j]
            /\ cleared'[j] = cleared[j] /\ j \notin lost
        BY <2>2, <2>4, <2>5, <3>3 DEF touched
      <4> QED  BY <4>1 DEF SettingsInv, Kept
    <3> QED  BY <3>1, <3>2, <3>3
  <2> QED  BY <2>5 DEF SettingsInv
<1>6. CASE UNCHANGED vars
  BY <1>1, <1>6 DEF vars
<1> QED  BY <1>2, <1>3, <1>4, <1>5, <1>6 DEF Next

LEMMA SettingsFollow == Known /\ SettingsInv => SettingsKept
<1> SUFFICES ASSUME Known, SettingsInv PROVE SettingsKept
  OBVIOUS
<1>1. ASSUME document # None, NEW n \in DOMAIN document
      PROVE  /\ <<"host", n>> \notin lost /\ entered[<<"host", n>>] = None =>
                  Host(Project, options, n) \in {document[n].interface.host} \cup Back(<<"host", n>>)
             /\ <<"port", n>> \notin lost /\ entered[<<"port", n>>] = None =>
                  Port(Project, options, n) \in {document[n].interface.port} \cup Back(<<"port", n>>)
  <2>1. Project[n].interface = document[n].interface
    BY <1>1, ParsedNetwork DEF Known, Project
  <2>2. n \in Networks
    BY <1>1, DocumentsAssumption DEF Known
  <2>3. <<"host", n>> \in Keys /\ <<"port", n>> \in Keys
    <3>1. <<"host", n>> \in ConnectionKeys(n) /\ <<"port", n>> \in ConnectionKeys(n)
      BY DEF ConnectionKeys
    <3> QED  BY <2>2, <3>1 DEF Keys
  <2>4. \A k \in {<<"host", n>>, <<"port", n>>} :
          k \notin lost /\ entered[k] = None => options[k] \in {None, cleared[k]}
    BY <2>3 DEF SettingsInv, Kept
  <2> QED  BY <2>1, <2>4 DEF Host, Port, Or, Back
<1>2. \A k \in Keys \ lost : entered[k] # None => options[k] = entered[k]
  BY DEF SettingsInv, Kept
<1> QED  BY <1>1, <1>2 DEF SettingsKept

\* Whatever is imported and saved, in however many flows at once: what the user put
\* into a field stays but for forms opened before, and a blank host or port follows
\* the project but for an override that was cleared and is back.
THEOREM SettingsAreKept == Spec => []SettingsKept
<1>1. Init => SettingsInv
  BY DEF Init, SettingsInv, Kept
<1> QED  BY <1>1, KnownInit, KnownNext, SettingsNext, SettingsFollow, PTL DEF Spec

-----------------------------------------------------------------------------
(* Motion bindings.                                                        *)

\* What is selected is among the candidates, and all of it is named for motion or
\* none of it is.
LEMMA Selected ==
  ASSUME NEW C
  PROVE  /\ SelectCandidates(C) \subseteq C
         /\ \A c, d \in SelectCandidates(C) : c.dedicated = TRUE <=> d.dedicated = TRUE
BY DEF SelectCandidates

\* The groups of one PIR.
LEMMA MotionGroupsSound ==
  ASSUME NEW x, NEW u, NEW c \in MotionGroups(x, u)
  PROVE  /\ c.block \in 0 .. 7 /\ c.block < Len(x.units[u].groups)
         /\ c.key[2] = x.units[u].groups[c.block + 1] /\ c.key[2] # Unused
         /\ c.block \in x.units[u].light \cup x.units[u].dark
         /\ c.dedicated \in BOOLEAN
         /\ c.dedicated => "motion" \in x.groups[c.key]
         /\ c.key = <<c.key[1], c.key[2]>>
         /\ \A d \in MotionGroups(x, u) : /\ c.dedicated = d.dedicated
                                          /\ c.key = d.key => c = d
<1> DEFINE unit == x.units[u]
           apps == Applications(unit)
           blocks == {b \in 0 .. 7 : /\ apps # <<>> /\ b < Len(unit.groups)
                                     /\ unit.groups[b + 1] # Unused
                                     /\ b \in unit.light \cup unit.dark}
           Application(b) == IF b \in unit.second /\ Len(apps) > 1 THEN apps[2] ELSE apps[1]
           Key(b) == <<Application(b), unit.groups[b + 1]>>
           Candidate(b) ==
             [key |-> Key(b), block |-> b, light |-> b \in unit.light, dark |-> b \in unit.dark,
              name |-> IF Key(b) \in DOMAIN x.groups /\ Key(b)[1] \in Lighting(x)
                       THEN x.groups[Key(b)] ELSE {},
              dedicated |-> /\ Key(b) \in DOMAIN x.groups /\ Key(b)[1] \in Lighting(x)
                            /\ "motion" \in x.groups[Key(b)]]
           candidates == {Candidate(b) : b \in blocks}
           selected == SelectCandidates(candidates)
<1>1. MotionGroups(x, u) =
        {e \in selected : \A d \in selected : d.key = e.key => e.block <= d.block}
  BY DEF MotionGroups
<1>2. selected \subseteq candidates
  BY Selected
<1>3. \A e \in candidates :
        /\ e.block \in blocks /\ e = Candidate(e.block)
        /\ e.key = <<e.key[1], e.key[2]>> /\ e.key[2] = unit.groups[e.block + 1]
        /\ e.dedicated \in BOOLEAN
        /\ e.dedicated => "motion" \in x.groups[e.key]
  <2> TAKE e \in candidates
  <2>1. PICK b \in blocks : e = Candidate(b)
    OBVIOUS
  <2>2. e.block = b /\ e.key = Key(b)
    BY <2>1
  <2>3. Key(b) = <<Key(b)[1], Key(b)[2]>> /\ Key(b)[2] = unit.groups[b + 1]
    OBVIOUS
  <2>4. e.dedicated \in BOOLEAN /\ (e.dedicated => "motion" \in x.groups[Key(b)])
    BY <2>1
  <2> HIDE DEF Key, Candidate, blocks
  <2> QED  BY <2>1, <2>2, <2>3, <2>4
<1>4. \A e, d \in selected : e.dedicated = TRUE <=> d.dedicated = TRUE
  BY Selected
<1>5. blocks \subseteq 0 .. 7
  OBVIOUS
<1> HIDE DEF candidates, Candidate, selected
<1>6. c \in candidates /\ c \in selected
  BY <1>1, <1>2
<1>7. ASSUME NEW d \in MotionGroups(x, u)
      PROVE  c.dedicated = d.dedicated /\ (c.key = d.key => c = d)
  <2>1. d \in candidates /\ d \in selected
    BY <1>1, <1>2
  <2>2. c.dedicated = d.dedicated
    BY <1>3, <1>4, <1>6, <2>1
  <2>3. ASSUME c.key = d.key PROVE c = d
    <3>1. c.block <= d.block /\ d.block <= c.block
      BY <1>1, <1>6, <2>1, <2>3
    <3>2. c.block \in 0 .. 7 /\ d.block \in 0 .. 7
      BY <1>3, <1>5, <1>6, <2>1
    <3>3. c.block = d.block
      BY <3>1, <3>2
    <3> QED  BY <3>3, <1>3, <1>6, <2>1
  <2> QED  BY <2>2, <2>3
<1>8. c.block \in blocks
  BY <1>3, <1>6
<1> QED  BY <1>3, <1>6, <1>7, <1>8

LEMMA ParsedUnit ==
  ASSUME NEW x, NEW u \in DOMAIN ParseUnits(x)
  PROVE  /\ u \in DOMAIN x.units
         /\ ParseUnits(x)[u].motion = (x.units[u].type = "pir")
         /\ x.units[u].type = "pir" =>
              ParseUnits(x)[u].motion_groups = MotionGroups(x, u)
<1>1. ParseUnits(x)[u] =
        [motion |-> x.units[u].type = "pir",
         motion_groups |-> IF x.units[u].type = "pir" THEN MotionGroups(x, u) ELSE {}]
  BY DEF ParseUnits
<1>2. u \in DOMAIN x.units
  BY DEF ParseUnits
<1> QED  BY <1>1, <1>2

LEMMA UnitIds ==
  ASSUME NEW p
  PROVE  /\ \A i \in UnitMap(p) : \E n \in DOMAIN p : \E u \in DOMAIN p[n].units : i = <<n, u>>
         /\ \A n \in DOMAIN p : \A u \in DOMAIN p[n].units : <<n, u>> \in UnitMap(p)
<1> DEFINE Ids(n) == {<<n, u>> : u \in DOMAIN p[n].units}
<1>1. UnitMap(p) = UNION {Ids(n) : n \in DOMAIN p}
  BY DEF UnitMap
<1> QED  BY <1>1

\* A PIR of the parsed project is one of the document, with its motion groups.
LEMMA ParsedUnits ==
  ASSUME NEW d \in Documents, NEW i \in MotionUnits(Parsed[d])
  PROVE  /\ i = <<i[1], i[2]>> /\ i[1] \in DOMAIN d /\ i[2] \in DOMAIN d[i[1]].units
         /\ Unit(Parsed[d], i).motion_groups = MotionGroups(d[i[1]], i[2])
<1>0. PICK n \in DOMAIN Parsed[d] : \E u \in DOMAIN Parsed[d][n].units : i = <<n, u>>
  BY UnitIds DEF MotionUnits
<1>1. PICK u \in DOMAIN Parsed[d][n].units : i = <<n, u>>
  BY <1>0
<1>2. n \in DOMAIN d /\ Parsed[d][n] = ParseNetwork(d[n])
  BY <1>1, ParsedNetwork DEF Parsed, ParseProject
<1>3. Unit(Parsed[d], i) = Parsed[d][n].units[u] /\ Unit(Parsed[d], i).motion
  BY <1>1 DEF Unit, MotionUnits
<1>4. Parsed[d][n].units = ParseUnits(d[n])
  BY <1>2 DEF ParseNetwork
<1>5. u \in DOMAIN d[n].units
  BY <1>1, <1>4, ParsedUnit
<1>6. /\ Parsed[d][n].units[u].motion = (d[n].units[u].type = "pir")
      /\ d[n].units[u].type = "pir" =>
           Parsed[d][n].units[u].motion_groups = MotionGroups(d[n], u)
  BY <1>1, <1>4, ParsedUnit
<1>7. i[1] = n /\ i[2] = u
  BY <1>1
<1> QED  BY <1>1, <1>2, <1>3, <1>5, <1>6, <1>7

LEMMA BindingsOfKnown == Known => BindingsSound
<1> SUFFICES ASSUME Known, document # None PROVE BindingsSound
  BY DEF BindingsSound
<1>1. document \in Documents
  BY DEF Known
<1>2. \A b \in MotionBindings(Project) :
        \E i \in MotionUnits(Project) : \E c \in MotionGroups(document[i[1]], i[2]) :
          /\ i = <<i[1], i[2]>>
          /\ b = [unit |-> i, group |-> <<i[1], c.key[1], c.key[2]>>, dedicated |-> c.dedicated]
  BY <1>1, ParsedUnits DEF MotionBindings, Project
<1>3. ASSUME NEW b \in MotionBindings(Project), NEW e \in MotionBindings(Project),
             b.unit = e.unit
      PROVE  b.dedicated = e.dedicated /\ (b.group = e.group => b = e)
  <2>1. PICK i \in MotionUnits(Project) : \E c \in MotionGroups(document[i[1]], i[2]) :
          b = [unit |-> i, group |-> <<i[1], c.key[1], c.key[2]>>, dedicated |-> c.dedicated]
    BY <1>2
  <2>2. PICK c \in MotionGroups(document[i[1]], i[2]) :
          b = [unit |-> i, group |-> <<i[1], c.key[1], c.key[2]>>, dedicated |-> c.dedicated]
    BY <2>1
  <2>3. PICK d \in MotionGroups(document[i[1]], i[2]) :
          e = [unit |-> i, group |-> <<i[1], d.key[1], d.key[2]>>, dedicated |-> d.dedicated]
    BY <1>2, <1>3, <2>2
  <2>4. c.dedicated = d.dedicated
    BY MotionGroupsSound
  <2> QED  BY <2>2, <2>3, <2>4
<1>4. ASSUME NEW b \in MotionBindings(Project)
      PROVE  LET x == document[b.unit[1]]
                 unit == x.units[b.unit[2]]
             IN  /\ b.unit[1] = b.group[1] /\ b.group[3] # Unused
                 /\ \E i \in DOMAIN unit.groups :
                      unit.groups[i] = b.group[3] /\ i - 1 \in unit.light \cup unit.dark
                 /\ b.dedicated => "motion" \in x.groups[<<b.group[2], b.group[3]>>]
  <2>1. PICK i \in MotionUnits(Project) : \E c \in MotionGroups(document[i[1]], i[2]) :
          b = [unit |-> i, group |-> <<i[1], c.key[1], c.key[2]>>, dedicated |-> c.dedicated]
    BY <1>2
  <2>2. PICK c \in MotionGroups(document[i[1]], i[2]) :
          b = [unit |-> i, group |-> <<i[1], c.key[1], c.key[2]>>, dedicated |-> c.dedicated]
    BY <2>1
  <2> DEFINE unit == document[i[1]].units[i[2]]
  <2>3. /\ b.unit = i /\ b.group[1] = i[1] /\ b.group[2] = c.key[1] /\ b.group[3] = c.key[2]
        /\ b.dedicated = c.dedicated
    BY <2>2
  <2>4. /\ c.block \in 0 .. 7 /\ c.block < Len(unit.groups)
        /\ c.key[2] = unit.groups[c.block + 1] /\ c.key[2] # Unused
        /\ c.block \in unit.light \cup unit.dark
        /\ c.dedicated => "motion" \in document[i[1]].groups[c.key]
        /\ c.key = <<c.key[1], c.key[2]>>
    BY MotionGroupsSound
  <2>5. c.block + 1 \in DOMAIN unit.groups
    <3>1. unit.groups \in Seq(0 .. 255)
      BY <1>1, ParsedUnits, DocumentsAssumption, ZenonT(60) DEF IsNetwork, Project
    <3>2. Len(unit.groups) \in Nat /\ DOMAIN unit.groups = 1 .. Len(unit.groups)
      <4>1. \A s \in Seq(0 .. 255) : Len(s) \in Nat /\ DOMAIN s = 1 .. Len(s)
        OBVIOUS
      <4> HIDE DEF unit
      <4> QED  BY <3>1, <4>1
    <3> HIDE DEF unit
    <3> QED  BY <2>4, <3>2
  <2>6. unit.groups[c.block + 1] = b.group[3] /\ (c.block + 1) - 1 \in unit.light \cup unit.dark
    <3>1. (c.block + 1) - 1 = c.block
      <4>1. \A k \in 0 .. 7 : (k + 1) - 1 = k
        OBVIOUS
      <4> QED  BY <2>4, <4>1, Zenon
    <3>2. b.group[3] = c.key[2] /\ unit.groups[c.block + 1] = c.key[2]
          /\ c.block \in unit.light \cup unit.dark
      BY <2>3, <2>4
    <3> HIDE DEF unit
    <3> QED  BY <3>1, <3>2
  <2> QED  BY <2>3, <2>4, <2>5, <2>6
<1> QED  BY <1>3, <1>4 DEF BindingsSound

\* For every project that can be imported: what GroupState assumes of the bindings.
THEOREM BindingsAreSound == Spec => []BindingsSound
BY KnownInit, KnownNext, BindingsOfKnown, PTL DEF Spec

-----------------------------------------------------------------------------
(* Groups.                                                                 *)

\* The applications among the first i entries of a unit that are programmed.
KeptOf(unit) ==
  CHOOSE kept : kept = [i \in 0 .. Len(unit.applications) |->
                          IF i = 0 THEN <<>>
                          ELSE IF unit.applications[i] = Unused THEN kept[i - 1]
                          ELSE Append(kept[i - 1], unit.applications[i])]

LEMMA KeptExist ==
  ASSUME NEW unit
  PROVE  \A n \in Nat : \E kept : kept = [i \in 0 .. n |->
           IF i = 0 THEN <<>>
           ELSE IF unit.applications[i] = Unused THEN kept[i - 1]
           ELSE Append(kept[i - 1], unit.applications[i])]
<1> DEFINE More(i, s) == IF unit.applications[i] = Unused THEN s ELSE Append(s, unit.applications[i])
           P(n) == \E kept : kept = [i \in 0 .. n |-> IF i = 0 THEN <<>> ELSE More(i, kept[i - 1])]
           S == {n \in Nat : P(n)}
<1>1. P(0)
  <2> DEFINE f == [i \in 0 .. 0 |-> <<>>]
  <2>1. f = [i \in 0 .. 0 |-> IF i = 0 THEN <<>> ELSE More(i, f[i - 1])]
    OBVIOUS
  <2> HIDE DEF f
  <2> QED  BY <2>1
<1>2. ASSUME NEW n \in Nat, P(n) PROVE P(n + 1)
  <2> HIDE DEF More
  <2>1. PICK f : f = [i \in 0 .. n |-> IF i = 0 THEN <<>> ELSE More(i, f[i - 1])]
    BY <1>2
  <2> DEFINE last == More(n + 1, f[n])
             g == [i \in 0 .. n + 1 |-> IF i = n + 1 THEN last ELSE f[i]]
  <2>2. \A i \in 0 .. n : f[i] = IF i = 0 THEN <<>> ELSE More(i, f[i - 1])
    BY <2>1
  <2>3. \A i \in 0 .. n + 1 : g[i] = IF i = 0 THEN <<>> ELSE More(i, g[i - 1])
    BY <2>2
  <2>4. g = [i \in 0 .. n + 1 |-> IF i = 0 THEN <<>> ELSE More(i, g[i - 1])]
    <3>1. g = [i \in 0 .. n + 1 |-> g[i]]
      OBVIOUS
    <3> HIDE DEF g
    <3> QED  BY <2>3, <3>1
  <2> HIDE DEF g
  <2> QED  BY <2>4
<1>3. 0 \in S /\ \A n \in Nat : n \in S => n + 1 \in S
  <2> HIDE DEF P
  <2> QED  BY <1>1, <1>2
<1>4. Nat \subseteq S
  <2> HIDE DEF S
  <2> QED  BY <1>3, NaturalInduction
<1>5. \A n \in Nat : P(n)
  <2> HIDE DEF P
  <2> QED  BY <1>4
<1> QED  BY <1>5, Zenon

\* Every programmed application of a unit is kept, and nothing else.
LEMMA ApplicationsAre ==
  ASSUME NEW unit, unit.applications \in Seq(0 .. 255)
  PROVE  /\ Applications(unit) \in Seq(0 .. 255)
         /\ ToSet(Applications(unit)) = ToSet(unit.applications) \ {Unused}
<1> DEFINE all == unit.applications
           n == Len(all)
           kept == KeptOf(unit)
           Members(s) == {s[i] : i \in 1 .. Len(s)}
           First(i) == {all[j] : j \in 1 .. i} \ {Unused}
           Good(s, i) == s \in Seq(0 .. 255) /\ Members(s) = First(i)
           S == {i \in Nat : i <= n => Good(kept[i], i)}
<1>1. n \in Nat /\ \A i \in 1 .. n : all[i] \in 0 .. 255
  <2> DEFINE Identifiers == 0 .. 255
  <2>1. all \in Seq(Identifiers)
    OBVIOUS
  <2> HIDE DEF Identifiers, all
  <2>2. Len(all) \in Nat /\ \A i \in 1 .. Len(all) : all[i] \in Identifiers
    BY <2>1
  <2> QED  BY <2>2 DEF Identifiers
<1>2. Applications(unit) = kept[n]
  BY DEF Applications, KeptOf
<1>3. kept = [i \in 0 .. n |-> IF i = 0 THEN <<>>
                               ELSE IF all[i] = Unused THEN kept[i - 1]
                               ELSE Append(kept[i - 1], all[i])]
  BY <1>1, KeptExist, Zenon DEF KeptOf
<1> HIDE DEF all, n, kept
<1>4. kept[0] = <<>>
      /\ \A i \in 0 .. n - 1 : kept[i + 1] = IF all[i + 1] = Unused THEN kept[i]
                                             ELSE Append(kept[i], all[i + 1])
  <2>1. \A i \in 0 .. n : kept[i] = IF i = 0 THEN <<>>
                                    ELSE IF all[i] = Unused THEN kept[i - 1]
                                    ELSE Append(kept[i - 1], all[i])
    BY <1>3
  <2>2. 0 \in 0 .. n /\ \A i \in 0 .. n - 1 : i + 1 \in 0 .. n /\ i + 1 # 0 /\ (i + 1) - 1 = i
    BY <1>1
  <2> QED  BY <2>1, <2>2
<1>5. 0 \in S
  <2>1. Good(<<>>, 0)
    <3>1. <<>> \in Seq(0 .. 255) /\ Len(<<>>) = 0
      OBVIOUS
    <3>2. \A j : j \notin 1 .. 0
      OBVIOUS
    <3>3. Members(<<>>) = {} /\ First(0) = {}
      BY <3>1, <3>2
    <3> HIDE DEF Members, First
    <3> QED  BY <3>1, <3>3
  <2> HIDE DEF Good
  <2> QED  BY <1>1, <1>4, <2>1
<1>6. ASSUME NEW i \in Nat, i \in S PROVE i + 1 \in S
  <2> HIDE DEF Good
  <2> SUFFICES ASSUME i + 1 <= n PROVE Good(kept[i + 1], i + 1)
    OBVIOUS
  <2> DEFINE s == kept[i]
             a == all[i + 1]
  <2>1. i \in 0 .. n - 1 /\ i + 1 \in 1 .. n /\ i <= n
    BY <1>1
  <2>2. kept[i + 1] = (IF a = Unused THEN s ELSE Append(s, a)) /\ a \in 0 .. 255
    BY <1>1, <1>4, <2>1
  <2>3. Good(s, i)
    BY <1>6, <2>1
  <2> USE DEF Good
  <2>4. First(i + 1) = IF a = Unused THEN First(i) ELSE First(i) \cup {a}
    <3>1. \A j \in 1 .. i + 1 : j = i + 1 \/ j \in 1 .. i
      OBVIOUS
    <3>2. i + 1 \in 1 .. i + 1 /\ \A j \in 1 .. i : j \in 1 .. i + 1
      OBVIOUS
    <3> QED  BY <3>1, <3>2
  <2> HIDE DEF s, a, First
  <2>5. CASE a = Unused
    BY <2>2, <2>3, <2>4, <2>5
  <2>6. CASE a # Unused
    <3> DEFINE t == Append(s, a)
    <3>1. t \in Seq(0 .. 255) /\ Len(s) \in Nat /\ Len(t) = Len(s) + 1 /\ t[Len(s) + 1] = a
          /\ \A j \in 1 .. Len(s) : t[j] = s[j]
      BY <2>2, <2>3
    <3> HIDE DEF t
    <3>2. Members(t) = Members(s) \cup {a}
      <4> DEFINE len == Len(s)
      <4>1. len + 1 \in 1 .. len + 1 /\ \A j \in 1 .. len + 1 : j = len + 1 \/ j \in 1 .. len
        BY <3>1
      <4>2. \A j \in 1 .. len : j \in 1 .. len + 1
        BY <3>1
      <4> QED  BY <3>1, <4>1, <4>2
    <3>3. Good(t, i + 1)
      BY <2>3, <2>4, <2>6, <3>1, <3>2
    <3> HIDE DEF Good
    <3> QED  BY <2>2, <2>6, <3>3 DEF t
  <2> QED  BY <2>5, <2>6
<1>7. Nat \subseteq S
  <2> HIDE DEF S
  <2> QED  BY <1>5, <1>6, NaturalInduction
<1>8. Good(kept[n], n)
  <2> HIDE DEF Good
  <2> QED  BY <1>1, <1>7
<1>9. ToSet(kept[n]) = Members(kept[n])
  BY <1>8 DEF ToSet
<1>10. ToSet(all) = {all[j] : j \in 1 .. n}
  BY DEF ToSet, all, n
<1> QED  BY <1>2, <1>8, <1>9, <1>10 DEF all

\* An application that a unit is programmed for is used.
LEMMA UsesAre ==
  ASSUME NEW x, IsNetwork(x), NEW a
  PROVE  Uses(x, a) > 0 <=> \E u \in DOMAIN x.units : a \in ToSet(Applications(x.units[u]))
<1> DEFINE Places(u) == {u} \X {i \in DOMAIN Applications(x.units[u]) : Applications(x.units[u])[i] = a}
           U == DOMAIN x.units
           F == [u \in U |-> Places(u)]
           T == {Places(u) : u \in U}
<1>1. IsFiniteSet(U)
  BY DEF IsNetwork
<1>2. ASSUME NEW u \in U
      PROVE  /\ IsFiniteSet(Places(u))
             /\ Places(u) # {} <=> a \in ToSet(Applications(x.units[u]))
  <2> DEFINE apps == Applications(x.units[u])
             here == {i \in DOMAIN apps : apps[i] = a}
  <2>1. apps \in Seq(0 .. 255)
    BY ApplicationsAre DEF IsNetwork
  <2> HIDE DEF apps
  <2>2. DOMAIN apps = 1 .. Len(apps) /\ Len(apps) \in Nat
    BY <2>1
  <2>3. IsFiniteSet(1 .. Len(apps))
    BY <2>2, FS_Interval
  <2>4. IsFiniteSet(here)
    BY <2>2, <2>3, FS_Subset
  <2>5. here # {} <=> a \in ToSet(apps)
    BY <2>2 DEF ToSet
  <2> HIDE DEF here
  <2>6. IsFiniteSet({u} \X here)
    BY <2>4, FS_Singleton, FS_Product
  <2>7. {u} \X here # {} <=> here # {}
    <3>1. ASSUME NEW i \in here PROVE <<u, i>> \in {u} \X here
      OBVIOUS
    <3>2. ASSUME NEW q \in {u} \X here PROVE q[2] \in here
      OBVIOUS
    <3> QED  BY <3>1, <3>2
  <2>8. Places(u) = {u} \X here
    BY DEF apps, here
  <2> QED  BY <2>5, <2>6, <2>7, <2>8 DEF apps
<1> HIDE DEF Places
<1>3. IsFiniteSet(T)
  <2>1. F \in Surjection(U, T)
    BY DEF Surjection
  <2> HIDE DEF F, T, U
  <2> QED  BY <1>1, <2>1, FS_Surjection
<1>4. IsFiniteSet(UNION T)
  <2>1. \A s \in T : IsFiniteSet(s)
    BY <1>2
  <2> HIDE DEF T
  <2> QED  BY <1>3, <2>1, FS_UNION
<1>5. Uses(x, a) = Cardinality(UNION T)
  BY DEF Uses, Places
<1>6. UNION T # {} <=> \E u \in U : Places(u) # {}
  OBVIOUS
<1> DEFINE all == UNION T
<1>7. Cardinality(all) \in Nat /\ (Cardinality(all) = 0 <=> all = {})
  <2> HIDE DEF all
  <2>1. IsFiniteSet(all)
    BY <1>4 DEF all
  <2> QED  BY <2>1, FS_CardinalityType, FS_EmptySet
<1> DEFINE size == Cardinality(all)
<1>8. size > 0 <=> size # 0
  <2>1. size \in Nat
    BY <1>7
  <2> HIDE DEF size
  <2> QED  BY <2>1
<1>9. Uses(x, a) > 0 <=> all # {}
  BY <1>5, <1>7, <1>8
<1> HIDE DEF all
<1> QED  BY <1>2, <1>6, <1>9 DEF all

\* What parse_project_path makes of a group.
LEMMA GroupOf ==
  ASSUME NEW d \in Documents, NEW n \in DOMAIN d
  PROVE  /\ IsNetwork(d[n])
         /\ Parsed[d][n].active = ActiveApplications(d[n])
         /\ \A k : k \in DOMAIN Parsed[d][n].groups <=> k \in DOMAIN d[n].groups /\ k[1] \in Lighting(d[n])
         /\ \A k \in DOMAIN Parsed[d][n].groups :
              /\ Parsed[d][n].groups[k].internal = ("internal" \in d[n].groups[k])
              /\ Parsed[d][n].groups[k].platform =
                   ClassifyGroup(d[n].groups[k], k \in RelayGroups(d[n]))
<1>1. IsNetwork(d[n])
  BY DocumentsAssumption
<1>2. Parsed[d][n] = ParseNetwork(d[n])
  BY ParsedNetwork
<1>3. Parsed[d][n].active = ActiveApplications(d[n]) /\ Parsed[d][n].groups = ParseGroups(d[n])
  BY <1>2 DEF ParseNetwork
<1>4. ASSUME NEW x, NEW k
      PROVE  k \in DOMAIN ParseGroups(x) <=> k \in DOMAIN x.groups /\ k[1] \in Lighting(x)
  BY DEF ParseGroups
<1>5. ASSUME NEW x, NEW k \in DOMAIN ParseGroups(x)
      PROVE  /\ ParseGroups(x)[k].internal = ("internal" \in x.groups[k])
             /\ ParseGroups(x)[k].platform = ClassifyGroup(x.groups[k], k \in RelayGroups(x))
  <2>1. ParseGroups(x)[k] =
          [name |-> x.groups[k], internal |-> "internal" \in x.groups[k],
           platform |-> ClassifyGroup(x.groups[k], k \in RelayGroups(x))]
    BY DEF ParseGroups
  <2> QED  BY <2>1
<1> QED  BY <1>1, <1>3, <1>4, <1>5

\* The groups of a platform are groups of a network, by their addresses.
Serves(p, o, platform, n, k) ==
  /\ k[1] \in p[n].active /\ k[2] # 255
  /\ p[n].groups[k].internal => Or(o[<<"internal">>], FALSE)
  /\ p[n].groups[k].platform = platform

LEMMA ServedGroups ==
  ASSUME NEW p, NEW o, NEW platform, NEW i
  PROVE  i \in GroupDefinitions(p, o, platform) <=>
           \E n \in DOMAIN p : \E k \in DOMAIN p[n].groups :
             i = <<n, k[1], k[2]>> /\ Serves(p, o, platform, n, k)
<1> DEFINE Chosen(n) == {k \in DOMAIN p[n].groups : Serves(p, o, platform, n, k)}
           Ids(n) == {<<n, k[1], k[2]>> : k \in Chosen(n)}
<1>1. GroupDefinitions(p, o, platform) = UNION {Ids(n) : n \in DOMAIN p}
  BY DEF GroupDefinitions, Serves
<1>2. \A n : i \in Ids(n) <=> \E k \in Chosen(n) : i = <<n, k[1], k[2]>>
  BY Zenon
<1>3. i \in UNION {Ids(n) : n \in DOMAIN p} <=> \E n \in DOMAIN p : i \in Ids(n)
  <2> HIDE DEF Ids
  <2> QED  BY Zenon
<1> HIDE DEF Ids
<1> QED  BY <1>1, <1>2, <1>3, Zenon

LEMMA Classes ==
  ASSUME NEW name, NEW relay \in BOOLEAN
  PROVE  /\ "motion" \notin name => ClassifyGroup(name, relay) \in {"light", "switch"}
         /\ relay => ClassifyGroup(name, relay) # "light"
BY DEF ClassifyGroup

LEMMA GroupsOfKnown == Known => GroupsServed
<1> SUFFICES ASSUME Known, document # None PROVE GroupsServed
  BY DEF GroupsServed
<1> DEFINE entities == Entities(Project, options)
<1>1. document \in Documents
  BY DEF Known
<1>2. DOMAIN Project = DOMAIN document
  BY <1>1 DEF Project, Parsed, ParseProject
<1>3. entities.light = GroupDefinitions(Project, options, "light")
      /\ entities.switch = GroupDefinitions(Project, options, "switch")
  BY DEF Entities
<1>4. \A n \in DOMAIN document :
        /\ IsNetwork(document[n])
        /\ Project[n].active = ActiveApplications(document[n])
        /\ \A k : k \in DOMAIN Project[n].groups <=>
             k \in DOMAIN document[n].groups /\ k[1] \in Lighting(document[n])
        /\ \A k \in DOMAIN Project[n].groups :
             /\ Project[n].groups[k].internal = ("internal" \in document[n].groups[k])
             /\ Project[n].groups[k].platform =
                  ClassifyGroup(document[n].groups[k], k \in RelayGroups(document[n]))
  BY <1>1, GroupOf DEF Project
<1> HIDE DEF entities
\* A group is its addresses.
<1>5. \A n \in DOMAIN document : \A k \in DOMAIN document[n].groups :
        k = <<k[1], k[2]>> /\ k[1] \in document[n].applications
  <2> TAKE n \in DOMAIN document
  <2> TAKE k \in DOMAIN document[n].groups
  <2> DEFINE x == document[n]
  <2>1. DOMAIN x.groups \subseteq x.applications \X (0 .. 255)
    <3>1. IsNetwork(x)
      BY <1>4
    <3> HIDE DEF x
    <3> QED  BY <3>1, ZenonT(60) DEF IsNetwork
  <2>2. k \in x.applications \X (0 .. 255)
    BY <2>1
  <2> QED  BY <2>2
<1>6. entities.light \cap entities.switch = {}
  <2> SUFFICES ASSUME NEW i \in entities.light, i \in entities.switch PROVE FALSE
    OBVIOUS
  <2>a. PICK n \in DOMAIN Project : \E k \in DOMAIN Project[n].groups :
          i = <<n, k[1], k[2]>> /\ Serves(Project, options, "light", n, k)
    BY <1>3, ServedGroups, Zenon
  <2>1. PICK k \in DOMAIN Project[n].groups :
          i = <<n, k[1], k[2]>> /\ Serves(Project, options, "light", n, k)
    BY <2>a
  <2>b. PICK m \in DOMAIN Project : \E j \in DOMAIN Project[m].groups :
          i = <<m, j[1], j[2]>> /\ Serves(Project, options, "switch", m, j)
    BY <1>3, ServedGroups, Zenon
  <2>2. PICK j \in DOMAIN Project[m].groups :
          i = <<m, j[1], j[2]>> /\ Serves(Project, options, "switch", m, j)
    BY <2>b
  <2>3. n = m /\ k[1] = j[1] /\ k[2] = j[2]
    BY <2>1, <2>2
  <2>4. k = <<k[1], k[2]>> /\ j = <<j[1], j[2]>>
    BY <1>2, <1>4, <1>5, <2>3
  <2>5. k = j
    BY <2>3, <2>4
  <2> QED  BY <2>1, <2>2, <2>3, <2>5 DEF Serves
<1>7. ASSUME NEW n \in DOMAIN document, NEW k \in DOMAIN document[n].groups,
             document[n].groups[k] \cap {"internal", "motion"} = {},
             k[1] \in 48 .. 95, k[2] # 255,
             \E u \in DOMAIN document[n].units : k[1] \in ToSet(document[n].units[u].applications)
      PROVE  <<n, k[1], k[2]>> \in entities.light \cup entities.switch
  <2> DEFINE x == document[n]
             name == x.groups[k]
             group == Project[n].groups[k]
  <2>1. k[1] \in Lighting(x)
    BY <1>5, <1>7 DEF Lighting
  <2>2. k \in DOMAIN Project[n].groups
    BY <1>4, <2>1
  <2>3. PICK u \in DOMAIN x.units : k[1] \in ToSet(x.units[u].applications)
    BY <1>7
  <2>4. k[1] \in ToSet(Applications(x.units[u]))
    <3>1. x.units[u].applications \in Seq(0 .. 255)
      BY <1>4 DEF IsNetwork
    <3>2. k[1] # Unused
      BY <1>7 DEF Unused
    <3> QED  BY <2>3, <3>1, <3>2, ApplicationsAre
  <2>5. Uses(x, k[1]) > 0
    BY <1>4, <2>4, UsesAre
  <2>6. k[1] \in ActiveApplications(x)
    BY <2>1, <2>5 DEF ActiveApplications
  <2>7. group.internal = ("internal" \in name)
        /\ group.platform = ClassifyGroup(name, k \in RelayGroups(x))
    BY <1>4, <2>2
  <2>8. "motion" \notin name /\ "internal" \notin name
    BY <1>7
  <2>9. Project[n].active = ActiveApplications(x) /\ n \in DOMAIN Project
    BY <1>2, <1>4
  <2> HIDE DEF x, name, group
  <2>10. group.platform \in {"light", "switch"}
    <3> DEFINE relay == k \in RelayGroups(x)
    <3>1. relay \in BOOLEAN
      OBVIOUS
    <3> HIDE DEF relay
    <3>2. ClassifyGroup(name, relay) \in {"light", "switch"}
      BY <2>8, <3>1, Classes
    <3> QED  BY <2>7, <3>2 DEF relay
  <2>11. \A platform : group.platform = platform => Serves(Project, options, platform, n, k)
    BY <1>7, <2>6, <2>7, <2>8, <2>9, ZenonT(60) DEF Serves, group
  <2>12. \A platform : group.platform = platform =>
           <<n, k[1], k[2]>> \in GroupDefinitions(Project, options, platform)
    BY <2>2, <2>9, <2>11, ServedGroups, Zenon
  <2> QED  BY <1>3, <2>10, <2>12
<1>8. ASSUME NEW n \in DOMAIN document, NEW k \in DOMAIN document[n].groups,
             NEW u \in DOMAIN document[n].units, document[n].units[u].type = "relay",
             k[1] \in ToSet(document[n].units[u].applications),
             k[2] \in ToSet(document[n].units[u].groups), k[2] # 255
      PROVE  <<n, k[1], k[2]>> \notin entities.light
  <2> DEFINE x == document[n]
  <2> SUFFICES ASSUME <<n, k[1], k[2]>> \in entities.light PROVE FALSE
    OBVIOUS
  <2>a. PICK m \in DOMAIN Project : \E j \in DOMAIN Project[m].groups :
          <<n, k[1], k[2]>> = <<m, j[1], j[2]>> /\ Serves(Project, options, "light", m, j)
    BY <1>3, ServedGroups, Zenon
  <2>0. PICK j \in DOMAIN Project[m].groups :
          <<n, k[1], k[2]>> = <<m, j[1], j[2]>> /\ Serves(Project, options, "light", m, j)
    BY <2>a
  <2>1. j \in DOMAIN Project[n].groups /\ k[1] = j[1] /\ k[2] = j[2]
        /\ Project[n].groups[j].platform = "light"
    BY <2>0 DEF Serves
  <2>2. j = k
    <3>1. j = <<j[1], j[2]>> /\ k = <<k[1], k[2]>>
      BY <1>4, <1>5, <2>1
    <3> QED  BY <2>1, <3>1
  <2>3. k[1] \in Lighting(x) /\ Project[n].groups[k].platform = ClassifyGroup(x.groups[k], k \in RelayGroups(x))
    BY <1>4, <2>1, <2>2
  <2>4. k[1] # Unused
    BY <2>3 DEF Lighting, Unused
  <2>5. k[1] \in ToSet(Applications(x.units[u]))
    <3>1. x.units[u].applications \in Seq(0 .. 255)
      BY <1>4 DEF IsNetwork
    <3> QED  BY <1>8, <2>4, <3>1, ApplicationsAre
  <2>6. k \in ToSet(Applications(x.units[u])) \X (ToSet(x.units[u].groups) \ {Unused})
    BY <1>5, <1>8, <2>5 DEF Unused
  <2>7. k \in RelayGroups(x)
    <3> DEFINE Driven(v) == ToSet(Applications(x.units[v])) \X (ToSet(x.units[v].groups) \ {Unused})
    <3>1. RelayGroups(x) = UNION {Driven(v) : v \in {w \in DOMAIN x.units : x.units[w].type = "relay"}}
      BY DEF RelayGroups
    <3>2. k \in Driven(u) /\ u \in {w \in DOMAIN x.units : x.units[w].type = "relay"}
      BY <1>8, <2>6
    <3> HIDE DEF Driven
    <3> QED  BY <3>1, <3>2
  <2> QED  BY <2>1, <2>2, <2>3, <2>7, Classes
<1>9. \A n \in DOMAIN document : \A k \in DOMAIN document[n].groups :
        LET i == <<n, k[1], k[2]>>
        IN  /\ /\ document[n].groups[k] \cap {"internal", "motion"} = {}
               /\ k[1] \in 48 .. 95 /\ k[2] # 255
               /\ \E u \in DOMAIN document[n].units :
                    k[1] \in ToSet(document[n].units[u].applications)
               => i \in entities.light \cup entities.switch
            /\ (\E u \in DOMAIN document[n].units :
                  /\ document[n].units[u].type = "relay"
                  /\ k[1] \in ToSet(document[n].units[u].applications)
                  /\ k[2] \in ToSet(document[n].units[u].groups)
                  /\ k[2] # 255)
               => i \notin entities.light
  BY <1>7, <1>8, ZenonT(60)
<1> QED  BY <1>6, <1>9 DEF GroupsServed, entities

\* For every project and all options: what parse_project_path classifies, from the
\* names and from what the relay units drive, decides which platform has a group.
THEOREM GroupsAreServed == Spec => []GroupsServed
BY KnownInit, KnownNext, GroupsOfKnown, PTL DEF Spec

-----------------------------------------------------------------------------
(* The summary of changes.                                                 *)

LEMMA GroupIds ==
  ASSUME NEW p
  PROVE  \A n \in DOMAIN p : \A k : <<n, k>> \in GroupMap(p) <=> k \in DOMAIN p[n].groups
<1> DEFINE Ids(n) == {<<n, k>> : k \in DOMAIN p[n].groups}
<1>1. GroupMap(p) = UNION {Ids(n) : n \in DOMAIN p}
  BY DEF GroupMap
<1> QED  BY <1>1

\* Whether a group is internal is a matter of its name.
LEMMA ParsedGroup ==
  ASSUME NEW d \in Documents, NEW n \in DOMAIN d, NEW k \in DOMAIN Parsed[d][n].groups
  PROVE  Parsed[d][n].groups[k].internal = ("internal" \in Parsed[d][n].groups[k].name)
<1>0. ParseNetwork(d[n]).groups = ParseGroups(d[n])
  BY DEF ParseNetwork
<1>1. Parsed[d][n].groups = ParseGroups(d[n])
  BY <1>0, ParsedNetwork
<1>2. ASSUME NEW x, NEW j \in DOMAIN ParseGroups(x)
      PROVE  ParseGroups(x)[j].internal = ("internal" \in ParseGroups(x)[j].name)
  <2>1. ParseGroups(x)[j] =
          [name |-> x.groups[j], internal |-> "internal" \in x.groups[j],
           platform |-> ClassifyGroup(x.groups[j], j \in RelayGroups(x))]
    BY DEF ParseGroups
  <2> QED  BY <2>1
<1> QED  BY <1>1, <1>2

\* Two projects with nothing between them to list, and the same applications.
SameSummary(old, new) ==
  /\ DiffEmpty(old, new)
  /\ \A n \in DOMAIN old \cap DOMAIN new :
       old[n].active = new[n].active /\ old[n].monitor = new[n].monitor

LEMMA SameConnections ==
  ASSUME NEW old, NEW new, NEW o, SameSummary(old, new)
  PROVE  /\ Connections(new, o) = Connections(old, o)
         /\ Entities(new, o).connectivity = Entities(old, o).connectivity
<1>1. DOMAIN old = DOMAIN new
  BY DEF SameSummary, DiffEmpty
<1>2. \A n \in DOMAIN old : /\ Enabled(new, o, n) = Enabled(old, o, n)
                            /\ Host(new, o, n) = Host(old, o, n)
                            /\ Port(new, o, n) = Port(old, o, n)
                            /\ Monitor(new, o, n) = Monitor(old, o, n)
  <2> TAKE n \in DOMAIN old
  <2>1. old[n].interface = new[n].interface /\ old[n].monitor = new[n].monitor
    BY <1>1 DEF SameSummary, DiffEmpty
  <2> QED  BY <2>1 DEF Enabled, Host, Port, Monitor
<1> DEFINE Usable(p) == {m \in DOMAIN p : /\ Enabled(p, o, m) /\ Host(p, o, m) # None
                                          /\ Port(p, o, m) # None}
           Connection(p, n) == [network |-> n, host |-> Host(p, o, n), port |-> Port(p, o, n),
                                monitor |-> Monitor(p, o, n)]
<1>3. Usable(new) = Usable(old) /\ \A n \in Usable(old) : Connection(new, n) = Connection(old, n)
  BY <1>1, <1>2
<1>4. \A p : Connections(p, o) = {Connection(p, n) : n \in Usable(p)}
  BY DEF Connections
<1>5. {n \in DOMAIN new : Host(new, o, n) # None} = {n \in DOMAIN old : Host(old, o, n) # None}
  BY <1>1, <1>2
<1>6. Entities(new, o).connectivity = Entities(old, o).connectivity
  BY <1>5 DEF Entities
<1> HIDE DEF Usable, Connection
<1> QED  BY <1>3, <1>4, <1>6

LEMMA SameGroups ==
  ASSUME NEW d \in Documents, NEW e \in Documents, NEW o, NEW platform,
         SameSummary(Parsed[d], Parsed[e])
  PROVE  GroupDefinitions(Parsed[e], o, platform) = GroupDefinitions(Parsed[d], o, platform)
<1> DEFINE old == Parsed[d]
           new == Parsed[e]
           Wanted(p, n, k) == /\ k[1] \in p[n].active /\ k[2] # 255
                              /\ p[n].groups[k].internal => Or(o[<<"internal">>], FALSE)
                              /\ p[n].groups[k].platform = platform
           Chosen(p, n) == {<<n, k[1], k[2]>> : k \in {j \in DOMAIN p[n].groups : Wanted(p, n, j)}}
<1>1. DOMAIN old = DOMAIN new /\ DOMAIN d = DOMAIN old /\ DOMAIN e = DOMAIN new
  BY DEF SameSummary, DiffEmpty, Parsed, ParseProject
<1>2. ASSUME NEW n \in DOMAIN old
      PROVE  DOMAIN old[n].groups = DOMAIN new[n].groups
  <2>1. GroupMap(old) = GroupMap(new)
    BY DEF SameSummary, DiffEmpty
  <2>2. \A k : k \in DOMAIN old[n].groups <=> k \in DOMAIN new[n].groups
    BY <1>1, <2>1, GroupIds
  <2> QED  BY <2>2
<1>3. ASSUME NEW n \in DOMAIN old, NEW k \in DOMAIN old[n].groups
      PROVE  Wanted(old, n, k) <=> Wanted(new, n, k)
  <2>1. <<n, k>> \in GroupMap(old) \cap GroupMap(new)
    BY <1>1, <1>2, GroupIds
  <2>2. /\ Group(old, <<n, k>>).name = Group(new, <<n, k>>).name
        /\ Group(old, <<n, k>>).platform = Group(new, <<n, k>>).platform
    BY <2>1 DEF SameSummary, DiffEmpty, Reclassified
  <2>3. /\ old[n].groups[k].name = new[n].groups[k].name
        /\ old[n].groups[k].platform = new[n].groups[k].platform
    BY <2>2 DEF Group
  <2>4. old[n].groups[k].internal = new[n].groups[k].internal
    BY <1>1, <1>2, <2>3, ParsedGroup
  <2>5. old[n].active = new[n].active
    BY <1>1 DEF SameSummary
  <2> QED  BY <2>3, <2>4, <2>5
<1>4. \A n \in DOMAIN old : Chosen(old, n) = Chosen(new, n)
  <2> HIDE DEF old, new, Wanted
  <2> QED  BY <1>2, <1>3
<1>5. \A p : GroupDefinitions(p, o, platform) = UNION {Chosen(p, n) : n \in DOMAIN p}
  BY DEF GroupDefinitions
<1> HIDE DEF old, new, Chosen
<1>6. {Chosen(old, n) : n \in DOMAIN old} = {Chosen(new, n) : n \in DOMAIN new}
  BY <1>1, <1>4
<1>7. GroupDefinitions(new, o, platform) = GroupDefinitions(old, o, platform)
  BY <1>5, <1>6
<1> QED  BY <1>7 DEF old, new

LEMMA SameUnits ==
  ASSUME NEW old, NEW new, NEW o, SameSummary(old, new)
  PROVE  /\ MotionDefinitions(new, o) = MotionDefinitions(old, o)
         /\ IlluminanceDefinitions(new, o) = IlluminanceDefinitions(old, o)
         /\ MotionBindings(new) = MotionBindings(old)
<1>1. UnitMap(old) = UnitMap(new) /\ MotionUnits(old) = MotionUnits(new)
  BY DEF SameSummary, DiffEmpty
<1>2. \A i \in MotionUnits(old) : Unit(old, i).motion_groups = Unit(new, i).motion_groups
  BY <1>1 DEF SameSummary, DiffEmpty
<1> DEFINE Of(p, i) == {[unit |-> i, group |-> <<i[1], c.key[1], c.key[2]>>,
                         dedicated |-> c.dedicated] : c \in Unit(p, i).motion_groups}
<1>3. \A i \in MotionUnits(old) : Of(old, i) = Of(new, i)
  BY <1>2
<1>4. \A p : MotionBindings(p) = UNION {Of(p, i) : i \in MotionUnits(p)}
  BY DEF MotionBindings
<1> HIDE DEF Of
<1>5. {Of(old, i) : i \in MotionUnits(old)} = {Of(new, i) : i \in MotionUnits(new)}
  BY <1>1, <1>3
<1>6. MotionBindings(new) = MotionBindings(old)
  BY <1>4, <1>5
<1> QED  BY <1>1, <1>6 DEF MotionDefinitions, IlluminanceDefinitions

\* For every two projects and all options: what project_diff compares decides what is
\* made of them, but for the applications.
THEOREM SummaryTellsAll ==
  ASSUME NEW d \in Documents, NEW e \in Documents, NEW o, SameSummary(Parsed[d], Parsed[e])
  PROVE  /\ Connections(Parsed[e], o) = Connections(Parsed[d], o)
         /\ Entities(Parsed[e], o) = Entities(Parsed[d], o)
         /\ MotionBindings(Parsed[e]) = MotionBindings(Parsed[d])
<1>1. /\ Connections(Parsed[e], o) = Connections(Parsed[d], o)
      /\ Entities(Parsed[e], o).connectivity = Entities(Parsed[d], o).connectivity
  BY SameConnections
<1>2. \A platform : GroupDefinitions(Parsed[e], o, platform) = GroupDefinitions(Parsed[d], o, platform)
  BY SameGroups
<1>3. /\ MotionDefinitions(Parsed[e], o) = MotionDefinitions(Parsed[d], o)
      /\ IlluminanceDefinitions(Parsed[e], o) = IlluminanceDefinitions(Parsed[d], o)
      /\ MotionBindings(Parsed[e]) = MotionBindings(Parsed[d])
  BY SameUnits
<1>4. Entities(Parsed[e], o) = Entities(Parsed[d], o)
  BY <1>1, <1>2, <1>3 DEF Entities
<1> QED  BY <1>1, <1>3, <1>4

\* No step replaces the project by one with an empty summary and other consequences.
THEOREM DiffsTell == Spec => DiffTells
<1> DEFINE Told ==
      document # None /\ document' # document =>
        LET old == Parsed[document]
            new == Parsed[document']
        IN  /\ DiffEmpty(old, new)
            /\ \A n \in DOMAIN old \cap DOMAIN new :
                 old[n].active = new[n].active /\ old[n].monitor = new[n].monitor
            => /\ Connections(new, options) = Connections(old, options)
               /\ Entities(new, options) = Entities(old, options)
               /\ MotionBindings(new) = MotionBindings(old)
<1>1. Known /\ [Next]_vars => [Told]_vars
  <2> SUFFICES ASSUME Known, [Next]_vars, document # None, document' # document,
                      SameSummary(Parsed[document], Parsed[document'])
               PROVE  /\ Connections(Parsed[document'], options) = Connections(Parsed[document], options)
                      /\ Entities(Parsed[document'], options) = Entities(Parsed[document], options)
                      /\ MotionBindings(Parsed[document']) = MotionBindings(Parsed[document])
    BY DEF SameSummary
  <2>1. document \in Documents /\ document' \in Documents
    BY DEF Known, Next, Import, ShowForm, PortRefused, SubmitForm, vars
  <2> QED  BY <2>1, SummaryTellsAll
<1> QED  BY <1>1, KnownInit, KnownNext, PTL DEF Spec, DiffTells
=============================================================================
