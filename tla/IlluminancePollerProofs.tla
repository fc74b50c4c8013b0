----------------------- MODULE IlluminancePollerProofs -----------------------
(***************************************************************************)
(* Theorems about IlluminancePoller, for any networks, sensors and values. *)
(***************************************************************************)
EXTENDS IlluminancePoller, TLAPS

\* While a request is unanswered the window has what the NAC exports now, and an
\* answer has nothing but what the window has.
WindowCovers ==
  \A s \in Sensors : task[s[1]] = "request" =>
    IF answer[s[1]] = None THEN lux[s] \in window[s]
                           ELSE answer[s[1]].objects[s] \in window[s]

IInv == TypeOK /\ WindowCovers /\ ReadingHonest /\ ShownIsCurrent

LEMMA IInvInit == Init => IInv
BY SensorsAssumption DEF Init, IInv, TypeOK, WindowCovers, ReadingHonest, ShownIsCurrent, Objects, Alive, Ended

\* What a poll that failed does to the states, and to what the entities show.
LEMMA SetErrorsKeeps ==
  ASSUME IInv, NEW n \in Networks, SetErrors(n, "failed"), added' = added
  PROVE  /\ value' \in [Sensors -> Values \cup {None}]
         /\ available' \in [Sensors -> BOOLEAN]
         /\ error' \in [Sensors -> Errors \cup {None}]
         /\ shown' \in [Sensors -> Shown \cup {None}]
         /\ \A s \in Sensors : available'[s] => value'[s] # None /\ error'[s] = None
         /\ ShownIsCurrent'
         /\ \A s \in Sensors : IF s[1] = n THEN ~available'[s]
                               ELSE available'[s] = available[s] /\ value'[s] = value[s]
<1>1. /\ value' \in [Sensors -> Values \cup {None}]
      /\ available' \in [Sensors -> BOOLEAN]
      /\ error' \in [Sensors -> Errors \cup {None}]
  BY DEF IInv, TypeOK, SetErrors, Errors
<1>2. \A s \in Sensors : available'[s] => value'[s] # None /\ error'[s] = None
  BY DEF IInv, TypeOK, SetErrors
<1>3. \A s \in Sensors : IF s[1] = n THEN ~available'[s]
                         ELSE available'[s] = available[s] /\ value'[s] = value[s]
  BY DEF IInv, TypeOK, SetErrors
<1>4. ASSUME NEW s \in added PROVE shown'[s] = View(s)'
  <2>1. s \in Sensors /\ shown[s] = View(s)
    BY EnabledAssumption DEF IInv, TypeOK, ShownIsCurrent
  <2>2. CASE s \in Failed(SensorsOf(n), "failed")
    BY <2>1, <2>2 DEF SetErrors, Notify, View
  <2>3. CASE s \notin Failed(SensorsOf(n), "failed")
    <3>1. value'[s] = value[s] /\ available'[s] = available[s] /\ error'[s] = error[s]
      BY <2>1, <2>3 DEF SetErrors, Failed, SensorsOf, IInv, TypeOK
    <3> QED  BY <2>1, <2>3, <3>1 DEF SetErrors, Notify, View
  <2> QED  BY <2>2, <2>3
<1>5. shown' \in [Sensors -> Shown \cup {None}]
  BY <1>1 DEF SetErrors, Notify, Shown, IInv, TypeOK
<1> QED  BY <1>1, <1>2, <1>3, <1>4, <1>5 DEF ShownIsCurrent

\* The same for a poll that was answered.
LEMMA SetValuesKeeps ==
  ASSUME IInv, NEW n \in Networks, NEW objects \in Objects, SetValues(n, objects),
         added' = added
  PROVE  /\ value' \in [Sensors -> Values \cup {None}]
         /\ available' \in [Sensors -> BOOLEAN]
         /\ error' \in [Sensors -> Errors \cup {None}]
         /\ shown' \in [Sensors -> Shown \cup {None}]
         /\ \A s \in Sensors : available'[s] => value'[s] # None /\ error'[s] = None
         /\ ShownIsCurrent'
         /\ \A s \in Sensors :
              IF s[1] = n
              THEN IF available'[s] THEN value'[s] = objects[s] ELSE objects[s] = None
              ELSE available'[s] = available[s] /\ value'[s] = value[s]
<1> DEFINE supplied == Supplied(n, objects)
           missing  == SensorsOf(n) \ supplied
<1>1. ASSUME NEW s \in Sensors
      PROVE  CASE s \in supplied -> /\ value'[s] = objects[s] /\ objects[s] # None
                                    /\ available'[s] = TRUE /\ error'[s] = None
               [] s \in missing  -> /\ value'[s] = value[s] /\ objects[s] = None
                                    /\ available'[s] = FALSE /\ error'[s] = "missing"
               [] OTHER -> /\ s[1] # n /\ value'[s] = value[s]
                           /\ available'[s] = available[s] /\ error'[s] = error[s]
  BY DEF SetValues, Supplied, SensorsOf, IInv, TypeOK
<1>2. /\ value' \in [Sensors -> Values \cup {None}]
      /\ available' \in [Sensors -> BOOLEAN]
      /\ error' \in [Sensors -> Errors \cup {None}]
  <2>1. /\ value' = [s \in Sensors |-> value'[s]]
        /\ available' = [s \in Sensors |-> available'[s]]
        /\ error' = [s \in Sensors |-> error'[s]]
    BY DEF SetValues
  <2>2. \A s \in Sensors : /\ value'[s] \in Values \cup {None} /\ available'[s] \in BOOLEAN
                           /\ error'[s] \in Errors \cup {None}
    BY <1>1 DEF IInv, TypeOK, Errors, Objects
  <2> QED  BY <2>1, <2>2
<1>3. \A s \in Sensors : available'[s] => value'[s] # None /\ error'[s] = None
  BY <1>1 DEF IInv, TypeOK
<1>4. \A s \in Sensors :
        IF s[1] = n
        THEN IF available'[s] THEN value'[s] = objects[s] ELSE objects[s] = None
        ELSE available'[s] = available[s] /\ value'[s] = value[s]
  BY <1>1 DEF Supplied, SensorsOf
<1>5. ASSUME NEW s \in added PROVE shown'[s] = View(s)'
  <2>1. s \in Sensors /\ shown[s] = View(s)
    BY EnabledAssumption DEF IInv, TypeOK, ShownIsCurrent
  <2>2. CASE s \in supplied \cup Failed(missing, "missing")
    BY <2>1, <2>2 DEF SetValues, Notify, View
  <2>3. CASE s \notin supplied \cup Failed(missing, "missing")
    <3>1. value'[s] = value[s] /\ available'[s] = available[s] /\ error'[s] = error[s]
      BY <1>1, <2>1, <2>3 DEF Failed, IInv, TypeOK
    <3> QED  BY <2>1, <2>3, <3>1 DEF SetValues, Notify, View
  <2> QED  BY <2>2, <2>3
<1>6. shown' \in [Sensors -> Shown \cup {None}]
  BY <1>2 DEF SetValues, Notify, Shown, IInv, TypeOK
<1> QED  BY <1>2, <1>3, <1>4, <1>5, <1>6 DEF ShownIsCurrent

LEMMA IInvNext == IInv /\ [Next]_vars => IInv'
<1> SUFFICES ASSUME IInv, [Next]_vars PROVE IInv'
  OBVIOUS
<1> USE SensorsAssumption DEF Alive, Ended, nacVars, stateVars
<1>1. CASE Start
  <2>1. task' \in [Networks -> Alive \cup Ended]
    BY <1>1 DEF Start
  <2>2. \A s \in Sensors : task'[s[1]] = "request" => s[1] \in Polled \cap {First}
    BY <1>1 DEF Start
  <2>3. \A n \in Networks : task'[n] # "sleep"
    BY <1>1 DEF Start
  <2>4. TypeOK'
    BY <1>1, <2>1 DEF Start, Ask, IInv, TypeOK, Objects
  <2>5. WindowCovers'
    BY <1>1, <2>2 DEF Start, Ask, IInv, TypeOK, WindowCovers
  <2> QED
    BY <1>1, <2>3, <2>4, <2>5 DEF Start, IInv, ReadingHonest, ShownIsCurrent, View
<1>2. CASE Stop
  BY <1>2 DEF Stop, IInv, TypeOK, WindowCovers, ReadingHonest, ShownIsCurrent, View
<1>3. CASE Gathered
  BY <1>3 DEF Gathered, IInv, TypeOK, WindowCovers, ReadingHonest, ShownIsCurrent, View
<1>4. ASSUME NEW n \in Networks, Poll(n) PROVE IInv'
  <2>1. TypeOK'
    BY <1>4 DEF Poll, Ask, IInv, TypeOK, Objects
  <2>2. WindowCovers'
    BY <1>4 DEF Poll, Ask, IInv, TypeOK, WindowCovers
  <2>3. ReadingHonest'
    BY <1>4 DEF Poll, Ask, IInv, TypeOK, ReadingHonest
  <2> QED  BY <1>4, <2>1, <2>2, <2>3 DEF Poll, IInv, ShownIsCurrent, View
<1>5. ASSUME NEW n \in Networks, Respond(n) PROVE IInv'
  <2>1. PICK f \in Forms : answer' = [answer EXCEPT ![n] = [form |-> f, objects |-> Exported(n)]]
    BY <1>5 DEF Respond
  <2>2. Exported(n) \in Objects /\ \A s \in Sensors : s[1] = n => Exported(n)[s] = lux[s]
    BY DEF Exported, Objects, IInv, TypeOK
  <2>3. TypeOK'
    BY <1>5, <2>1, <2>2 DEF Respond, IInv, TypeOK
  <2>4. WindowCovers'
    BY <1>5, <2>1, <2>2 DEF Respond, IInv, TypeOK, WindowCovers
  <2> QED  BY <1>5, <2>3, <2>4 DEF Respond, IInv, ReadingHonest, ShownIsCurrent, View
<1>6. ASSUME NEW n \in Networks, ObjectsRead(n) PROVE IInv'
  <2>1. answer[n].objects \in Objects
    BY <1>6 DEF ObjectsRead, IInv, TypeOK
  <2>2. CASE Usable(n, answer[n])
    <3>1. SetValues(n, answer[n].objects) /\ EndPoll(n, "ok")
      BY <1>6, <2>2 DEF ObjectsRead
    <3>2. \A s \in Sensors : s[1] = n => answer[n].objects[s] \in window[s]
      BY <1>6 DEF ObjectsRead, IInv, WindowCovers
    <3>3. TypeOK' /\ ShownIsCurrent'
      BY <3>1, <2>1, SetValuesKeeps DEF EndPoll, IInv, TypeOK
    <3>4. WindowCovers'
      BY <3>1 DEF EndPoll, IInv, TypeOK, WindowCovers
    <3>5. ASSUME NEW s \in Sensors, task'[s[1]] = "sleep"
          PROVE  IF polled'[s[1]] = "ok"
                 THEN IF available'[s] THEN value'[s] \in window'[s] ELSE None \in window'[s]
                 ELSE ~available'[s]
      <4>1. CASE s[1] = n
        BY <4>1, <3>1, <3>2, <2>1, SetValuesKeeps DEF EndPoll, IInv, TypeOK
      <4>2. CASE s[1] # n
        BY <4>2, <3>1, <2>1, <3>5, SetValuesKeeps DEF EndPoll, IInv, TypeOK, ReadingHonest
      <4> QED  BY <4>1, <4>2
    <3> QED  BY <3>3, <3>4, <3>5 DEF IInv, ReadingHonest
  <2>3. CASE ~Usable(n, answer[n])
    <3>1. SetErrors(n, "failed") /\ EndPoll(n, "failed")
      BY <1>6, <2>3 DEF ObjectsRead
    <3>2. TypeOK' /\ ShownIsCurrent'
      BY <3>1, SetErrorsKeeps DEF EndPoll, IInv, TypeOK
    <3>3. WindowCovers' /\ ReadingHonest'
      BY <3>1, SetErrorsKeeps DEF EndPoll, IInv, TypeOK, WindowCovers, ReadingHonest
    <3> QED  BY <3>2, <3>3 DEF IInv
  <2> QED  BY <2>2, <2>3
<1>7. ASSUME NEW n \in Networks, RequestFails(n) PROVE IInv'
  <2>1. SetErrors(n, "failed") /\ EndPoll(n, "failed")
    BY <1>7 DEF RequestFails
  <2>2. TypeOK' /\ ShownIsCurrent'
    BY <2>1, SetErrorsKeeps DEF EndPoll, IInv, TypeOK
  <2>3. WindowCovers' /\ ReadingHonest'
    BY <2>1, SetErrorsKeeps DEF EndPoll, IInv, TypeOK, WindowCovers, ReadingHonest
  <2> QED  BY <2>2, <2>3 DEF IInv
<1>8. ASSUME NEW n \in Networks, PollDies(n) PROVE IInv'
  BY <1>8 DEF PollDies, IInv, TypeOK, WindowCovers, ReadingHonest, ShownIsCurrent, View
<1>9. ASSUME NEW n \in Networks, Cancelled(n) PROVE IInv'
  BY <1>9 DEF Cancelled, IInv, TypeOK, WindowCovers, ReadingHonest, ShownIsCurrent, View
<1>10. ASSUME NEW n \in Networks, NacChanges(n) PROVE IInv'
  BY <1>10 DEF NacChanges, IInv, TypeOK, WindowCovers, ReadingHonest, ShownIsCurrent, View
<1>11. ASSUME NEW s \in Sensors, EntityAdded(s) \/ EntityRemoved(s) PROVE IInv'
  <2>1. TypeOK'
    BY <1>11 DEF EntityAdded, EntityRemoved, IInv, TypeOK, Shown, View
  <2>2. ShownIsCurrent'
    BY <1>11, EnabledAssumption
    DEF EntityAdded, EntityRemoved, IInv, TypeOK, ShownIsCurrent, View
  <2> QED
    BY <1>11, <2>1, <2>2 DEF EntityAdded, EntityRemoved, IInv, WindowCovers, ReadingHonest
<1>12. ASSUME NEW s \in Sensors, ObjectChanges(s) PROVE IInv'
  <2>1. TypeOK'
    BY <1>12 DEF ObjectChanges, IInv, TypeOK, Objects
  <2>2. WindowCovers'
    BY <1>12 DEF ObjectChanges, IInv, TypeOK, Objects, WindowCovers
  <2>3. ReadingHonest'
    BY <1>12 DEF ObjectChanges, IInv, TypeOK, ReadingHonest
  <2> QED  BY <1>12, <2>1, <2>2, <2>3 DEF ObjectChanges, IInv, ShownIsCurrent, View
<1>13. CASE UNCHANGED vars
  BY <1>13 DEF vars, IInv, TypeOK, WindowCovers, ReadingHonest, ShownIsCurrent, View
<1> QED
  BY <1>1, <1>2, <1>3, <1>4, <1>5, <1>6, <1>7, <1>8, <1>9, <1>10, <1>11, <1>12, <1>13
  DEF Next

LEMMA IInvAlways == Spec => []IInv
BY IInvInit, IInvNext, PTL DEF Spec

\* The types, and an available sensor has a value and no error, whatever the NACs
\* answer and whenever the entities come and go.
THEOREM TypeCorrect == Spec => []TypeOK
BY IInvAlways, PTL DEF IInv

\* No sensor is available with a value that its own NAC did not export during the
\* last request, for any number of networks, sensors and polls.
THEOREM ReadingsHonest == Spec => []ReadingHonest
BY IInvAlways, PTL DEF IInv

\* What an illuminance entity shows is never behind the state of the runtime.
THEOREM IlluminanceShown == Spec => []ShownIsCurrent
BY IInvAlways, PTL DEF IInv
=============================================================================
