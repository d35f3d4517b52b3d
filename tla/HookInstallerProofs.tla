------------------------ MODULE HookInstallerProofs ------------------------
(***************************************************************************)
(* Safety of the patching for every plan of sites, every layout of them on *)
(* pages, every order of taking them out, and any number and kind of       *)
(* failures.                                                               *)
(***************************************************************************)
EXTENDS HookInstaller, TLAPS

Terminal == {"refused", "removed"}
GoingDown == {"rollback", "remove"}

(* A site that carries the mod's code is known as installed or given up.   *)
PatchedIsKnown == jump \subseteq installed \cup stuck

(* Installing goes up: what lies below is installed, and nothing failed.   *)
(* Taking out goes down: what is installed and passed is given up.         *)
Progress ==
  /\ phase = "install" => installed = 1 .. next - 1 /\ stuck = {} /\ sealed = {}
  /\ phase = "live" =>
       installed = Sites /\ stuck = {} /\ sealed = {} /\ next = Len(Plan)
  /\ phase \in GoingDown =>
       \A i \in installed : Place[i] > next <=> i \in stuck
  /\ phase \in Terminal => installed \subseteq stuck

(* Below a site that was ever written everything was installed, and still  *)
(* is where the removal has not come by.                                   *)
Contiguous ==
  phase \in GoingDown =>
    \A k \in installed \cup stuck, j \in Sites :
      j < k /\ Place[j] <= next => j \in installed

(* A page without execution holds a site given up, and so is every earlier *)
(* one that was to be taken out after it and has been passed.              *)
SealedHeld ==
  \A p \in sealed :
    \E k \in stuck :
      /\ p \in PagesOf[k]
      /\ \A j \in Sites :
           /\ j <= k /\ p \in PagesOf[j] /\ Place[j] <= Place[k]
           /\ phase \in Terminal \/ Place[j] > next
           => j \in stuck

(* The abandoned jump lies above what is installed, and without execution  *)
(* unless an earlier site shares a page with it.                           *)
AbandonedInert ==
  \A i \in Abandoned :
    /\ \A k \in installed : k < i
    /\ (\E k \in Sites : k < i /\ SharePage(i, k)) \/ PagesOf[i] \subseteq sealed

(* Every installed jump has its way back; entries and the tail until the   *)
(* very end.                                                               *)
WaysKept ==
  \A i \in jump \cap installed \cap NeedWayBack :
    i \in Of("mid") \/ phase \notin Terminal => i \in wayBack

IInv ==
  TypeOK /\ PatchedIsKnown /\ Progress /\ Contiguous /\ SealedHeld
         /\ AbandonedInert /\ WaysKept

-----------------------------------------------------------------------------
(* The sites are numbered from 1, and there is one. *)
LEMMA SitesNumbered == Len(Plan) \in Nat \ {0} /\ Sites = 1 .. Len(Plan)
  BY HookConstants DEF Sites

(* Every site has a place of its own, and a page. *)
LEMMA Places ==
  /\ \A i \in Sites : Place[i] \in Sites /\ PagesOf[i] # {}
  /\ \A i, k \in Sites : Place[i] = Place[k] => i = k
  BY HookConstants DEF Sites

(* The three kinds that need a way back do not overlap. *)
LEMMA KindsApart ==
  \A i \in Sites : /\ i \in Of("mid") => i \notin Of("entry") \cup Of("tail")
                   /\ i \in Of("tail") => i \notin Relocated
  BY DEF Of, Relocated

(* Nothing is patched before the first install. *)
LEMMA InitIInv == Init => IInv
<1> SUFFICES ASSUME Init PROVE IInv
  OBVIOUS
<1>1. TypeOK
  BY SitesNumbered, HookConstants DEF Init, TypeOK
<1>2. PatchedIsKnown /\ Progress /\ Contiguous /\ SealedHeld /\ AbandonedInert
      /\ WaysKept
  BY DEF Init, PatchedIsKnown, Progress, Contiguous, SealedHeld, AbandonedInert,
     Abandoned, WaysKept, Terminal, GoingDown
<1> QED BY <1>1, <1>2 DEF IInv

(* A failure is counted within its bound. *)
LEMMA FailureCounted ==
  ASSUME NEW k, failed \in 0 .. FailuresMax, Fails(k)
  PROVE  failed' \in 0 .. FailuresMax
  BY HookConstants DEF Fails

(* A successful install leaves the invariant. *)
LEMMA InstallKeeps ==
  ASSUME IInv, NEW i \in Sites, InstallSucceeds(i)
  PROVE  IInv'
<1> USE DEF IInv, InstallSucceeds, Installing, MakeExecutable
<1>1. /\ phase = "install" /\ next = i /\ i \in 1 .. Len(Plan)
      /\ installed = 1 .. i - 1 /\ stuck = {} /\ sealed = {}
      /\ installed' = 1 .. i /\ stuck' = {} /\ sealed' = {}
      /\ phase' \in {"install", "live"}
  BY SitesNumbered DEF Progress
<1>2. TypeOK'
  BY <1>1, SitesNumbered, HookConstants DEF TypeOK, NeedWayBack, Relocated
<1>3. PatchedIsKnown'
  BY DEF PatchedIsKnown
<1>4. Progress'
  BY <1>1, SitesNumbered DEF Progress, TypeOK, Terminal, GoingDown
<1>5. Contiguous' /\ SealedHeld' /\ AbandonedInert'
  BY <1>1 DEF Contiguous, SealedHeld, AbandonedInert, Abandoned, GoingDown
<1>6. WaysKept'
  BY DEF WaysKept, Terminal, TypeOK, PatchedIsKnown, Progress
<1> QED BY <1>2, <1>3, <1>4, <1>5, <1>6

(* Whatever makes an install fail, the rollback starts from the invariant. *)
LEMMA RefuseKeeps ==
  ASSUME IInv, NEW i \in Sites,
         \/ NoTrampoline(i) \/ InstallCannotWrite(i)
         \/ InstallCannotSeal(i) \/ NotTheGuard(i)
  PROVE  IInv'
<1> USE DEF IInv, Refuse, Installing, LeaveWritable
<1>1. /\ phase = "install" /\ next = i /\ Refuse(i)
      /\ failed' \in 0 .. FailuresMax
      /\ \/ UNCHANGED <<jump, sealed, stuck>>
         \/ /\ jump' = jump \cup {i} /\ sealed' = sealed \cup PagesOf[i]
            /\ stuck' = stuck \cup {i}
  BY FailureCounted DEF NoTrampoline, InstallCannotWrite, InstallCannotSeal,
     NotTheGuard, TypeOK
<1>2. /\ installed = 1 .. i - 1 /\ stuck = {} /\ sealed = {}
      /\ installed' = installed /\ phase' = "rollback" /\ next' = Len(Plan)
      /\ \/ stuck' = {} /\ sealed' = {} /\ jump' = jump
         \/ stuck' = {i} /\ sealed' = PagesOf[i] /\ jump' = jump \cup {i}
  BY <1>1 DEF Progress
<1>3. TypeOK'
  <2>1. /\ phase' = "rollback" /\ next' \in Sites
        /\ mapped' = installed' \cap Relocated /\ installed' \subseteq Sites
    BY <1>1, SitesNumbered DEF TypeOK
  <2>2. jump' \subseteq Sites /\ sealed' \subseteq Pages /\ stuck' \subseteq Sites
    BY <1>2 DEF TypeOK, Pages
  <2>3. wayBack' \subseteq NeedWayBack
    BY <1>1 DEF TypeOK, NeedWayBack
  <2> QED BY <1>1, <2>1, <2>2, <2>3 DEF TypeOK
<1>4. PatchedIsKnown'
  BY <1>2 DEF PatchedIsKnown
<1>5. \A j \in Sites : j \in Nat /\ Place[j] \in 1 .. Len(Plan)
  BY Places, SitesNumbered
<1>6. Progress'
  <2>1. \A j \in installed' : ~(Place[j] > next') /\ j \notin stuck'
    BY <1>2, <1>5, SitesNumbered DEF TypeOK
  <2> QED BY <1>2, <2>1 DEF Progress, Terminal, GoingDown
<1>7. Contiguous'
  BY <1>2, SitesNumbered DEF Contiguous
<1>8. SealedHeld'
  <2> SUFFICES ASSUME NEW p \in sealed'
               PROVE  \E k \in stuck' :
                        /\ p \in PagesOf[k]
                        /\ \A j \in Sites : ~(phase' \in Terminal \/ Place[j] > next')
    BY DEF SealedHeld
  <2>1. stuck' = {i} /\ p \in PagesOf[i]
    BY <1>2
  <2>2. \A j \in Sites : ~(phase' \in Terminal \/ Place[j] > next')
    BY <1>2, <1>5, SitesNumbered DEF Terminal
  <2> QED BY <2>1, <2>2
<1>9. AbandonedInert'
  BY <1>2, SitesNumbered DEF AbandonedInert, Abandoned
<1>10. WaysKept'
  BY <1>1, <1>2, SitesNumbered DEF WaysKept, Terminal, TypeOK
<1> QED BY <1>3, <1>4, <1>6, <1>7, <1>8, <1>9, <1>10

(* One place down.  The site is taken out, or it is given up; one that was *)
(* not installed has nothing below it that should have been.               *)
LEMMA ProceedKeeps ==
  ASSUME IInv, NEW i \in Sites, TakingOut(i), Proceed,
         \/ installed' = installed \ {i} /\ stuck' = stuck
         \/ i \in installed /\ installed' = installed /\ stuck' = stuck \cup {i}
  PROVE  /\ Progress' /\ Contiguous'
         /\ phase \in GoingDown /\ phase' \in GoingDown \cup Terminal
         /\ next' \in Sites
         /\ (phase' \in Terminal <=> next = 1)
         /\ \A j \in Sites : (phase' \in Terminal \/ Place[j] > next')
                               <=> (j = i \/ Place[j] > next)
         /\ Abandoned' = Abandoned
<1> USE DEF IInv, TakingOut
<1>1. /\ phase \in GoingDown /\ next = Place[i] /\ next \in 1 .. Len(Plan)
      /\ \A j \in Sites : j \in Nat /\ Place[j] \in 1 .. Len(Plan)
  BY Places, SitesNumbered DEF GoingDown
<1>2. installed \subseteq Sites /\ stuck \subseteq Sites
  BY DEF TypeOK
<1>3. i \notin installed \cap stuck
  BY <1>1, <1>2 DEF Progress
<1>4. Abandoned' = Abandoned
  BY <1>3 DEF Abandoned
<1>5. \A j \in installed' : (j = i \/ Place[j] > next) <=> j \in stuck'
  BY <1>1, <1>2, <1>3 DEF Progress
<1>6. CASE next = 1
  <2>1. phase' \in Terminal /\ phase' \notin GoingDown /\ next' \in Sites
        /\ phase' # "install" /\ phase' # "live"
    BY <1>1, <1>6, SitesNumbered DEF Proceed, Terminal, GoingDown
  <2>2. \A j \in Sites : j = i \/ Place[j] > next
    <3>1. \A j \in Sites : Place[j] = 1 \/ Place[j] > 1
      BY <1>1
    <3> QED BY <1>1, <1>6, <3>1, Places
  <2>3. Progress'
    <3>1. installed' \subseteq Sites /\ \A j \in installed' : j \in stuck'
      BY <1>2, <1>5, <2>2
    <3> QED BY <2>1, <3>1 DEF Progress
  <2>4. Contiguous'
    BY <2>1 DEF Contiguous
  <2>5. phase \in GoingDown /\ \A j \in Sites : phase' \in Terminal
    BY <1>1, <2>1
  <2> QED BY <1>1, <1>4, <1>6, <2>1, <2>2, <2>3, <2>4, <2>5
<1>7. CASE next # 1
  <2>1. next' = next - 1 /\ phase' = phase /\ next' \in Sites
    BY <1>1, <1>7, SitesNumbered DEF Proceed
  <2>2. \A j \in Sites : Place[j] > next' <=> (j = i \/ Place[j] > next)
    BY <1>1, <2>1, Places
  <2>3. phase' \notin Terminal /\ phase' # "install" /\ phase' # "live"
    BY <1>1, <2>1 DEF Terminal, GoingDown
  <2>4. Progress'
    BY <1>2, <1>5, <2>2, <2>3 DEF Progress
  <2>5. Contiguous'
    <3> SUFFICES ASSUME NEW k \in installed' \cup stuck', NEW j \in Sites,
                        j < k, Place[j] <= next'
                 PROVE  j \in installed'
      BY DEF Contiguous
    <3>1. k \in installed \cup stuck /\ Place[j] <= next /\ j # i
      BY <1>1, <2>1
    <3> QED BY <1>1, <3>1 DEF Contiguous
  <2> QED BY <1>1, <1>4, <1>7, <2>1, <2>2, <2>3, <2>4, <2>5
<1> QED BY <1>6, <1>7

(* A page that stays without execution keeps the site that holds it.       *)
LEMMA HeldOn ==
  ASSUME IInv, NEW i \in Sites, phase \in GoingDown, stuck \subseteq stuck',
         next = Place[i],
         \A j \in Sites : (phase' \in Terminal \/ Place[j] > next')
                            <=> (j = i \/ Place[j] > next),
         NEW p \in sealed,
         i \in stuck' \/ p \notin PagesOf[i] \/ i \notin installed
  PROVE  \E k \in stuck' :
           /\ p \in PagesOf[k]
           /\ \A j \in Sites :
                /\ j <= k /\ p \in PagesOf[j] /\ Place[j] <= Place[k]
                /\ phase' \in Terminal \/ Place[j] > next'
                => j \in stuck'
<1>1. PICK k \in stuck :
        /\ p \in PagesOf[k]
        /\ \A j \in Sites :
             /\ j <= k /\ p \in PagesOf[j] /\ Place[j] <= Place[k]
             /\ phase \in Terminal \/ Place[j] > next
             => j \in stuck
  BY DEF IInv, SealedHeld
<1>2. k \in Sites /\ k \in Nat /\ i \in Nat /\ Place[i] \in Nat
  BY Places, SitesNumbered DEF IInv, TypeOK
<1>3. ASSUME i <= k, p \in PagesOf[i]
      PROVE  i \in stuck'
  <2>1. CASE i = k
    BY <2>1
  <2>2. CASE i < k
    <3>1. i \in installed
      BY <1>2, <2>2 DEF IInv, Contiguous
    <3> QED BY <1>3, <3>1
  <2> QED BY <1>2, <1>3, <2>1, <2>2
<1>4. ASSUME NEW j \in Sites,
             j <= k, p \in PagesOf[j], Place[j] <= Place[k],
             phase' \in Terminal \/ Place[j] > next'
      PROVE  j \in stuck'
  <2>1. j = i \/ Place[j] > next
    BY <1>4
  <2>2. CASE j = i
    BY <1>3, <1>4, <2>2
  <2>3. CASE Place[j] > next
    BY <1>1, <1>4, <2>3
  <2> QED BY <2>1, <2>2, <2>3
<1>5. k \in stuck'
  OBVIOUS
<1> QED BY <1>1, <1>4, <1>5

(* A site that is put back is no longer one of the mod's, and its pages    *)
(* are executable; one that was not installed is left as it is.            *)
LEMMA RestoreKeeps ==
  ASSUME IInv, NEW i \in Sites, TakeOutSucceeds(i) \/ NothingToTakeOut(i)
  PROVE  IInv'
<1> USE DEF IInv, Restored
<1>1. /\ TakingOut(i) /\ Restored(i) /\ Proceed /\ failed' = failed
      /\ \/ i \in installed /\ jump' = jump \ {i} /\ sealed' = sealed \ PagesOf[i]
         \/ i \notin installed /\ UNCHANGED <<jump, sealed>>
  BY DEF TakeOutSucceeds, NothingToTakeOut, MakeExecutable
<1>2. /\ Progress' /\ Contiguous'
      /\ phase \in GoingDown /\ phase' \in GoingDown \cup Terminal
      /\ next' \in Sites /\ (phase' \in Terminal <=> next = 1)
      /\ \A j \in Sites : (phase' \in Terminal \/ Place[j] > next')
                            <=> (j = i \/ Place[j] > next)
      /\ Abandoned' = Abandoned
  BY <1>1, ProceedKeeps
<1>3. TypeOK'
  BY <1>1, <1>2 DEF TypeOK, GoingDown, Terminal
<1>4. PatchedIsKnown'
  BY <1>1 DEF PatchedIsKnown
<1>5. SealedHeld'
  <2> SUFFICES ASSUME NEW p \in sealed'
               PROVE  \E k \in stuck' :
                        /\ p \in PagesOf[k]
                        /\ \A j \in Sites :
                             /\ j <= k /\ p \in PagesOf[j] /\ Place[j] <= Place[k]
                             /\ phase' \in Terminal \/ Place[j] > next'
                             => j \in stuck'
    BY DEF SealedHeld
  <2>1. p \in sealed /\ (p \notin PagesOf[i] \/ i \notin installed)
    BY <1>1
  <2>2. stuck \subseteq stuck' /\ next = Place[i]
    BY <1>1 DEF TakingOut
  <2> QED BY <1>2, <2>1, <2>2, HeldOn
<1>6. AbandonedInert'
  <2> SUFFICES ASSUME NEW a \in Abandoned
               PROVE  /\ \A k \in installed' : k < a
                      /\ \/ \E k \in Sites : k < a /\ SharePage(a, k)
                         \/ PagesOf[a] \subseteq sealed'
    BY <1>2 DEF AbandonedInert
  <2>1. /\ \A k \in installed : k < a
        /\ (\E k \in Sites : k < a /\ SharePage(a, k)) \/ PagesOf[a] \subseteq sealed
    BY DEF AbandonedInert
  <2>2. CASE i \in installed
    BY <1>1, <2>1, <2>2 DEF SharePage
  <2>3. CASE i \notin installed
    BY <1>1, <2>1, <2>3
  <2> QED BY <2>2, <2>3
<1>7. WaysKept'
  <2> SUFFICES ASSUME NEW j \in jump' \cap installed' \cap NeedWayBack,
                      j \in Of("mid") \/ phase' \notin Terminal
               PROVE  j \in wayBack'
    BY DEF WaysKept
  <2>1. j \in jump \cap installed /\ j # i /\ j \in Sites
    BY <1>1 DEF TypeOK
  <2>2. j \in wayBack
    BY <1>2, <2>1 DEF WaysKept, GoingDown, Terminal
  <2>3. j \notin AtTheEnd
    BY <1>2, <2>1, KindsApart DEF AtTheEnd
  <2> QED BY <1>1, <2>1, <2>2, <2>3
<1> QED BY <1>2, <1>3, <1>4, <1>5, <1>6, <1>7

(* A site that could not be put back is on record. *)
LEMMA StuckKeeps ==
  ASSUME IInv, NEW i \in Sites, TakeOutCannotWrite(i) \/ TakeOutCannotSeal(i)
  PROVE  IInv'
<1> USE DEF IInv, Stuck
<1>1. /\ TakingOut(i) /\ i \in installed /\ Stuck(i) /\ Proceed
      /\ failed' \in 0 .. FailuresMax
      /\ \/ UNCHANGED <<jump, sealed>>
         \/ jump' = jump \ {i} /\ sealed' = sealed \cup PagesOf[i]
  BY FailureCounted DEF TakeOutCannotWrite, TakeOutCannotSeal, TypeOK, LeaveWritable
<1>2. /\ Progress' /\ Contiguous'
      /\ phase \in GoingDown /\ phase' \in GoingDown \cup Terminal
      /\ next' \in Sites /\ (phase' \in Terminal <=> next = 1)
      /\ \A j \in Sites : (phase' \in Terminal \/ Place[j] > next')
                            <=> (j = i \/ Place[j] > next)
      /\ Abandoned' = Abandoned
  BY <1>1, ProceedKeeps
<1>3. TypeOK'
  BY <1>1, <1>2 DEF TypeOK, GoingDown, Terminal, Pages
<1>4. PatchedIsKnown'
  BY <1>1 DEF PatchedIsKnown
<1>5. SealedHeld'
  <2> SUFFICES ASSUME NEW p \in sealed'
               PROVE  \E k \in stuck' :
                        /\ p \in PagesOf[k]
                        /\ \A j \in Sites :
                             /\ j <= k /\ p \in PagesOf[j] /\ Place[j] <= Place[k]
                             /\ phase' \in Terminal \/ Place[j] > next'
                             => j \in stuck'
    BY DEF SealedHeld
  <2>1. i \in stuck' /\ stuck \subseteq stuck' /\ next = Place[i]
    BY <1>1 DEF TakingOut
  <2>2. CASE p \in sealed
    BY <1>2, <2>1, <2>2, HeldOn
  <2>3. CASE p \notin sealed
    <3>1. p \in PagesOf[i]
      BY <1>1, <2>3
    <3>2. ASSUME NEW j \in Sites, Place[j] <= Place[i],
                 phase' \in Terminal \/ Place[j] > next'
          PROVE  j \in stuck'
      <4>1. j = i \/ Place[j] > Place[i]
        BY <1>2, <2>1, <3>2
      <4>2. Place[j] \in Nat /\ Place[i] \in Nat
        BY Places, SitesNumbered
      <4> QED BY <2>1, <3>2, <4>1, <4>2
    <3> QED BY <2>1, <3>1, <3>2
  <2> QED BY <2>2, <2>3
<1>6. AbandonedInert'
  BY <1>1, <1>2 DEF AbandonedInert
<1>7. WaysKept'
  <2> SUFFICES ASSUME NEW j \in jump' \cap installed' \cap NeedWayBack,
                      j \in Of("mid") \/ phase' \notin Terminal
               PROVE  j \in wayBack'
    BY DEF WaysKept
  <2>1. j \in jump \cap installed /\ j \in Sites
    BY <1>1 DEF TypeOK
  <2>2. j \in wayBack
    BY <1>2, <2>1 DEF WaysKept, GoingDown, Terminal
  <2>3. j \notin AtTheEnd
    BY <1>2, <2>1, KindsApart DEF AtTheEnd
  <2> QED BY <1>1, <2>2, <2>3
<1> QED BY <1>2, <1>3, <1>4, <1>5, <1>6, <1>7

(* The invariant is kept by every step, one lemma per kind of step. *)
LEMMA StepKeeps == IInv /\ [Next]_vars => IInv'
<1> SUFFICES ASSUME IInv, [Next]_vars PROVE IInv'
  OBVIOUS
<1> USE DEF IInv
<1>1. CASE RefuseBeforehand
  <2>1. installed = {} /\ stuck = {} /\ sealed = {} /\ jump = {}
    BY <1>1, SitesNumbered DEF RefuseBeforehand, Installing, Progress, PatchedIsKnown
  <2>2. UNCHANGED <<next, code, failed, stuck>> /\ phase' = "refused"
    BY <1>1 DEF RefuseBeforehand
  <2>3. TypeOK' /\ PatchedIsKnown' /\ Progress'
    BY <2>1, <2>2 DEF code, TypeOK, PatchedIsKnown, Progress, Terminal, GoingDown
  <2>4. Contiguous' /\ SealedHeld' /\ AbandonedInert' /\ WaysKept'
    BY <2>1, <2>2 DEF code, Contiguous, SealedHeld, AbandonedInert, Abandoned,
       WaysKept, GoingDown
  <2> QED BY <2>3, <2>4
<1>2. CASE RemovalBegins
  <2>1. /\ phase = "live" /\ phase' = "remove" /\ UNCHANGED <<next, code, failed, stuck>>
        /\ installed = Sites /\ stuck = {} /\ sealed = {} /\ next = Len(Plan)
    BY <1>2 DEF RemovalBegins, Progress
  <2>2. TypeOK' /\ PatchedIsKnown' /\ WaysKept'
    BY <2>1 DEF code, TypeOK, PatchedIsKnown, WaysKept, Terminal
  <2>3. \A i \in Sites : ~(Place[i] > next)
    BY <2>1, Places, SitesNumbered
  <2>4. Progress' /\ Contiguous' /\ SealedHeld' /\ AbandonedInert'
    BY <2>1, <2>3 DEF code, Progress, Terminal, GoingDown, Contiguous, SealedHeld,
       AbandonedInert, Abandoned
  <2> QED BY <2>2, <2>4
<1>3. ASSUME NEW i \in Sites, InstallSucceeds(i) PROVE IInv'
  BY <1>3, InstallKeeps
<1>4. ASSUME NEW i \in Sites,
             \/ NoTrampoline(i) \/ InstallCannotWrite(i)
             \/ InstallCannotSeal(i) \/ NotTheGuard(i)
      PROVE  IInv'
  BY <1>4, RefuseKeeps
<1>5. ASSUME NEW i \in Sites, TakeOutSucceeds(i) \/ NothingToTakeOut(i) PROVE IInv'
  BY <1>5, RestoreKeeps
<1>6. ASSUME NEW i \in Sites, TakeOutCannotWrite(i) \/ TakeOutCannotSeal(i)
      PROVE  IInv'
  BY <1>6, StuckKeeps
<1>7. CASE UNCHANGED vars
  BY <1>7 DEF vars, code, TypeOK, PatchedIsKnown, Progress, Contiguous, SealedHeld,
     AbandonedInert, Abandoned, WaysKept
<1> QED BY <1>1, <1>2, <1>3, <1>4, <1>5, <1>6, <1>7 DEF Next

(* Every reachable state of every plan and layout satisfies it. *)
THEOREM InductiveInvariant == Spec => []IInv
<1>1. Init => IInv
  BY InitIInv
<1>2. IInv /\ [Next]_vars => IInv'
  BY StepKeeps
<1> QED BY <1>1, <1>2, PTL DEF Spec

-----------------------------------------------------------------------------
(* A trampoline stays mapped exactly as long as its hook counts as         *)
(* installed, whatever fails.                                              *)
THEOREM TypeCorrect == Spec => []TypeOK
<1>1. IInv => TypeOK
  BY DEF IInv
<1> QED BY <1>1, InductiveInvariant, PTL

(* After a refused install or a removal only sites whose own write failed  *)
(* are the mod's, and a page is left without execution only by such a site *)
(* behind which no earlier one of the page was put back.                   *)
THEOREM HandedBack == Spec => []CodeHandedBack
<1>1. ASSUME IInv, phase \in Terminal
      PROVE  CodeHandedBack
  <2>1. jump \cup mapped \subseteq stuck
    BY <1>1 DEF IInv, PatchedIsKnown, Progress, TypeOK
  <2>2. ASSUME NEW p \in sealed
        PROVE  \E k \in stuck :
                 /\ p \in PagesOf[k]
                 /\ \A j \in 1 .. k :
                      p \in PagesOf[j] /\ Place[j] <= Place[k] => j \in stuck
    <3>1. PICK k \in stuck :
            /\ p \in PagesOf[k]
            /\ \A j \in Sites :
                 j <= k /\ p \in PagesOf[j] /\ Place[j] <= Place[k] => j \in stuck
      BY <1>1 DEF IInv, SealedHeld
    <3>2. \A j \in 1 .. k : j \in Sites /\ j <= k
      BY <1>1, SitesNumbered DEF IInv, TypeOK
    <3> QED BY <3>1, <3>2
  <2> QED BY <2>1, <2>2 DEF CodeHandedBack
<1>2. IInv => CodeHandedBack
  BY <1>1 DEF CodeHandedBack, Terminal
<1> QED BY <1>2, InductiveInvariant, PTL

(* Every executable jump of the mod has a mapped and published way back,   *)
(* those of the mid hooks also after a failed removal, but for one that a  *)
(* failed install abandoned on a page of an earlier site.                  *)
LEMMA WaysFound == IInv => CallsFindTheirWay
<1> SUFFICES ASSUME IInv, NEW i \in jump \cap NeedWayBack, Executable(i)
             PROVE  \/ i \in Abandoned /\ \E k \in 1 .. i - 1 : SharePage(i, k)
                    \/ /\ i \in Relocated => i \in mapped
                       /\ i \in Of("mid") \/ phase \notin Terminal => i \in wayBack
  BY DEF CallsFindTheirWay, Terminal
<1>1. CASE i \in installed
  BY <1>1 DEF IInv, WaysKept, TypeOK
<1>2. CASE i \notin installed
  <2>1. i \in Abandoned /\ i \in Sites
    BY <1>2 DEF IInv, PatchedIsKnown, Abandoned, TypeOK
  <2>2. ~(PagesOf[i] \subseteq sealed)
    BY <2>1, Places DEF Executable
  <2>3. PICK k \in Sites : k < i /\ SharePage(i, k)
    BY <2>1, <2>2 DEF IInv, AbandonedInert
  <2>4. k \in 1 .. i - 1
    BY <2>1, <2>3, SitesNumbered
  <2> QED BY <2>1, <2>3, <2>4
<1> QED BY <1>1, <1>2

THEOREM WayBack == Spec => []CallsFindTheirWay
<1> QED BY WaysFound, InductiveInvariant, PTL

-----------------------------------------------------------------------------
(* Every site has its pages to itself. *)
PagesApart == \A i, k \in Sites : SharePage(i, k) => i = k

(* Sharing pages is the only cause of both refutations: with pages apart   *)
(* no call is lost, and no site suffers for the failed write of another.   *)
THEOREM PagesAreTheCause ==
  ASSUME PagesApart
  PROVE  Spec => [](CallsAlwaysFindTheirWay /\ NeighboursUnharmed)
<1>1. ASSUME IInv PROVE CallsAlwaysFindTheirWay
  <2> SUFFICES ASSUME NEW i \in jump \cap NeedWayBack, Executable(i)
               PROVE  /\ i \in Relocated => i \in mapped
                      /\ i \in Of("mid") \/ phase \notin {"refused", "removed"}
                           => i \in wayBack
    BY DEF CallsAlwaysFindTheirWay
  <2>1. i \in Sites
    BY <1>1 DEF IInv, TypeOK
  <2>2. ~\E k \in 1 .. i - 1 : SharePage(i, k)
    BY <2>1, SitesNumbered DEF PagesApart
  <2> QED BY <1>1, <2>2, WaysFound DEF CallsFindTheirWay
<1>2. ASSUME IInv PROVE NeighboursUnharmed
  <2> SUFFICES ASSUME NEW i \in Sites \ stuck, ~Executable(i) PROVE FALSE
    BY DEF NeighboursUnharmed
  <2>1. PICK p \in sealed : p \in PagesOf[i]
    BY DEF Executable
  <2>2. PICK k \in stuck : p \in PagesOf[k]
    BY <1>2, <2>1 DEF IInv, SealedHeld
  <2>3. k \in Sites /\ SharePage(i, k)
    BY <1>2, <2>1, <2>2 DEF IInv, TypeOK, SharePage
  <2> QED BY <2>2, <2>3 DEF PagesApart
<1> QED BY <1>1, <1>2, InductiveInvariant, PTL
=============================================================================
