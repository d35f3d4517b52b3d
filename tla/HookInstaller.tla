---------------------------- MODULE HookInstaller ----------------------------
(***************************************************************************)
(* The patched code.  InstallCameraHooks writes a jump over one site after *)
(* the other, rolls every site back when one fails, and RemoveCameraHooks  *)
(* takes them out again.  Every write of code makes the page writable,     *)
(* copies, and makes it executable again; each of the two protections can  *)
(* fail on its own, and so can the mapping of a trampoline.  Protection is *)
(* by the page: sites that share one share what a write leaves it with.    *)
(*                                                                         *)
(* A site is an "entry" hook, whose way back (gOriginal...) the caller     *)
(* publishes; a "mid" hook, whose trampoline is published for the assembly *)
(* detour; the "tail" hook, which re-enters the function behind the patch  *)
(* and needs no trampoline; or a "word", the keyboard-movement patch.      *)
(* The constructor installs before any game thread runs.                   *)
(***************************************************************************)
EXTENDS Naturals, Sequences

CONSTANTS
  Plan,         \* the kinds of the sites, in the order they are installed
  Place,        \* the place of each site when they are taken out, counted down
  PagesOf,      \* the pages the patch of each site lies on, one or two
  Failures,     \* what can fail: "map", "unprotect", "reprotect"
  FailuresMax   \* bound: how often something fails

ASSUME HookConstants ==
  /\ Plan \in Seq({"entry", "mid", "tail", "word"}) /\ Plan # <<>>
  /\ Place \in [DOMAIN Plan -> DOMAIN Plan]
  /\ \A n \in DOMAIN Plan : \E i \in DOMAIN Plan : Place[i] = n
  /\ \A i, k \in DOMAIN Plan : Place[i] = Place[k] => i = k
  /\ DOMAIN PagesOf = DOMAIN Plan
  /\ \A i \in DOMAIN Plan : PagesOf[i] # {}
  /\ Failures \subseteq {"map", "unprotect", "reprotect"}
  /\ FailuresMax \in Nat

VARIABLES
  phase,       \* "install", "rollback", "refused", "live", "remove", "removed"
  next,        \* the site that is installed next, or the place taken out next
  jump,        \* the sites whose code is the mod's
  sealed,      \* the pages left without execution
  installed,   \* hook.installed
  mapped,      \* the sites whose trampoline is mapped
  wayBack,     \* the sites whose way back is published
  failed,      \* failures so far
  stuck        \* history: the sites left half written or not taken out

code == <<jump, sealed, installed, mapped, wayBack>>
vars == <<phase, next, code, failed, stuck>>

Sites == DOMAIN Plan
Of(kind) == {i \in Sites : Plan[i] = kind}
Relocated == Of("entry") \cup Of("mid")
NeedWayBack == Relocated \cup Of("tail")

Pages == UNION {PagesOf[i] : i \in Sites}
Executable(i) == PagesOf[i] \cap sealed = {}
SharePage(i, k) == PagesOf[i] \cap PagesOf[k] # {}

(* SetCodeProtection of a site succeeds, or fails, for its pages as wholes. *)
MakeExecutable(i) == sealed' = sealed \ PagesOf[i]
LeaveWritable(i)  == sealed' = sealed \cup PagesOf[i]

Fails(kind) == kind \in Failures /\ failed < FailuresMax /\ failed' = failed + 1

-----------------------------------------------------------------------------
(* InstallInlineHook and InstallInstructionPatch.                          *)
Installing(i) == phase = "install" /\ next = i

InstallSucceeds(i) ==
  /\ Installing(i)
  /\ jump' = jump \cup {i} /\ installed' = installed \cup {i}
  /\ mapped' = IF i \in Relocated THEN mapped \cup {i} ELSE mapped
  /\ wayBack' = IF i \in NeedWayBack THEN wayBack \cup {i} ELSE wayBack
  /\ IF i = Len(Plan) THEN phase' = "live" /\ next' = Len(Plan)
                      ELSE next' = i + 1 /\ UNCHANGED phase
  /\ MakeExecutable(i)
  /\ UNCHANGED <<failed, stuck>>

(* gPitchTail is set before its hook is installed. *)
Refuse(i) ==
  /\ phase' = "rollback" /\ next' = Len(Plan)
  /\ wayBack' = IF i \in Of("tail") THEN wayBack \cup {i} ELSE wayBack
  /\ UNCHANGED <<installed, mapped>>

NoTrampoline(i) ==
  /\ Installing(i) /\ i \in Relocated /\ Fails("map")
  /\ Refuse(i)
  /\ UNCHANGED <<jump, sealed, stuck>>

InstallCannotWrite(i) ==
  /\ Installing(i) /\ Fails("unprotect")
  /\ Refuse(i)
  /\ UNCHANGED <<jump, sealed, stuck>>

(* The jump is written, then its pages cannot be made executable again.    *)
(* The hook does not count as installed: the rollback passes the site by.  *)
InstallCannotSeal(i) ==
  /\ Installing(i) /\ Fails("reprotect")
  /\ Refuse(i)
  /\ jump' = jump \cup {i} /\ LeaveWritable(i)
  /\ stuck' = stuck \cup {i}

(* A guard before the last write: the instruction is not CBZ W8. *)
NotTheGuard(i) ==
  /\ Installing(i) /\ i \in Of("word")
  /\ Refuse(i)
  /\ UNCHANGED <<jump, sealed, failed, stuck>>

(* A missing address, time base or instruction pair: nothing is written.   *)
RefuseBeforehand ==
  /\ Installing(1)
  /\ phase' = "refused"
  /\ UNCHANGED <<next, code, failed, stuck>>

-----------------------------------------------------------------------------
(* RemoveInlineHook and RemoveInstructionPatch, the same for the rollback  *)
(* and the removal.                                                        *)
TakingOut(i) == phase \in {"rollback", "remove"} /\ next = Place[i]

Proceed ==
  IF next = 1 THEN phase' = (IF phase = "rollback" THEN "refused" ELSE "removed")
                   /\ UNCHANGED next
              ELSE next' = next - 1 /\ UNCHANGED phase

(* The way back of a mid hook goes with its trampoline; those of the other *)
(* sites are forgotten at the end, whatever became of the sites.           *)
AtTheEnd == IF next = 1 THEN Of("entry") \cup Of("tail") ELSE {}

(* Variant: the trampoline is left mapped. *)
RestoredLeaks(i) ==
  /\ installed' = installed \ {i}
  /\ wayBack' = wayBack \ (AtTheEnd \cup ({i} \cap Of("mid")))
  /\ UNCHANGED <<mapped, stuck>>

Restored(i) ==
  /\ installed' = installed \ {i} /\ mapped' = mapped \ {i}
  /\ wayBack' = wayBack \ (AtTheEnd \cup ({i} \cap Of("mid")))
  /\ UNCHANGED stuck

(* Variant: a mid hook's way back is forgotten like the others. *)
StuckButForgotten(i) ==
  /\ stuck' = stuck \cup {i}
  /\ wayBack' = wayBack \ (AtTheEnd \cup {i})
  /\ UNCHANGED <<installed, mapped>>

Stuck(i) ==
  /\ stuck' = stuck \cup {i}
  /\ wayBack' = wayBack \ AtTheEnd
  /\ UNCHANGED <<installed, mapped>>

(* Variant: the hook is dropped without its bytes being put back. *)
TakeOutDrops(i) ==
  /\ TakingOut(i) /\ i \in installed
  /\ Restored(i) /\ Proceed
  /\ UNCHANGED <<jump, sealed, failed>>

TakeOutSucceeds(i) ==
  /\ TakingOut(i) /\ i \in installed
  /\ Restored(i) /\ Proceed
  /\ jump' = jump \ {i} /\ MakeExecutable(i)
  /\ UNCHANGED failed

(* Nothing is written where the hook does not count as installed. *)
NothingToTakeOut(i) ==
  /\ TakingOut(i) /\ i \notin installed
  /\ Restored(i) /\ Proceed
  /\ UNCHANGED <<jump, sealed, failed>>

TakeOutCannotWrite(i) ==
  /\ TakingOut(i) /\ i \in installed /\ Fails("unprotect")
  /\ Stuck(i) /\ Proceed
  /\ UNCHANGED <<jump, sealed>>

TakeOutCannotSeal(i) ==
  /\ TakingOut(i) /\ i \in installed /\ Fails("reprotect")
  /\ Stuck(i) /\ Proceed
  /\ jump' = jump \ {i} /\ LeaveWritable(i)

RemovalBegins ==
  /\ phase = "live"
  /\ phase' = "remove"
  /\ UNCHANGED <<next, code, failed, stuck>>

-----------------------------------------------------------------------------
Init ==
  /\ phase = "install" /\ next = 1
  /\ jump = {} /\ sealed = {} /\ installed = {} /\ mapped = {} /\ wayBack = {}
  /\ failed = 0 /\ stuck = {}

Next ==
  \/ RefuseBeforehand \/ RemovalBegins
  \/ \E i \in Sites :
       \/ InstallSucceeds(i) \/ NoTrampoline(i) \/ InstallCannotWrite(i)
       \/ InstallCannotSeal(i) \/ NotTheGuard(i)
       \/ TakeOutSucceeds(i) \/ NothingToTakeOut(i)
       \/ TakeOutCannotWrite(i) \/ TakeOutCannotSeal(i)

Spec == Init /\ [][Next]_vars

-----------------------------------------------------------------------------
(* Every variable holds a value of its kind, and a trampoline is mapped    *)
(* exactly as long as its hook counts as installed.                        *)
TypeOK ==
  /\ phase \in {"install", "rollback", "refused", "live", "remove", "removed"}
  /\ next \in Sites
  /\ jump \subseteq Sites /\ sealed \subseteq Pages /\ stuck \subseteq Sites
  /\ installed \subseteq Sites /\ wayBack \subseteq NeedWayBack
  /\ mapped = installed \cap Relocated
  /\ failed \in 0 .. FailuresMax

(* "The same transactional rollback": once an install was refused, or the  *)
(* hooks were removed, only a site whose own write or restore failed is    *)
(* still the mod's.  A page without execution holds such a site, and every *)
(* site of it that was installed before and taken out after that one is a  *)
(* failed one too: a later write that succeeds gives the whole page back.  *)
CodeHandedBack ==
  phase \in {"refused", "removed"} =>
    /\ jump \cup mapped \subseteq stuck
    /\ \A p \in sealed :
         \E k \in stuck :
           /\ p \in PagesOf[k]
           /\ \A j \in 1 .. k :
                p \in PagesOf[j] /\ Place[j] <= Place[k] => j \in stuck

(* The jump of a failed install, left behind by the rollback: its          *)
(* trampoline is unmapped and its way back was never published.            *)
Abandoned == stuck \ installed

(* A call that runs into the mod finds its way back into the game: its     *)
(* trampoline is mapped and published.  That is so for the mid hooks also  *)
(* when their removal failed; the others lose it at the very end.  The one *)
(* exception is a jump that a failed install abandoned, and only where a   *)
(* site that was installed before it shares a page with it.                *)
CallsFindTheirWay ==
  \A i \in jump \cap NeedWayBack :
    Executable(i) =>
      \/ i \in Abandoned /\ \E k \in 1 .. i - 1 : SharePage(i, k)
      \/ /\ i \in Relocated => i \in mapped
         /\ i \in Of("mid") \/ phase \notin {"refused", "removed"} => i \in wayBack

(* The same without the exception, as "the same transactional rollback"    *)
(* has it.  Refuted: the rollback's next write to the page makes an        *)
(* abandoned jump executable again.                                        *)
CallsAlwaysFindTheirWay ==
  \A i \in jump \cap NeedWayBack :
    Executable(i) =>
      /\ i \in Relocated => i \in mapped
      /\ i \in Of("mid") \/ phase \notin {"refused", "removed"} => i \in wayBack

(* A failed write harms no site but its own.  Refuted: the page of the     *)
(* failed one is left without execution, whatever else lies on it.         *)
NeighboursUnharmed ==
  phase \in {"refused", "removed"} => \A i \in Sites \ stuck : Executable(i)

(* "The game itself was not patched and may be played normally" is what    *)
(* the player reads after a refused install.                               *)
RefusedIsUnpatched == phase = "refused" => jump = {} /\ sealed = {}
=============================================================================
