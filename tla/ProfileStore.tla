------------------------------ MODULE ProfileStore ------------------------------
(***************************************************************************)
(* ProfileStore.swift: the uploaded profiles, the selected one, and their  *)
(* copy in UserDefaults.  A profile stands for its UUID; the names and the *)
(* credentials that renameProfile and updateCredentials change are         *)
(* abstracted away.  The handlers are operators; VPNApp says who calls     *)
(* them and when.                                                          *)
(***************************************************************************)
EXTENDS Naturals, Sequences

CONSTANTS
    Profile,   \* the UUIDs a profile can get
    NoProfile  \* the nil selectedProfileID

ASSUME NoProfileAssumption == NoProfile \notin Profile

VARIABLES
    profiles,          \* profiles
    selectedProfileID, \* selectedProfileID
    stored             \* UserDefaults: profilesKey and selectedKey

storeVars == <<profiles, selectedProfileID, stored>>

Elements(s) == {s[i] : i \in DOMAIN s}
First(s) == IF s = <<>> THEN NoProfile ELSE s[1]

Save(ps, s) == [profiles |-> ps, selected |-> s]

StoreInit ==
    /\ profiles = <<>>
    /\ selectedProfileID = NoProfile
    /\ stored = Save(<<>>, NoProfile)

(* What every mutating handler ends with: the assignments, then save().    *)
Update(ps, s) ==
    /\ profiles' = ps
    /\ selectedProfileID' = s
    /\ stored' = Save(ps, s)

addProfile(p) ==
    Update(Append(profiles, p), IF profiles = <<>> THEN p ELSE selectedProfileID)

removeProfile(p) ==
    LET left == SelectSeq(profiles, LAMBDA q : q # p)
    IN  Update(left, IF selectedProfileID = p THEN First(left) ELSE selectedProfileID)

\* A selection that is not saved.
MutSelectUnsaved(p) ==
    selectedProfileID' = p /\ UNCHANGED <<profiles, stored>>

selectProfile(p) == Update(profiles, p)

(* A new process: init() calls load().                                     *)
load ==
    /\ profiles' = stored.profiles
    /\ selectedProfileID' = IF stored.selected \in Elements(stored.profiles)
                              THEN stored.selected
                              ELSE First(stored.profiles)
    /\ UNCHANGED stored

(* A relaunch gives back exactly the list the user left, and the selection *)
(* unless its profile is gone (save, ProfileStore.swift 134-147, must have *)
(* been called by whoever changed them).                                   *)
Restored ==
    /\ profiles = stored.profiles
    /\ selectedProfileID = stored.selected
           \/ stored.selected \notin Elements(stored.profiles)
================================================================================
