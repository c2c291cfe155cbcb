------------------------------ MODULE MCMeeting ------------------------------
(* Instances of Meeting for TLC.                                           *)
EXTENDS Meeting, TLC

(* Requests, profiles, identifiers of ads and contents are interchangeable: *)
(* nothing orders or names them.  Used for safety only.                     *)
Symmetry == Permutations(Requests) \cup Permutations(Profiles)
            \cup Permutations(Ads) \cup Permutations(Texts)

OwnerOps == AdOps
GuestOps == {"Create"} \cup LikeOps
WaitingOps == {"Create", "Update", "Delete"}
=============================================================================
