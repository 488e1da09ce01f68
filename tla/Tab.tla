---------------------------------- MODULE Tab ----------------------------------
(* What the pages of one browser tab have in common. *)

CONSTANTS
    Groups,         \* of the user, who owns all of them
    None

ASSUME NoneAssumption == None \notin Groups

=============================================================================
