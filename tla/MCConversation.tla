--------------------------- MODULE MCConversation ---------------------------
(***************************************************************************)
(* Instances of Conversation for TLC.  A catalogue is written out of the   *)
(* plain words and the stresses the configuration gives.                   *)
(***************************************************************************)
EXTENDS Conversation, TLC

CONSTANTS first, second     \* two ways to stress a word

(* Every word has one entry, the rest of its spellings are wrong options.  *)
PlainCatalog == Words \X {first}

(* One word more: some word is stressed either way, with an entry for each.*)
HomographCatalog ==
    PlainCatalog \cup {<<CHOOSE w \in Words : TRUE, second>>}

(* Every message the router tells apart.                                   *)
AllMessages == Texts

(* The messages that drive a run, and one that must not; the others only   *)
(* change menus.                                                           *)
RunMessages ==
    [button : {"practice", "yes", "finish", "admin"}] \cup [size : Sizes]

(* The words of a catalogue with one entry each are interchangeable.       *)
WordSymmetry == Permutations(Words)

=============================================================================
