------------------------------- MODULE Router -------------------------------
(***************************************************************************)
(* bot.Resolve: which handler a message goes to, given the stage the user  *)
(* is in.  A message is one of the buttons the bot shows, a command, a     *)
(* list of letters, a run length, or anything else, which is looked up.    *)
(* A command of an admin goes before the stage; sent by anybody else, it   *)
(* is any other text.                                                      *)
(***************************************************************************)
EXTENDS Practice

Stages == {"start", "main_menu", "words", "practice_menu",
           "practice_readiness", "game"}

Buttons == {"/start", "faster", "menu", "practice", "back", "letters",
            "yes", "download", "all_words", "finish", "admin", "other"}

(* A message: a button (or free text), or a run length typed or pressed.   *)
Texts == [button: Buttons] \cup [size: Sizes]

Is(text, buttons) == \E b \in buttons : text = [button |-> b]

IsRunLength(text) == \E n \in Sizes : text = [size |-> n]

(* An empty route ("none") is a message the bot ignores.                   *)
Resolve(stage, text) ==
    IF Is(text, {"admin"}) THEN "admin"
    ELSE IF stage = "game"
    THEN IF Is(text, {"finish"}) THEN "practice.finish" ELSE "none"
    ELSE CASE Is(text, {"/start"})           -> "start"
           [] Is(text, {"faster", "menu"})   -> "menu"
           [] Is(text, {"practice", "back"}) -> "practice.menu"
           [] Is(text, {"letters"})          -> "words.letters"
           [] stage = "practice_menu" /\ IsRunLength(text)
                                             -> "practice.size"
           [] stage = "practice_readiness" /\ Is(text, {"yes"})
                                             -> "practice.start"
           [] stage = "main_menu" /\ Is(text, {"download"})
                                             -> "download"
           [] stage = "main_menu" /\ Is(text, {"all_words"})
                                             -> "words.menu"
           [] OTHER                          -> "words.lookup"

=============================================================================
