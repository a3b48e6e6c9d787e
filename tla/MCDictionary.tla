---------------------------- MODULE MCDictionary ----------------------------
(***************************************************************************)
(* The dictionary for TLC: lines in the shapes en_list has, about few      *)
(* words, so that they meet.  "among" and "ago" share a home slot.        *)
(***************************************************************************)
EXTENDS Dictionary

Words == {"among", "amongst", "ago", "made", "(of"}
Strings == {"a#mVN", "a#m0N", ",VNst", "m,eId", "a2goU", "%VvD@", "a#||waIl", "course)"}

MCHome == [w \in Words |->
             CASE w \in {"among", "ago"} -> 0 [] w = "made" -> 3 [] OTHER -> 1]
MCLower == [w \in Words \cup {"Ago", "of", "the", "etc."} |->
              IF w = "Ago" THEN "ago" ELSE w]
MCOpening == ("(of" :> "of") @@ ("(etc." :> "etc.")
MCClosing == ("the)" :> "the") @@ ("course)" :> "course")
MCDialects == ("?3" :> [cond |-> 3, negated |-> FALSE])
           @@ ("?!3" :> [cond |-> 3, negated |-> TRUE])
           @@ ("?2" :> [cond |-> 2, negated |-> FALSE])
MCSize == [w \in Words |-> CASE w = "among" -> 5 [] w = "amongst" -> 7
                              [] w = "ago" -> 3 [] OTHER -> 4]
MCLead == [s \in Strings |-> CASE s = ",VNst" -> "," [] s = "%VvD@" -> "%"
                               [] OTHER -> "none"]
MCMarks == [s \in Strings |-> CASE s \in {",VNst", "m,eId"} -> {","}
                                [] s = "%VvD@" -> {"%"} [] OTHER -> {}]
MCHalves == "a#||waIl" :> <<"a#", "waIl">>

(* "among" leaves a long rest of the first, "amongst" a short one.         *)
MCSplits == ("amongstago" :> {[prefix |-> "among", rest |-> NULL],
                              [prefix |-> "amongst", rest |-> "ago"]})
         @@ ("amongago" :> {[prefix |-> "among", rest |-> "ago"]})
         @@ ("agomade" :> {[prefix |-> "ago", rest |-> NULL]})

MCLines ==
  { <<"among", "a#mVN", "$strend2">>,
    <<"amongst", "a#mVN", "$strend2", "$u2", "$only">>,
    <<"amongst", ",VNst", "$strend2">>,
    <<"among", "a#m0N", "$strend2">>,
    <<"Ago", "a2goU", "$strend2">>,
    <<"ago", "a#mVN", "$onlys">>,
    <<"?3", "ago", "m,eId", "$onlys">>,
    <<"?!3", "ago", "a#mVN">>,
    <<"ago", "$alt1", "$2">>,
    <<"among", "$alt3">>,
    <<"made", "m,eId", "$u+", "$pastf">>,
    <<"made", "$verb", "$1", "$onlys">>,
    <<"ago", "a#mVN", "$noun", "$1">>,
    <<"ago", "a2goU", "$verb", "$past">>,
    <<"amongst", "a#mVN", "$verb", "$capital">>,
    <<"amongst", "a#mVN", "$atstart">>,
    <<"amongst", "a#mVN", "$sentence", "$capital">>,
    <<"(of", "the)", "%VvD@", "$u2+">>,
    <<"(of", "the)", "a#||waIl">>,
    <<"?3", "(of", "course)", "a#mVN">> }

=============================================================================
