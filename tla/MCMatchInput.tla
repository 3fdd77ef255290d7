---------------------------- MODULE MCMatchInput ----------------------------
(* Every kind of prompt, over two creatures on each side and two cards in    *)
(* hand; two target prompts that allow different targets, and two attacker,  *)
(* two blocker and two damage prompts that differ.                           *)
EXTENDS MatchInput

Own == {"bear", "wall"}
Other == {"imp", "ogre"}
Cards == {"forest", "bolt"}

Asks ==
  {[kind |-> "priority", castable |-> {"bolt"}, canLand |-> TRUE,
    activatable |-> {"wall"}],
   [kind |-> "yes_no"],
   [kind |-> "attackers", eligible |-> {"wall"}],
   [kind |-> "attackers", eligible |-> {"bear"}],
   [kind |-> "blockers", eligible |-> {"wall"}, attackers |-> {"imp"}],
   [kind |-> "blockers", eligible |-> {"bear", "wall"}, attackers |-> {"ogre"}],
   [kind |-> "order", blockers |-> {"imp", "ogre"}],
   [kind |-> "damage", blockers |-> 2, total |-> 2],
   [kind |-> "damage", blockers |-> 2, total |-> 1],
   [kind |-> "target", legal |-> {"bear", "imp"}],
   [kind |-> "target", legal |-> {"ogre"}],
   [kind |-> "discard", hand |-> {"forest", "bolt"}, count |-> 1],
   [kind |-> "modes", modes |-> 2, least |-> 1, most |-> 1],
   [kind |-> "choice", options |-> 2],
   [kind |-> "pay"]}
=============================================================================
