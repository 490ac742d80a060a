------------------------ MODULE MCTelegramDelivery ------------------------
(* Instances of TelegramDelivery for TLC.                                  *)
EXTENDS TelegramDelivery, TLC

Symmetry == Permutations(Drains) \cup Permutations(Fanouts)
=============================================================================
