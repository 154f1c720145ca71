-------------------------- MODULE SettingRegister --------------------------
(***************************************************************************)
(* What a saved setting promises: a register.  An update takes effect at   *)
(* one moment or not at all; an acknowledged one has taken effect, a       *)
(* refused one has not, an interrupted one may or may not have.            *)
(***************************************************************************)
CONSTANTS Settings, Idle

VARIABLES value, update

\* update is Idle or [new, old]: the setting being saved and the one before.
RegisterInit == value \in Settings /\ update = Idle

Begin(v) == update = Idle /\ update' = [new |-> v, old |-> value] /\ UNCHANGED value
TakeEffect == update # Idle /\ value = update.old /\ value' = update.new /\ UNCHANGED update
Acknowledge == update # Idle /\ value = update.new /\ update' = Idle /\ UNCHANGED value
Refuse == update # Idle /\ value = update.old /\ update' = Idle /\ UNCHANGED value

RegisterNext == (\E v \in Settings : Begin(v)) \/ TakeEffect \/ Acknowledge \/ Refuse

RegisterSpec == RegisterInit /\ [][RegisterNext]_<<value, update>>
=============================================================================
