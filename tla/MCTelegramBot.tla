-------------------------- MODULE MCTelegramBot --------------------------
(* Values for the constants of TelegramBot.                               *)
EXTENDS TelegramBot, TLC

CONSTANTS c1, c2, wg, vless, p1, s1

MCSubCountry == s1 :> c1
MCSubProtocol == s1 :> vless
=============================================================================
