----------------------------- MODULE MCVscDebug -----------------------------
(***************************************************************************)
(* VscDebug for TLC: two users; of each driver the commands whose answer   *)
(* is used, and one that only succeeds or fails.                           *)
(***************************************************************************)
EXTENDS VscDebug

CONSTANTS u1, u2

MCPseCmds == {"LOG_ONOFF", "GET_TIME", "DUMP_POWER_DATA"}
MCAdCmds == {"LOG_CONFIG", "GET_FW_VER"}
=============================================================================
