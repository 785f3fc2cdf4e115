------------------------------- MODULE TiLink -------------------------------
(***************************************************************************)
(* The connection as the CDC class of ti/patches/usbdcdc.c sees it.  The   *)
(* host may reset the bus, of which the class hears nothing; go away, which*)
(* it hears of as a disconnection; and configure the device, once or again.*)
(* Only a configuration that follows a disconnection is announced to the   *)
(* application, which then flushes its buffers.                            *)
(***************************************************************************)
EXTENDS Integers

CONSTANT MaxSessions   (* bound: how often the device is configured        *)

ASSUME LinkAssumption == MaxSessions \in Nat \ {0}

VARIABLES
  configured,  (* the endpoints are live: TivaWare's configuration         *)
  bConnected,  (* psInst->bConnected                                       *)
  sessions     (* how often the device has been configured                 *)

linkVars == <<configured, bConnected, sessions>>

(* The device has just been configured for the first time. *)
LinkInit ==
  /\ configured = TRUE
  /\ bConnected = TRUE
  /\ sessions = 1

LinkOK ==
  /\ configured \in BOOLEAN
  /\ bConnected \in BOOLEAN
  /\ sessions \in 1 .. MaxSessions

(* g_sCDCHandlers names no handler for a reset. *)
ResetBus ==
  /\ configured
  /\ configured' = FALSE
  /\ UNCHANGED <<bConnected, sessions>>

HandleDisconnect ==
  /\ bConnected
  /\ configured' = FALSE
  /\ bConnected' = FALSE
  /\ UNCHANGED sessions

(* USB_EVENT_CONNECTED is due when the device is configured now. *)
Announced == ~bConnected

Configure ==
  /\ sessions < MaxSessions
  /\ sessions' = sessions + 1
  /\ configured' = TRUE
  /\ bConnected' = TRUE
=============================================================================
