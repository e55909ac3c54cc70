--------------------------- MODULE MCErrorHandler ---------------------------
(* Scripts for the model checking of ErrorHandler.                         *)
EXTENDS ErrorHandler

ThreeAddresses == 0 .. 2
TwoAddresses == 0 .. 1

C(cmd) == [cmd |-> cmd, arg |-> 0]
A(cmd, a) == [cmd |-> cmd, arg |-> a]

(* One transfer per setMta, as a client reading a variable does; a fetch   *)
(* in two parts; a transfer at the address GET_ID has set; and every other *)
(* command, with the pre-actions of its rows.                              *)
Session ==
  {<<A("SET_MTA", 1), C("UPLOAD"), A("SET_MTA", 0), A("DOWNLOAD", 7)>>,
   <<A("SET_MTA", 0), A("DOWNLOAD", 7), A("SET_MTA", 1), A("DOWNLOAD", 8)>>,
   <<C("SYNCH"), C("CONNECT"), A("SET_MTA", 0), C("UPLOAD"), C("UPLOAD")>>,
   <<C("GET_ID"), C("UPLOAD")>>,
   <<A("ALLOC_DAQ", 1), A("ALLOC_DAQ", 2)>>,
   <<C("FREE_DAQ"), A("ALLOC_DAQ", 1), A("SET_DAQ_PTR", 1), A("WRITE_DAQ", 7)>>}

(* Every other command of the matrix, after a setMta.                      *)
Scripted == UNION {{s[i].cmd : i \in 1 .. Len(s)} : s \in Session}
EveryCommand ==
  Session \cup {<<A("SET_MTA", 0), C(c)>> : c \in Commands \ Scripted}

(* fetch(): several UPLOADs after one setMta; several WRITE_DAQs.          *)
Fetch == {<<A("SET_MTA", 1), C("UPLOAD"), C("UPLOAD")>>}
WriteDaq == {<<A("SET_DAQ_PTR", 0), A("WRITE_DAQ", 7), A("WRITE_DAQ", 8)>>}

(* One error of each kind of row: those left out are only ever reported,   *)
(* as OUT_OF_RANGE and CMD_UNKNOWN are, or have the row of CMD_BUSY.       *)
AllRefusals == {"CMD_BUSY", "CMD_UNKNOWN", "OUT_OF_RANGE", "ACCESS_LOCKED",
                "DAQ_ACTIVE", "SEQUENCE", "MEMORY_OVERFLOW", "RES_TEMP"}
NoRefusals == {}
=============================================================================
