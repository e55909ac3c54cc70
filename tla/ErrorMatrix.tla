---------------------------- MODULE ErrorMatrix ----------------------------
(***************************************************************************)
(* The XCP error matrix (src/pyxcp/errormatrix.py): for every command and  *)
(* every error it may fail with, the pre-actions, in order, and the        *)
(* action.  The pre-actions that do nothing (NONE, DISPLAY_ERROR, and      *)
(* WAIT_T7, which sleeps) are left out of a row.  RES_TEMP stands for      *)
(* ERR_RESOURCE_TEMPORARY_NOT_ACCESSIBLE.                                  *)
(***************************************************************************)
EXTENDS Integers, Sequences

Errors == {"TIMEOUT", "CMD_SYNCH", "CMD_BUSY", "DAQ_ACTIVE", "PGM_ACTIVE",
           "CMD_UNKNOWN", "CMD_SYNTAX", "OUT_OF_RANGE", "WRITE_PROTECTED",
           "ACCESS_DENIED", "ACCESS_LOCKED", "PAGE_NOT_VALID", "MODE_NOT_VALID",
           "SEGMENT_NOT_VALID", "SEQUENCE", "DAQ_CONFIG", "MEMORY_OVERFLOW",
           "GENERIC", "VERIFY", "RES_TEMP"}

Row(preActions, action) == [preActions |-> preActions, action |-> action]
On(errors, row) == [e \in errors |-> row]
(* The rows of f, and of g where f has none.                               *)
f ++ g == [e \in DOMAIN f \cup DOMAIN g |-> IF e \in DOMAIN f THEN f[e] ELSE g[e]]

(* The rows many commands share.                                           *)
Show(errors) == On(errors, Row(<<>>, "DISPLAY_ERROR"))
Param(errors) == On(errors, Row(<<>>, "RETRY_PARAM"))
Twice(errors) == On(errors, Row(<<>>, "REPEAT_2_TIMES"))
Restart(errors) == On(errors, Row(<<>>, "RESTART_SESSION"))
Alternative(errors) == On(errors, Row(<<>>, "USE_ALTERATIVE"))
Unknown == Show({"CMD_UNKNOWN"})
OutOfRange == Param({"OUT_OF_RANGE"})
OutOfSequence == Twice({"SEQUENCE"})
Unwritable == Show({"ACCESS_DENIED", "WRITE_PROTECTED", "MEMORY_OVERFLOW"})
DaqRunning == On({"DAQ_ACTIVE"}, Row(<<"START_STOP_X">>, "REPEAT_2_TIMES"))
MtaAlternative == On({"CMD_UNKNOWN"}, Row(<<"SET_MTA">>, "USE_ALTERATIVE"))
Again == On({"RES_TEMP"}, Row(<<>>, "REPEAT"))
Skip == On({"RES_TEMP"}, Row(<<>>, "SKIP"))

(* What a time-out asks for differs; a busy slave (CMD_BUSY; PGM_ACTIVE,   *)
(* unless the command is one of programming itself) is asked for ever.     *)
Synch == <<"SYNCH">>
SynchMta == <<"SYNCH", "SET_MTA">>
SynchDaqPtr == <<"SYNCH", "SET_DAQ_PTR">>
Busy == Row(<<>>, "REPEAT_INF_TIMES")
Basic(timeout) ==
  On({"TIMEOUT"}, Row(timeout, "REPEAT_2_TIMES")) ++ On({"CMD_BUSY"}, Busy) ++
  On({"CMD_SYNTAX"}, Row(<<>>, "RETRY_SYNTAX"))
Locked == On({"ACCESS_LOCKED"}, Row(<<"UNLOCK_SLAVE">>, "REPEAT_2_TIMES"))
Plain(timeout) == Basic(timeout) ++ On({"PGM_ACTIVE"}, Busy)
Checked(timeout) == Plain(timeout) ++ Unknown ++ OutOfRange
Guarded(timeout) == Plain(timeout) ++ Locked
Flash(timeout) == Basic(timeout) ++ Locked
Described(rows) == rows ++ On({"CMD_UNKNOWN"}, Row(<<>>, "USE_A2L"))
Allocation ==
  Guarded(Synch) ++ Unknown ++ OutOfRange ++ Again ++
  On({"SEQUENCE"}, Row(<<"REINIT_DAQ">>, "REPEAT_2_TIMES")) ++
  On({"MEMORY_OVERFLOW"}, Row(<<"REINIT_DAQ">>, "RETRY_PARAM"))

SessionCommands ==
  [CONNECT |-> On({"TIMEOUT"}, Row(<<>>, "REPEAT_INF_TIMES")) ++ Again,
   DISCONNECT |-> On({"TIMEOUT"}, Row(Synch, "REPEAT_2_TIMES")) ++
      On({"CMD_BUSY", "PGM_ACTIVE"}, Row(<<>>, "REPEAT_INF_TIMES")),
   GET_STATUS |-> On({"TIMEOUT"}, Row(Synch, "REPEAT_2_TIMES")) ++ Again,
   SYNCH |-> Twice({"TIMEOUT"}) ++ On({"CMD_SYNCH"}, Row(<<>>, "SKIP")) ++
      Restart({"CMD_UNKNOWN"}) ++ Again,
   GET_COMM_MODE_INFO |-> Basic(Synch) ++ Unknown ++ Skip,
   GET_ID |-> Basic(Synch) ++ Unknown ++ OutOfRange ++ Skip,
   SET_REQUEST |-> Checked(Synch) ++ Again,
   GET_SEED |-> Checked(Synch) ++ Again,
   UNLOCK |-> Checked(Synch) ++ Restart({"ACCESS_LOCKED"}) ++
      On({"SEQUENCE"}, Row(<<"GET_SEED_UNLOCK">>, "REPEAT_2_TIMES")) ++ Again,
   SET_MTA |-> Checked(Synch) ++ Again,
   UPLOAD |-> Guarded(SynchMta) ++ Show({"CMD_UNKNOWN", "ACCESS_DENIED"}) ++
      OutOfRange ++ Again,
   SHORT_UPLOAD |-> Guarded(Synch) ++ Alternative({"CMD_UNKNOWN"}) ++
      OutOfRange ++ Show({"ACCESS_DENIED"}) ++ Again]

MemoryCommands ==
  [BUILD_CHECKSUM |-> Guarded(SynchMta) ++
      Show({"CMD_UNKNOWN", "ACCESS_DENIED"}) ++ OutOfRange ++ Again,
   TRANSPORT_LAYER_CMD |-> Checked(Synch) ++ Again,
   USER_CMD |-> Checked(Synch) ++ Again,
   DOWNLOAD |-> Guarded(SynchMta) ++ OutOfRange ++ Unwritable ++ Again,
   DOWNLOAD_NEXT |-> Guarded(<<"SYNCH", "DOWNLOAD">>) ++ MtaAlternative ++
      OutOfRange ++ Unwritable ++
      On({"SEQUENCE"}, Row(<<"SET_MTA">>, "REPEAT_2_TIMES")) ++ Again,
   DOWNLOAD_MAX |-> Guarded(SynchMta) ++ MtaAlternative ++ OutOfRange ++
      Unwritable ++ Again,
   SHORT_DOWNLOAD |-> Guarded(Synch) ++ Alternative({"CMD_UNKNOWN"}) ++
      OutOfRange ++ Unwritable ++ Again,
   MODIFY_BITS |-> Guarded(SynchMta) ++
      On({"CMD_UNKNOWN"}, Row(<<"UPLOAD", "DOWNLOAD">>, "USE_ALTERATIVE")) ++
      OutOfRange ++ Unwritable ++ Again]

PageCommands ==
  [SET_CAL_PAGE |-> Guarded(Synch) ++
      Param({"PAGE_NOT_VALID", "MODE_NOT_VALID", "SEGMENT_NOT_VALID"}) ++
      Again,
   GET_CAL_PAGE |-> Guarded(Synch) ++
      Param({"PAGE_NOT_VALID", "MODE_NOT_VALID", "SEGMENT_NOT_VALID"}) ++
      Again,
   GET_PAG_PROCESSOR_INFO |-> Described(Guarded(Synch)) ++ Skip,
   GET_SEGMENT_INFO |-> Described(Guarded(Synch)) ++
      Param({"OUT_OF_RANGE", "SEGMENT_NOT_VALID"}) ++ Skip,
   GET_PAGE_INFO |-> Described(Guarded(Synch)) ++
      Param({"PAGE_NOT_VALID", "SEGMENT_NOT_VALID"}) ++ Skip,
   SET_SEGMENT_MODE |-> Guarded(Synch) ++ Unknown ++
      Param({"MODE_NOT_VALID", "SEGMENT_NOT_VALID"}) ++ Again,
   GET_SEGMENT_MODE |-> Guarded(Synch) ++ Unknown ++
      Param({"SEGMENT_NOT_VALID"}) ++ Again,
   COPY_CAL_PAGE |-> Guarded(Synch) ++ Unknown ++
      Param({"PAGE_NOT_VALID", "SEGMENT_NOT_VALID"}) ++ Again]

DaqCommands ==
  [SET_DAQ_PTR |-> Guarded(Synch) ++ Twice({"DAQ_ACTIVE"}) ++ OutOfRange ++
      Again,
   WRITE_DAQ |-> Guarded(SynchDaqPtr) ++ DaqRunning ++ OutOfRange ++
      Show({"ACCESS_DENIED", "WRITE_PROTECTED", "DAQ_CONFIG"}) ++ Again,
   SET_DAQ_LIST_MODE |-> Guarded(Synch) ++ DaqRunning ++
      Param({"OUT_OF_RANGE", "MODE_NOT_VALID"}) ++ Again,
   START_STOP_DAQ_LIST |-> Guarded(Synch) ++
      Param({"OUT_OF_RANGE", "MODE_NOT_VALID"}) ++ Show({"DAQ_CONFIG"}) ++
      Again,
   START_STOP_SYNCH |-> Guarded(Synch) ++ Param({"MODE_NOT_VALID"}) ++
      Show({"DAQ_CONFIG"}) ++ Again,
   CLEAR_DAQ_LIST |-> Guarded(Synch) ++ OutOfRange ++ Show({"ACCESS_DENIED"}) ++
      Again,
   GET_DAQ_LIST_INFO |-> Described(Guarded(Synch)) ++ OutOfRange ++ Skip,
   WRITE_DAQ_MULTIPLE |-> Guarded(SynchDaqPtr) ++
      Show({"CMD_UNKNOWN", "ACCESS_DENIED", "WRITE_PROTECTED", "DAQ_CONFIG"}) ++
      DaqRunning ++ OutOfRange ++ Again,
   READ_DAQ |-> Guarded(SynchDaqPtr) ++ Unknown ++ Again,
   GET_DAQ_CLOCK |-> Guarded(Synch) ++ Unknown ++ Skip]

DynamicDaqCommands ==
  [GET_DAQ_PROCESSOR_INFO |-> Described(Guarded(Synch)) ++ Skip,
   GET_DAQ_RESOLUTION_INFO |-> Described(Guarded(Synch)) ++ Skip,
   GET_DAQ_LIST_MODE |-> Guarded(Synch) ++ OutOfRange ++ Again,
   GET_DAQ_EVENT_INFO |-> Described(Guarded(Synch)) ++ OutOfRange ++ Skip,
   FREE_DAQ |-> Guarded(Synch) ++ Unknown ++ Again,
   ALLOC_DAQ |-> Allocation,
   ALLOC_ODT |-> Allocation,
   ALLOC_ODT_ENTRY |-> Allocation]

ProgramCommands ==
  [PROGRAM_START |-> Flash(Synch) ++ DaqRunning ++ Restart({"GENERIC"}) ++
      Again,
   PROGRAM_CLEAR |-> Flash(SynchMta) ++ OutOfRange ++ Show({"ACCESS_DENIED"}) ++
      OutOfSequence ++ Again,
   PROGRAM |-> Flash(SynchMta) ++ OutOfRange ++
      Show({"ACCESS_DENIED", "MEMORY_OVERFLOW"}) ++ OutOfSequence ++ Again,
   PROGRAM_RESET |-> Guarded(Synch) ++ OutOfSequence ++ Again,
   GET_PGM_PROCESSOR_INFO |-> Described(Flash(Synch)) ++ Skip,
   GET_SECTOR_INFO |-> Described(Flash(Synch)) ++
      Param({"MODE_NOT_VALID", "SEGMENT_NOT_VALID"}) ++ Skip,
   PROGRAM_PREPARE |-> Flash(SynchMta) ++ Unknown ++ OutOfRange ++
      OutOfSequence ++ Restart({"GENERIC"}) ++ Again,
   PROGRAM_FORMAT |-> Flash(Synch) ++ Unknown ++ OutOfRange ++ OutOfSequence ++
      Again,
   PROGRAM_NEXT |-> Flash(<<"SYNCH", "PROGRAM">>) ++
      Alternative({"CMD_UNKNOWN"}) ++ OutOfRange ++
      Show({"ACCESS_DENIED", "MEMORY_OVERFLOW"}) ++ OutOfSequence ++ Again,
   PROGRAM_MAX |-> On({"TIMEOUT"}, Row(SynchMta, "REPEAT_2_TIMES")) ++
      On({"CMD_BUSY"}, Row(<<>>, "REPEAT_INF_TIMES")) ++
      Alternative({"CMD_UNKNOWN"}) ++
      On({"ACCESS_LOCKED"}, Row(<<"UNLOCK_SLAVE">>, "REPEAT_2_TIMES")) ++
      OutOfSequence ++ Show({"MEMORY_OVERFLOW"}) ++ Again,
   PROGRAM_VERIFY |-> Flash(Synch) ++ Unknown ++ OutOfRange ++ OutOfSequence ++
      Restart({"GENERIC"}) ++ On({"VERIFY"}, Row(<<>>, "NEW_FLASH_WARE")) ++
      Again]

ERROR_MATRIX ==
  SessionCommands ++ MemoryCommands ++ PageCommands ++ DaqCommands ++
  DynamicDaqCommands ++ ProgramCommands
Commands == {"CONNECT", "DISCONNECT", "GET_STATUS", "SYNCH",
             "GET_COMM_MODE_INFO", "GET_ID", "SET_REQUEST", "GET_SEED",
             "UNLOCK", "SET_MTA", "UPLOAD", "SHORT_UPLOAD",
             "BUILD_CHECKSUM", "TRANSPORT_LAYER_CMD", "USER_CMD",
             "DOWNLOAD", "DOWNLOAD_NEXT", "DOWNLOAD_MAX", "SHORT_DOWNLOAD",
             "MODIFY_BITS", "SET_CAL_PAGE", "GET_CAL_PAGE",
             "GET_PAG_PROCESSOR_INFO", "GET_SEGMENT_INFO", "GET_PAGE_INFO",
             "SET_SEGMENT_MODE", "GET_SEGMENT_MODE", "COPY_CAL_PAGE",
             "SET_DAQ_PTR", "WRITE_DAQ", "SET_DAQ_LIST_MODE",
             "START_STOP_DAQ_LIST", "START_STOP_SYNCH", "CLEAR_DAQ_LIST",
             "GET_DAQ_LIST_INFO", "WRITE_DAQ_MULTIPLE", "READ_DAQ",
             "GET_DAQ_CLOCK", "GET_DAQ_PROCESSOR_INFO",
             "GET_DAQ_RESOLUTION_INFO", "GET_DAQ_LIST_MODE",
             "GET_DAQ_EVENT_INFO", "FREE_DAQ", "ALLOC_DAQ", "ALLOC_ODT",
             "ALLOC_ODT_ENTRY", "PROGRAM_START", "PROGRAM_CLEAR", "PROGRAM",
             "PROGRAM_RESET", "GET_PGM_PROCESSOR_INFO", "GET_SECTOR_INFO",
             "PROGRAM_PREPARE", "PROGRAM_FORMAT", "PROGRAM_NEXT",
             "PROGRAM_MAX", "PROGRAM_VERIFY"}

(* getActions: a service without a row for the error has no handler, and   *)
(* SystemExit (the exception of errorhandler.py) is raised.                *)
HasHandler(command, error) == error \in DOMAIN ERROR_MATRIX[command]
Actions(command, error) == ERROR_MATRIX[command][error]

-----------------------------------------------------------------------------
(* Handler.actions raises NotImplementedError for these pre-actions, and   *)
(* SystemExit for every action that is not a repetition or nothing.        *)
NotImplemented == {"GET_SEED_UNLOCK", "UNLOCK_SLAVE", "START_STOP_X",
                   "DOWNLOAD", "PROGRAM", "UPLOAD"}
Repeating == {"SKIP", "REPEAT", "REPEAT_2_TIMES", "REPEAT_INF_TIMES"}

(* The Repeater an action asks for.  max_retries, which would override it, *)
(* is looked up as instance.config.general; but Master.config already is   *)
(* the General section and has no section `general', so the override is    *)
(* never there.                                                            *)
Infinite == -1
NoRepeater == -2      \* handler.repeater is None
Repetitions(action) ==
  CASE action = "REPEAT_INF_TIMES" -> Infinite
    [] action = "REPEAT_2_TIMES" -> 2
    [] action = "REPEAT" -> 1
    [] OTHER -> 0

(* Repeater.repeat(): whether one is left, and the counter afterwards.     *)
(* (A definition marked `Mutant' is a plausible mistake in the next one.)  *)
CanRepeat(counter) == counter = Infinite \/ counter > 0
CountDownForgotten(counter) == counter   \* Mutant
CountDown(counter) == IF counter > 0 THEN counter - 1 ELSE counter
=============================================================================
