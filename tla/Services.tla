------------------------------ MODULE Services ------------------------------
(***************************************************************************)
(* The services of Master (src/pyxcp/master/master.py) as data: for each   *)
(* service that sends a command, the layouts of its parameters and of the  *)
(* positive response, field by field, as the packers of the method and the *)
(* structs of src/pyxcp/types.py have them.  A bit struct is one byte.     *)
(* Where a service has several forms (a mode, an optional tail), each form *)
(* is a layout.  The byte of the command, or of RES, comes before each.    *)
(***************************************************************************)
EXTENDS Integers, Sequences, SequencesExt, TLC

(* The fields: of the byte order of the session, of a fixed byte order     *)
(* ("l" little, "m" big endian), reserved or padding (x), bytes of data.   *)
x == [size |-> 1, order |-> "none"]
b == [size |-> 1, order |-> "none"]
w == [size |-> 2, order |-> "session"]
d == [size |-> 4, order |-> "session"]
q == [size |-> 8, order |-> "session"]
wl == [size |-> 2, order |-> "INTEL"]
ql == [size |-> 8, order |-> "INTEL"]
wm == [size |-> 2, order |-> "MOTOROLA"]
dm == [size |-> 4, order |-> "MOTOROLA"]
data == [size |-> 0, order |-> "none"]
Fields == {x, w, d, q, wl, ql, wm, dm, data}

S(sent, got) == [sent |-> {sent}, got |-> {got}]
Many(sent, got) == [sent |-> sent, got |-> got]
None == <<>>

(* Responses, by the names of their structs.                               *)
StandardStructs ==
  [ConnectResponse |-> <<b, b, b, w, b, b>>,
   GetVersionResponse |-> <<x, b, b, b, b>>,
   GetStatusResponse |-> <<b, b, b, w>>,
   GetCommModeInfoResponse |-> <<x, b, x, b, b, b, b>>,
   GetIDResponse |-> <<b, x, x, d, data>>,
   GetSeedResponse |-> <<b, data>>,
   ResourceType |-> <<b>>,
   BuildChecksumResponse |-> <<b, x, x, d>>]
PageStructs ==
  [GetPagProcessorInfoResponse |-> <<b, b>>,
   GetSegmentInfoMode0Response |-> <<x, x, x, d>>,
   GetSegmentInfoMode1Response |-> <<b, b, b, b, b>>,
   GetSegmentInfoMode2Response |-> <<x, x, x, d>>,
   GetPageInfoResponse |-> <<b, b>>]
DaqStructs ==
  [GetDaqProcessorInfoResponse |-> <<b, w, w, b, b>>,
   GetDaqListModeResponse |-> <<b, x, x, w, b, b>>,
   DaqElement |-> <<b, b, d, b, x>>,
   ReadDaqResponse |-> <<b, b, b, d>>,
   GetDaqResolutionInfoResponse |-> <<b, b, b, b, b, w>>]
DaqListStructs ==
  [GetDaqPackedModeResponse |-> <<b, b, wl>>,
   GetDaqListInfoResponse |-> <<b, b, b, w>>,
   StartStopDaqListResponse |-> <<b>>,
   GetEventChannelInfoResponse |-> <<b, b, b, b, b, b>>]
SlaveStructs ==
  [GetSlaveIdResponse |-> <<b, b, b, d>>,
   GetDaqIdResponse |-> <<b, x, x, d>>,
   DtoCtrPropertiesResponse |-> <<b, w, b>>]
ProgramStructs ==
  [ProgramStartResponse |-> <<x, b, b, b, b, b>>,
   GetPgmProcessorInfoResponse |-> <<b, b>>,
   GetSectorInfoResponseMode01 |-> <<b, b, b, d>>,
   GetSectorInfoResponseMode2 |-> <<b>>]
DebugStructs ==
  [DbgAttachResponse |-> {<<b, b, b, b, x, w>>},
   DbgGetVendorInfoResponse |-> {<<b, w, data>>},
   DbgGetModeInfoResponse |-> {<<x, b, b, b, b>>},
   DbgGetJtagIdResponse |-> {<<x, x, x, d>>},
   DbgGetHwioInfoResponse |-> {<<b, data>>},
   DbgHwioControlResponse |-> {<<data>>},
   DbgSequenceMultipleResponse |-> {<<x, b, b, b, dm>>},
   DbgLltResponse |-> {<<b, b, data>>},
   DbgReadResponse |-> {<<b>>, <<x, w>>, <<x, x, x, d>>, <<x, x, x, x, x, x, x, q>>},
   DbgGetTriDescTblResponse |->
     {<<b, x, x, d, b, x, x, x, x, x, x, x, b, b, x, x, x, x, x, x, ql, wl, wl, x, x, x, x>>},
   DbgLlbtResponse |-> {<<x, w, data>>}]
(* GET_DAQ_CLOCK in the legacy form, and in the extended form with the     *)
(* clocks of the grandmaster and of the ECU and the synchronisation state. *)
DaqClockForms ==
  LET clocks == {<<>>, <<d>>, <<q>>}
  IN  {<<x, b, b>> \o <<slave>> \o grandmaster \o ecu \o state :
         slave \in {d, q}, grandmaster \in clocks, ecu \in clocks, state \in {<<>>, <<b>>}}
ClockProperties == <<b, b, b, b, x, w>>
(* What is read with fetch(): the information on a clock, and the relation *)
(* of the clock of the slave to that of the grandmaster.                   *)
ClockReads == {<<x, x, x, x, x, x, x, x, w, b, b, b, b, x, x, q>>, <<q, q>>}
Structs == StandardStructs @@ PageStructs @@ DaqStructs @@ DaqListStructs @@ SlaveStructs
             @@ ProgramStructs

(* The services, in the order of the source.                               *)
SessionServices ==
  [connect |-> S(<<b>>, Structs.ConnectResponse),
   disconnect |-> S(None, None),
   getStatus |-> S(None, Structs.GetStatusResponse),
   synch |-> S(None, None),
   getCommModeInfo |-> S(None, Structs.GetCommModeInfoResponse),
   getId |-> S(<<b>>, Structs.GetIDResponse)]
AccessServices ==
  [setRequest |-> S(<<b, wm>>, None),
   getSeed |-> S(<<b, b>>, Structs.GetSeedResponse),
   unlock |-> S(<<b, data>>, Structs.ResourceType),
   setMta |-> S(<<x, x, b, d>>, None)]
MemoryServices ==
  [upload |-> Many({<<b>>}, {<<data>>} \cup ClockReads),
   shortUpload |-> S(<<b, x, b, d>>, <<data>>),
   buildChecksum |-> S(<<x, x, x, d>>, Structs.BuildChecksumResponse),
   transportLayerCmd |-> S(<<b, data>>, <<data>>)]
UserServices ==
  [userCmd |-> S(<<b, data>>, <<data>>),
   getVersion |-> S(None, Structs.GetVersionResponse)]
DownloadServices ==
  [download |-> S(<<b, data>>, None),
   downloadNext |-> S(<<b, data>>, None),
   downloadMax |-> S(<<data>>, None),
   shortDownload |-> S(<<b, x, b, d, data>>, None),
   modifyBits |-> S(<<b, w, w>>, None)]
PageServices ==
  [setCalPage |-> S(<<b, b, b>>, None),
   getCalPage |-> S(<<b, b>>, <<x, x, b>>),
   getPagProcessorInfo |-> S(None, Structs.GetPagProcessorInfoResponse),
   getSegmentInfo |-> Many({<<b, b, b, b>>}, {Structs.GetSegmentInfoMode0Response,
                       Structs.GetSegmentInfoMode1Response, Structs.GetSegmentInfoMode2Response}),
   getPageInfo |-> S(<<x, b, b>>, Structs.GetPageInfoResponse),
   setSegmentMode |-> S(<<b, b>>, None),
   getSegmentMode |-> S(<<x, b>>, <<x, b>>),
   copyCalPage |-> S(<<b, b, b, b>>, None)]
DaqServices ==
  [setDaqPtr |-> S(<<x, w, b, b>>, None),
   clearDaqList |-> S(<<x, w>>, None),
   writeDaq |-> S(<<b, b, b, d>>, None),
   setDaqListMode |-> S(<<b, w, w, b, b>>, None),
   getDaqListMode |-> S(<<x, w>>, Structs.GetDaqListModeResponse),
   startStopDaqList |-> S(<<b, w>>, Structs.StartStopDaqListResponse),
   startStopSynch |-> S(<<b>>, None),
   writeDaqMultiple |-> S(<<b>> \o Structs.DaqElement \o Structs.DaqElement, None),
   getDaqClock |-> Many({None}, DaqClockForms)]
ClockServices == [timeCorrelationProperties |-> S(<<b, b, x, w>>, ClockProperties)]
DaqInfoServices ==
  [readDaq |-> S(None, Structs.ReadDaqResponse),
   getDaqProcessorInfo |-> S(None, Structs.GetDaqProcessorInfoResponse),
   getDaqResolutionInfo |-> S(None, Structs.GetDaqResolutionInfoResponse),
   getDaqListInfo |-> S(<<x, w>>, Structs.GetDaqListInfoResponse),
   getDaqEventInfo |-> S(<<x, w>>, Structs.GetEventChannelInfoResponse),
   dtoCtrProperties |-> S(<<b, w, w, b>>, Structs.DtoCtrPropertiesResponse),
   setDaqPackedMode |-> Many({<<w, b>>, <<w, b, b, w>>}, {None}),
   getDaqPackedMode |-> S(<<w>>, Structs.GetDaqPackedModeResponse)]
AllocServices ==
  [freeDaq |-> S(None, None),
   allocDaq |-> S(<<x, w>>, None),
   allocOdt |-> S(<<x, w, b>>, None),
   allocOdtEntry |-> S(<<x, w, b, b>>, None)]
ProgramServices ==
  [programStart |-> S(None, Structs.ProgramStartResponse),
   programClear |-> S(<<b, x, x, d>>, None),
   program |-> S(<<b, data>>, None),
   programReset |-> S(None, None),
   getPgmProcessorInfo |-> S(None, Structs.GetPgmProcessorInfoResponse),
   getSectorInfo |-> Many({<<b, b>>}, {Structs.GetSectorInfoResponseMode01,
                                       Structs.GetSectorInfoResponseMode2}),
   programPrepare |-> S(<<x, w>>, None),
   programFormat |-> S(<<b, b, b, b>>, None),
   programNext |-> S(<<b, data>>, None),
   programMax |-> Many({<<data>>, <<x, w, data>>, <<x, x, x, d, data>>}, {None}),
   programVerify |-> S(<<b, w, d>>, None)]
TransportServices ==
  [getSlaveID |-> S(<<b, b, b, b, b>>, Structs.GetSlaveIdResponse),
   getDaqId |-> S(<<b, w>>, Structs.GetDaqIdResponse),
   setDaqId |-> S(<<b, w, d>>, None)]
DebugServices ==
  [dbgAttach |-> Many({None}, DebugStructs.DbgAttachResponse),
   dbgGetVendorInfo |-> Many({None}, DebugStructs.DbgGetVendorInfoResponse),
   dbgGetModeInfo |-> Many({None}, DebugStructs.DbgGetModeInfoResponse),
   dbgGetJtagId |-> Many({None}, DebugStructs.DbgGetJtagIdResponse),
   dbgHaltAfterReset |-> S(None, None),
   dbgGetHwioInfo |-> Many({<<b>>}, DebugStructs.DbgGetHwioInfoResponse),
   dbgSetHwioEvent |-> S(<<b, b>>, None),
   dbgHwioControl |-> Many({<<b>>, <<b, b, b, w>>}, DebugStructs.DbgHwioControlResponse),
   dbgExclusiveTargetAccess |-> S(<<b, b>>, None),
   dbgSequenceMultiple |-> Many({<<b, w, data>>}, DebugStructs.DbgSequenceMultipleResponse),
   dbgLlt |-> Many({<<b, b, data>>}, DebugStructs.DbgLltResponse),
   dbgReadModifyWrite |->
     Many({<<x, b, b, x, x, q>> \o v : v \in {<<b, b>>, <<w, w>>, <<d, d>>, <<q, q>>}},
          DebugStructs.DbgReadResponse),
   dbgWrite |-> Many({<<x, b, b, w, q, v>> : v \in {b, w, d, q}}, {None}),
   dbgWriteNext |-> Many({<<x, w, x, x, v>> : v \in {b, w, d, q}}, {None})]
DebugCanServices ==
  [dbgWriteCan1 |-> S(<<b, d>>, None),
   dbgWriteCan2 |-> S(<<b, b>>, None),
   dbgWriteCanNext |-> Many({<<b, v>> : v \in {b, w, d, q}}, {None}),
   dbgRead |-> Many({<<x, b, b, w, q>>}, DebugStructs.DbgReadResponse),
   dbgReadCan1 |-> S(<<b, d>>, None),
   dbgReadCan2 |-> S(<<b, b>>, None),
   dbgLlbt |-> Many({<<x, w, data>>}, DebugStructs.DbgLlbtResponse)]
Debug == DebugServices @@ DebugCanServices
Service == SessionServices @@ AccessServices @@ MemoryServices @@ UserServices @@ DownloadServices
             @@ PageServices @@ DaqServices @@ ClockServices @@ DaqInfoServices @@ AllocServices
             @@ ProgramServices @@ TransportServices @@ Debug

(* Where a field starts: "first" is the offset of the first one.           *)
Offset(layout, i, first) ==
  FoldLeft(LAMBDA n, field : n + field.size, first, SubSeq(layout, 1, i - 1))
Aligned(layout, first) ==
  \A i \in 1 .. Len(layout) :
    layout[i].size > 1 => Offset(layout, i, first) % layout[i].size = 0
=============================================================================
