---------------------------- MODULE MCListening ----------------------------
(* Transports for the model checking of Listening, with octets 0 .. 4:     *)
(* PIDs 3 and 4 are responses, 2 is an event, 1 a service request, 0 a DTO.*)
EXTENDS Listening

OneSub == {"sub"}
DaqAndEvents == [s \in OneSub |-> {"DAQ", "EVENT"}]
AllCategories == {"RESPONSE", "EVENT", "SERV", "DAQ"}

Setup(k, f, ps, n) ==
  [kind |-> k, format |-> f, packets |-> ps, faults |-> n, slaveId |-> 0, daqIds |-> <<>>, subs |-> {},
   maxsize |-> 0, consumers |-> 1]
Transports ==
  {Setup("tcp", EthFormat, <<<<0>>, <<4>>>>, 1),
   Setup("udp", EthFormat, <<<<0>>, <<3>>, <<2>>>>, 1),
   Setup("udp", EthFormat, <<<<0>>, <<0, 1>>, <<0, 2>>>>, 0),
   Setup("sxi", FormatOf("HEADER_LEN_BYTE", 0), <<<<0, 1>>, <<2>>, <<1>>>>, 0),
   Setup("sxi", FormatOf("HEADER_LEN_BYTE", 1), <<<<0>>, <<2>>>>, 1),
   Setup("sxi", FormatOf("HEADER_LEN_BYTE", 2), <<<<0, 2>>, <<1>>>>, 1),
   Setup("sxi", FormatOf("HEADER_LEN_FILL_WORD", 0), <<<<4>>, <<0>>>>, 0),
   Setup("sxi", FormatOf("HEADER_LEN_CTR_BYTE", 2), <<<<0, 1, 2, 3>>, <<2>>>>, 1),
   Setup("usb", FormatOf("HEADER_LEN_CTR_BYTE", 0), <<<<0, 0>>, <<3>>>>, 0),
   Setup("can", EthFormat, <<<<4, 0>>, <<2>>, <<3>>>>, 2),
   [Setup("can", EthFormat, <<<<1, 4>>, <<0, 3>>, <<3>>>>, 1) EXCEPT !.daqIds = <<ExtendedFlag>>],
   [Setup("can", EthFormat, <<<<0, 4>>, <<1, 2>>, <<3>>>>, 1) EXCEPT
      !.slaveId = ExtendedFlag + 2, !.daqIds = <<1, 2>>]}
WithSub(u, size, tasks) == [u EXCEPT !.subs = OneSub, !.maxsize = size, !.consumers = tasks]
Subscribed ==
  {WithSub(Setup("can", EthFormat, <<<<0>>, <<2>>, <<3>>>>, 0), 0, 1),
   WithSub(Setup("udp", EthFormat, <<<<0>>, <<2>>>>, 0), 0, 1)}
    \cup {WithSub(Setup("can", EthFormat, <<<<0>>, <<2>>>>, 0), 1, tasks) : tasks \in {1, 2}}
AllSetups == Transports \cup Subscribed
=============================================================================
