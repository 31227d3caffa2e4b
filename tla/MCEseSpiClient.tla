--------------------------- MODULE MCEseSpiClient ---------------------------
(* Small instances of EseSpiClient.                                        *)
EXTENDS EseSpiClient

(* CPLC data with tag, length and status word make the 47 bytes asked for; *)
(* an element that refuses answers with the status word alone.  100 bytes  *)
(* fill the buffer, with no room for the rsp_len of sendCommand.           *)
Answers == [len : {2, 47, 100}, chip : {"other"}] \cup [len : {47}, chip : {"valid"}]

(* TEEC_ERROR_GENERIC and TEEC_ERROR_NETWORK_ERROR: a large code and a     *)
(* small one.                                                              *)
TwoErrors == {-65536, 16}
=============================================================================
