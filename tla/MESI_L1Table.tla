---------------------------- MODULE MESI_L1Table -----------------------------
(***************************************************************************)
(* The transitions of MESI_CMP_directory-L1cache.sm, row by row.           *)
(***************************************************************************)
EXTENDS MESI_Transition, Sequences

CpuEvents == {"Load", "Ifetch", "Store", "L1_Replacement"}

IdleAndTransient ==
  { Transition({"IS", "IM", "IS_I", "M_I", "SM", "SINK_WB_ACK"}, CpuEvents, Same,
      <<"z_stallAndWaitMandatoryQueue">>),
    Transition({"NP", "I"}, {"L1_Replacement"}, Same, <<"ff_deallocateL1CacheBlock">>),
    Transition({"NP", "I"}, {"Load"}, "IS",
      <<"oo_allocateL1DCacheBlock", "i_allocateTBE", "a_issueGETS", "k_popMandatoryQueue">>),
    Transition({"NP", "I"}, {"Ifetch"}, "IS",
      <<"pp_allocateL1ICacheBlock", "i_allocateTBE", "ai_issueGETINSTR", "k_popMandatoryQueue">>),
    Transition({"NP", "I"}, {"Store"}, "IM",
      <<"oo_allocateL1DCacheBlock", "i_allocateTBE", "b_issueGETX", "k_popMandatoryQueue">>),
    Transition({"NP", "I"}, {"Inv"}, Same, <<"fi_sendInvAck", "l_popRequestQueue">>) }

\* A store to a shared line waits for the L2's permission.
StoreInShared ==
  Transition({"S"}, {"Store"}, "SM", <<"i_allocateTBE", "c_issueUPGRADE", "k_popMandatoryQueue">>)

InvInShared == Transition({"S"}, {"Inv"}, "I", <<"fi_sendInvAck", "l_popRequestQueue">>)

SharedAndExclusive ==
  { Transition({"S"}, {"Load", "Ifetch"}, Same, <<"h_load_hit", "k_popMandatoryQueue">>),
    StoreInShared,
    Transition({"S"}, {"L1_Replacement"}, "I", <<"ff_deallocateL1CacheBlock">>),
    InvInShared,
    Transition({"E"}, {"Load", "Ifetch"}, Same, <<"h_load_hit", "k_popMandatoryQueue">>),
    Transition({"E"}, {"Store"}, "M", <<"hh_store_hit", "k_popMandatoryQueue">>),
    Transition({"E"}, {"L1_Replacement"}, "M_I",
      <<"i_allocateTBE", "g_issuePUTX", "ff_deallocateL1CacheBlock">>),
    Transition({"E"}, {"Inv"}, "I", <<"fi_sendInvAck", "l_popRequestQueue">>),
    Transition({"E"}, {"Fwd_GETX"}, "I", <<"d_sendDataToRequestor", "l_popRequestQueue">>),
    Transition({"E"}, {"Fwd_GETS", "Fwd_GET_INSTR"}, "S",
      <<"d_sendDataToRequestor", "d2_sendDataToL2", "l_popRequestQueue">>) }

FwdGetxInModified ==
  Transition({"M"}, {"Fwd_GETX"}, "I", <<"d_sendDataToRequestor", "l_popRequestQueue">>)

Modified ==
  { Transition({"M"}, {"Load", "Ifetch"}, Same, <<"h_load_hit", "k_popMandatoryQueue">>),
    Transition({"M"}, {"Store"}, Same, <<"hh_store_hit", "k_popMandatoryQueue">>),
    Transition({"M"}, {"L1_Replacement"}, "M_I",
      <<"i_allocateTBE", "g_issuePUTX", "ff_deallocateL1CacheBlock">>),
    Transition({"M_I"}, {"WB_Ack"}, "I",
      <<"s_deallocateTBE", "o_popIncomingResponseQueue", "kd_wakeUpDependents">>),
    Transition({"M"}, {"Inv"}, "I", <<"f_sendDataToL2", "l_popRequestQueue">>),
    Transition({"M_I"}, {"Inv"}, "SINK_WB_ACK", <<"ft_sendDataToL2_fromTBE", "l_popRequestQueue">>),
    FwdGetxInModified,
    Transition({"M"}, {"Fwd_GETS", "Fwd_GET_INSTR"}, "S",
      <<"d_sendDataToRequestor", "d2_sendDataToL2", "l_popRequestQueue">>),
    Transition({"M_I"}, {"Fwd_GETX"}, "SINK_WB_ACK",
      <<"dt_sendDataToRequestor_fromTBE", "l_popRequestQueue">>),
    Transition({"M_I"}, {"Fwd_GETS", "Fwd_GET_INSTR"}, "SINK_WB_ACK",
      <<"dt_sendDataToRequestor_fromTBE", "d2t_sendDataToL2_fromTBE", "l_popRequestQueue">>) }

\* The end of a miss: the TBE goes, the response is popped and what waited for
\* the line is looked at again.
Finish == <<"s_deallocateTBE", "o_popIncomingResponseQueue", "kd_wakeUpDependents">>

\* The directory does not block on a GETS hit, so an invalidation can overtake
\* the data: the load may use the data, and the line is dropped.
InvInMiss == Transition({"IS", "IS_I"}, {"Inv"}, "IS_I", <<"fi_sendInvAck", "l_popRequestQueue">>)

Misses ==
  { InvInMiss,
    Transition({"IS"}, {"Data_all_Acks"}, "S", <<"u_writeDataToL1Cache", "h_load_hit">> \o Finish),
    Transition({"IS_I"}, {"Data_all_Acks"}, "I", <<"u_writeDataToL1Cache", "h_load_hit">> \o Finish),
    Transition({"IS"}, {"DataS_fromL1"}, "S",
      <<"u_writeDataToL1Cache", "j_sendUnblock", "h_load_hit">> \o Finish),
    Transition({"IS_I"}, {"DataS_fromL1"}, "I",
      <<"u_writeDataToL1Cache", "j_sendUnblock", "h_load_hit">> \o Finish),
    Transition({"IS_I", "IS"}, {"Data_Exclusive"}, "E",
      <<"u_writeDataToL1Cache", "h_load_hit", "jj_sendExclusiveUnblock">> \o Finish),
    Transition({"IM", "SM"}, {"Inv"}, "IM", <<"fi_sendInvAck", "l_popRequestQueue">>),
    Transition({"IM"}, {"Data"}, "SM",
      <<"u_writeDataToL1Cache", "q_updateAckCount", "o_popIncomingResponseQueue">>),
    Transition({"IM"}, {"Data_all_Acks"}, "M",
      <<"u_writeDataToL1Cache", "hh_store_hit", "jj_sendExclusiveUnblock">> \o Finish),
    Transition({"SM", "IM"}, {"Ack"}, Same, <<"q_updateAckCount", "o_popIncomingResponseQueue">>),
    Transition({"SM"}, {"Ack_all"}, "M", <<"jj_sendExclusiveUnblock", "hh_store_hit">> \o Finish),
    Transition({"SINK_WB_ACK"}, {"Inv"}, Same, <<"fi_sendInvAck", "l_popRequestQueue">>),
    Transition({"SINK_WB_ACK"}, {"WB_Ack"}, "I", Finish) }

L1Table == IdleAndTransient \cup SharedAndExclusive \cup Modified \cup Misses
=============================================================================
