---------------------------- MODULE MESI_L2Table -----------------------------
(***************************************************************************)
(* The transitions of MESI_CMP_directory-L2cache.sm, row by row.           *)
(***************************************************************************)
EXTENDS MESI_Transition, Sequences

Gets == {"L1_GETS", "L1_GET_INSTR"}
Puts == {"L1_PUTX", "L1_PUTX_old"}
Replacements == {"L2_Replacement", "L2_Replacement_clean"}
Blocked == {"SS_MB", "M_MB", "MT_MB", "MT_IIB", "MT_IB", "MT_SB"}

\* The start of a fetch from memory.
Allocate == <<"qq_allocateL2CacheBlock", "ll_clearSharers">>

\* Replacements that the L1s have a part in.
Recall == <<"i_allocateTBE", "f_sendInvToSharers", "rr_deallocateL2CacheBlock">>

\* An invalidation from memory waits while the line is being fetched or blocked.
MemInvWhileBusy ==
  Transition({"IM", "IS", "ISS"} \cup Blocked, {"MEM_Inv"}, Same, <<"zn_recycleResponseNetwork">>)

IdleAndFetching ==
  { Transition({"NP", "IS", "ISS", "IM", "SS", "M", "M_I", "I_I", "S_I", "M_MB", "MT_IB", "MT_SB"},
      {"L1_PUTX"}, Same, <<"t_sendWBAck", "jj_popL1RequestQueue">>),
    Transition({"NP", "SS", "M", "MT", "M_I", "I_I", "S_I", "IS", "ISS", "IM", "M_MB", "MT_IB", "MT_SB"},
      {"L1_PUTX_old"}, Same, <<"t_sendWBAck", "jj_popL1RequestQueue">>),
    Transition({"IM", "IS", "ISS"} \cup Blocked, Replacements, Same,
      <<"zz_stallAndWaitL1RequestQueue">>),
    MemInvWhileBusy,
    Transition({"S_I", "M_I", "MT_I"}, {"MEM_Inv"}, Same, <<"o_popIncomingResponseQueue">>),
    Transition(Blocked, Gets \cup {"L1_GETX", "L1_UPGRADE"}, Same,
      <<"zz_stallAndWaitL1RequestQueue">>),
    Transition({"NP"}, {"L1_GETS"}, "ISS", Allocate \o
      <<"nn_addSharer", "i_allocateTBE", "ss_recordGetSL1ID", "a_issueFetchToMemory", "jj_popL1RequestQueue">>),
    Transition({"NP"}, {"L1_GET_INSTR"}, "IS", Allocate \o
      <<"nn_addSharer", "i_allocateTBE", "ss_recordGetSL1ID", "a_issueFetchToMemory", "jj_popL1RequestQueue">>),
    Transition({"NP"}, {"L1_GETX"}, "IM", Allocate \o
      <<"i_allocateTBE", "xx_recordGetXL1ID", "a_issueFetchToMemory", "jj_popL1RequestQueue">>),
    Transition({"ISS"}, {"Mem_Data"}, "MT_MB",
      <<"m_writeDataToCache", "ex_sendExclusiveDataToGetSRequestors", "s_deallocateTBE",
        "o_popIncomingResponseQueue">>),
    Transition({"IS"}, {"Mem_Data"}, "SS",
      <<"m_writeDataToCache", "e_sendDataToGetSRequestors", "s_deallocateTBE",
        "o_popIncomingResponseQueue", "kd_wakeUpDependents">>),
    Transition({"IM"}, {"Mem_Data"}, "MT_MB",
      <<"m_writeDataToCache", "ee_sendDataToGetXRequestor", "s_deallocateTBE",
        "o_popIncomingResponseQueue">>),
    Transition({"IS", "ISS"}, Gets, "IS",
      <<"nn_addSharer", "ss_recordGetSL1ID", "jj_popL1RequestQueue">>),
    Transition({"IS", "ISS"}, {"L1_GETX"}, Same, <<"zz_stallAndWaitL1RequestQueue">>),
    Transition({"IM"}, Gets \cup {"L1_GETX"}, Same, <<"zz_stallAndWaitL1RequestQueue">>) }

GetsInShared ==
  Transition({"SS"}, Gets, Same,
    <<"ds_sendSharedDataToRequestor", "nn_addSharer", "jj_popL1RequestQueue">>)

FetchInModified ==
  Transition({"M"}, {"L1_GET_INSTR"}, "SS",
    <<"d_sendDataToRequestor", "nn_addSharer", "jj_popL1RequestQueue">>)

SharedAndModified ==
  { GetsInShared,
    FetchInModified,
    Transition({"SS"}, {"L1_GETX"}, "SS_MB",
      <<"d_sendDataToRequestor", "fwm_sendFwdInvToSharersMinusRequestor", "jj_popL1RequestQueue">>),
    Transition({"SS"}, {"L1_UPGRADE"}, "SS_MB",
      <<"fwm_sendFwdInvToSharersMinusRequestor", "ts_sendInvAckToUpgrader", "jj_popL1RequestQueue">>),
    Transition({"SS"}, {"L2_Replacement_clean"}, "I_I", Recall),
    Transition({"SS"}, {"L2_Replacement", "MEM_Inv"}, "S_I", Recall),
    Transition({"M"}, {"L1_GETX"}, "MT_MB", <<"d_sendDataToRequestor", "jj_popL1RequestQueue">>),
    Transition({"M"}, {"L1_GETS"}, "MT_MB",
      <<"dd_sendExclusiveDataToRequestor", "jj_popL1RequestQueue">>),
    Transition({"M"}, {"L2_Replacement", "MEM_Inv"}, "M_I",
      <<"i_allocateTBE", "c_exclusiveReplacement", "rr_deallocateL2CacheBlock">>),
    Transition({"M"}, {"L2_Replacement_clean"}, "M_I",
      <<"i_allocateTBE", "c_exclusiveCleanReplacement", "rr_deallocateL2CacheBlock">>) }

\* Mutant: the new sharer is not recorded.
SharingUnrecorded ==
  Transition({"MT_SB"}, {"Unblock"}, "SS", <<"k_popUnblockQueue", "kd_wakeUpDependents">>)

\* Both the data and the unblock of a forwarded GETS have come.
SharingDone ==
  Transition({"MT_SB"}, {"Unblock"}, "SS",
    <<"nnu_addSharerFromUnblock", "k_popUnblockQueue", "kd_wakeUpDependents">>)

\* Mutant: a line that an L1 owns is not replaced.
RecallCleanLineNever ==
  Transition({"MT"}, {"L2_Replacement_clean"}, Same, <<"zz_stallAndWaitL1RequestQueue">>)

\* The L2's copy is clean, the owner's may not be.
RecallCleanLine == Transition({"MT"}, {"L2_Replacement_clean"}, "MCT_I", Recall)

OwnedByAnL1 ==
  { Transition({"MT"}, {"L1_GETX"}, "MT_MB", <<"b_forwardRequestToExclusive", "jj_popL1RequestQueue">>),
    Transition({"MT"}, Gets, "MT_IIB", <<"b_forwardRequestToExclusive", "jj_popL1RequestQueue">>),
    Transition({"MT"}, {"L2_Replacement", "MEM_Inv"}, "MT_I", Recall),
    RecallCleanLine,
    Transition({"MT"}, {"L1_PUTX"}, "M",
      <<"ll_clearSharers", "mr_writeDataToCacheFromRequest", "t_sendWBAck", "jj_popL1RequestQueue">>),
    Transition({"SS_MB"}, {"Unblock_Cancel"}, "SS", <<"k_popUnblockQueue", "kd_wakeUpDependents">>),
    Transition({"MT_MB", "MT_IB"}, {"Unblock_Cancel"}, "MT",
      <<"k_popUnblockQueue", "kd_wakeUpDependents">>),
    Transition({"SS_MB", "M_MB", "MT_MB"}, {"Exclusive_Unblock"}, "MT",
      <<"mmu_markExclusiveFromUnblock", "k_popUnblockQueue", "kd_wakeUpDependents">>),
    Transition({"MT_IIB"}, Puts, Same, <<"zz_stallAndWaitL1RequestQueue">>),
    Transition({"MT_IIB"}, {"Unblock"}, "MT_IB", <<"nnu_addSharerFromUnblock", "k_popUnblockQueue">>),
    Transition({"MT_IIB"}, {"WB_Data", "WB_Data_clean"}, "MT_SB",
      <<"m_writeDataToCache", "o_popIncomingResponseQueue">>),
    Transition({"MT_IB"}, {"WB_Data", "WB_Data_clean"}, "SS",
      <<"m_writeDataToCache", "o_popIncomingResponseQueue", "kd_wakeUpDependents">>),
    SharingDone }

\* Mutant: a clean line has one sharer to hear from.
AckOfRecallDirty == Transition({"S_I"}, {"Ack"}, Same, <<"q_updateAck", "o_popIncomingResponseQueue">>)

AckOfRecall == Transition({"I_I", "S_I"}, {"Ack"}, Same, <<"q_updateAck", "o_popIncomingResponseQueue">>)

\* The owner answers a recall with its data, which goes on to memory.
DirtyRecallDone ==
  Transition({"MT_I", "MCT_I"}, {"WB_Data"}, "M_I",
    <<"qq_writeDataToTBE", "ct_exclusiveReplacementFromTBE", "o_popIncomingResponseQueue">>)

\* Mutant: the directory is not told of a clean replacement.
CleanRecallDoneSilently ==
  Transition({"MCT_I"}, {"WB_Data_clean", "Ack_all"}, "NP",
    <<"s_deallocateTBE", "o_popIncomingResponseQueue", "kd_wakeUpDependents">>)

CleanRecallDone ==
  Transition({"MCT_I"}, {"WB_Data_clean", "Ack_all"}, "M_I",
    <<"c_exclusiveCleanReplacement", "o_popIncomingResponseQueue">>)

\* A write-back of an L1 that crosses a recall or its own unblock waits.
PutxMustWait ==
  Transition({"MCT_I", "MT_I", "MT_MB", "SS_MB"}, Puts, Same, <<"zz_stallAndWaitL1RequestQueue">>)

WriteBackDone ==
  Transition({"M_I"}, {"Mem_Ack"}, "NP",
    <<"s_deallocateTBE", "o_popIncomingResponseQueue", "kd_wakeUpDependents">>)

WritingBack ==
  { Transition({"I_I", "S_I", "MT_I", "MCT_I", "M_I"}, Gets \cup {"L1_GETX", "L1_UPGRADE"}, Same,
      <<"zz_stallAndWaitL1RequestQueue">>),
    AckOfRecall,
    Transition({"I_I"}, {"Ack_all"}, "M_I",
      <<"c_exclusiveCleanReplacement", "o_popIncomingResponseQueue">>),
    DirtyRecallDone,
    CleanRecallDone,
    Transition({"MT_I", "S_I"}, {"Ack_all"}, "M_I",
      <<"ct_exclusiveReplacementFromTBE", "o_popIncomingResponseQueue">>),
    PutxMustWait,
    Transition({"MT_I"}, {"WB_Data_clean"}, "NP",
      <<"s_deallocateTBE", "o_popIncomingResponseQueue", "kd_wakeUpDependents">>),
    WriteBackDone }

L2Table == IdleAndFetching \cup SharedAndModified \cup OwnedByAnL1 \cup WritingBack
=============================================================================
