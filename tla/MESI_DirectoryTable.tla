------------------------- MODULE MESI_DirectoryTable -------------------------
(***************************************************************************)
(* The transitions of MESI_CMP_directory-dir.sm, row by row.               *)
(***************************************************************************)
EXTENDS MESI_Transition

FetchAndWriteBack ==
  { Transition({"I"}, {"Fetch"}, "IM",
      <<"qf_queueMemoryFetchRequest", "e_ownerIsRequestor", "j_popIncomingRequestQueue">>),
    Transition({"IM"}, {"Memory_Data"}, "M", <<"d_sendData", "l_popMemQueue", "kd_wakeUpDependents">>),
    Transition({"M"}, {"CleanReplacement"}, "I",
      <<"c_clearOwner", "a_sendAck", "k_popIncomingResponseQueue">>),
    Transition({"M"}, {"Data"}, "MI",
      <<"m_writeDataToMemory", "qw_queueMemoryWBRequest", "k_popIncomingResponseQueue">>),
    Transition({"MI"}, {"Memory_Ack"}, "I",
      <<"c_clearOwner", "aa_sendAck", "l_popMemQueue", "kd_wakeUpDependents">>) }

\* Mutant: memory answers although the L2 owns the line.
DMAReadOwnedFromMemory ==
  Transition({"M"}, {"DMA_READ"}, "ID", <<"qf_queueMemoryFetchRequestDMA", "j_popIncomingRequestQueue">>)

\* A DMA request for a line the L2 owns has the L2 give it up first.
DMAReadOwned ==
  Transition({"M"}, {"DMA_READ"}, "M_DRD", <<"inv_sendCacheInvalidate", "j_popIncomingRequestQueue">>)

DMAWriteOwned ==
  Transition({"M"}, {"DMA_WRITE"}, "M_DWR",
    <<"v_allocateTBE", "inv_sendCacheInvalidate", "j_popIncomingRequestQueue">>)

DMAAccess ==
  { Transition({"I"}, {"DMA_READ"}, "ID",
      <<"qf_queueMemoryFetchRequestDMA", "j_popIncomingRequestQueue">>),
    Transition({"ID"}, {"Memory_Data"}, "I",
      <<"dr_sendDMAData", "l_popMemQueue", "kd_wakeUpDependents">>),
    Transition({"I"}, {"DMA_WRITE"}, "ID_W",
      <<"dw_writeDMAData", "qw_queueMemoryWBRequest_partial", "j_popIncomingRequestQueue">>),
    Transition({"ID_W"}, {"Memory_Ack"}, "I",
      <<"da_sendDMAAck", "l_popMemQueue", "kd_wakeUpDependents">>),
    Transition({"ID", "ID_W", "M_DRDI", "M_DWRI", "IM", "MI"}, {"Fetch", "Data"}, Same,
      <<"z_stallAndWaitRequest">>),
    Transition({"ID", "ID_W", "M_DRD", "M_DRDI", "M_DWR", "M_DWRI", "IM", "MI"},
      {"DMA_WRITE", "DMA_READ"}, Same, <<"zz_recycleDMAQueue">>),
    DMAReadOwned,
    Transition({"M_DRD"}, {"Data"}, "M_DRDI",
      <<"drp_sendDMAData", "m_writeDataToMemory", "qw_queueMemoryWBRequest",
        "k_popIncomingResponseQueue">>),
    Transition({"M_DRDI"}, {"Memory_Ack"}, "I",
      <<"aa_sendAck", "c_clearOwner", "l_popMemQueue", "kd_wakeUpDependents">>),
    DMAWriteOwned,
    Transition({"M_DWR"}, {"Data"}, "M_DWRI",
      <<"m_writeDataToMemory", "qw_queueMemoryWBRequest_partialTBE", "k_popIncomingResponseQueue">>),
    Transition({"M_DWRI"}, {"Memory_Ack"}, "I",
      <<"dwt_writeDMADataFromTBE", "aa_sendAck", "c_clearOwner", "da_sendDMAAck",
        "w_deallocateTBE", "l_popMemQueue", "kd_wakeUpDependents">>) }

DirectoryTable == FetchAndWriteBack \cup DMAAccess
=============================================================================
