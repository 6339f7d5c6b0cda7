------------------------------ MODULE BodiesMtoZ ------------------------------
(***************************************************************************)
(* The bodies of gen/mpiwrapper/wrappers.c from MPI_Mprobe to the end, a   *)
(* row for each, in the order of the file.                                 *)
(***************************************************************************)
EXTENDS BodyRows

MPI_Mprobe_to_Mrecv == {
  Makes("MPI_Mprobe", {"message"}),
  Changes("MPI_Mrecv", {"message"})}

MPI_Mrecv_c_to_Neighbor_allgather == {
  Twin(Changes("MPI_Mrecv_c", {"message"}), {"count"},
    Narrowing(<<"count">>)),
  Calls("MPI_Neighbor_allgather")}

MPI_Neighbor_allgather_c_to_Neighbor_allgather_init == {
  Twin(Calls("MPI_Neighbor_allgather_c"), {"sendcount", "recvcount"},
    Narrowing(<<"sendcount", "recvcount">>)),
  Makes("MPI_Neighbor_allgather_init", {"request"})}

MPI_Neighbor_allgather_init_c_to_Neighbor_allgatherv == {
  Twin(Makes("MPI_Neighbor_allgather_init_c", {"request"}), {"sendcount",
    "recvcount"}, Narrowing(<<"sendcount", "recvcount">>)),
  Calls("MPI_Neighbor_allgatherv")}

MPI_Neighbor_allgatherv_c == {
  Twin(Calls("MPI_Neighbor_allgatherv_c"), {"sendcount", "recvcounts",
    "displs"}, Local(<<Narrowed("sendcount"), Asked("neighbor_extents")>>,
    <<Counts("recvcounts"), Counts("displs")>>))}

MPI_Neighbor_allgatherv_init == {
  Makes("MPI_Neighbor_allgatherv_init", {"request"})}

MPI_Neighbor_allgatherv_init_c == {
  Persistent(Twin(Makes("MPI_Neighbor_allgatherv_init_c", {"request"}),
    {"sendcount", "recvcounts", "displs"}, Shared(<<Narrowed("sendcount"),
    Asked("neighbor_extents")>>, <<Counts("recvcounts"),
    Counts("displs")>>)))}

MPI_Neighbor_alltoall_to_Neighbor_alltoall_c == {
  Calls("MPI_Neighbor_alltoall"),
  Twin(Calls("MPI_Neighbor_alltoall_c"), {"sendcount", "recvcount"},
    Narrowing(<<"sendcount", "recvcount">>))}

MPI_Neighbor_alltoall_init == {
  Makes("MPI_Neighbor_alltoall_init", {"request"})}

MPI_Neighbor_alltoall_init_c == {
  Twin(Makes("MPI_Neighbor_alltoall_init_c", {"request"}), {"sendcount",
    "recvcount"}, Narrowing(<<"sendcount", "recvcount">>))}

MPI_Neighbor_alltoallv == {
  Calls("MPI_Neighbor_alltoallv")}

MPI_Neighbor_alltoallv_c == {
  Twin(Calls("MPI_Neighbor_alltoallv_c"), {"sendcounts", "sdispls",
    "recvcounts", "rdispls"}, Local(<<Asked("neighbor_extents")>>,
    <<Counts("sendcounts"), Counts("sdispls"), Counts("recvcounts"),
    Counts("rdispls")>>))}

MPI_Neighbor_alltoallv_init == {
  Makes("MPI_Neighbor_alltoallv_init", {"request"})}

MPI_Neighbor_alltoallv_init_c == {
  Persistent(Twin(Makes("MPI_Neighbor_alltoallv_init_c", {"request"}),
    {"sendcounts", "sdispls", "recvcounts", "rdispls"},
    Shared(<<Asked("neighbor_extents")>>, <<Counts("sendcounts"),
    Counts("sdispls"), Counts("recvcounts"), Counts("rdispls")>>)))}

MPI_Neighbor_alltoallw == {
  Native(Calls("MPI_Neighbor_alltoallw"),
    Local(<<Asked("neighbor_extents")>>, <<Handles("sendtypes"),
    Handles("recvtypes")>>))}

MPI_Neighbor_alltoallw_c == {
  Twin(Native(Calls("MPI_Neighbor_alltoallw_c"),
    Local(<<Asked("neighbor_extents")>>, <<Handles("sendtypes"),
    Handles("recvtypes")>>)), {"sendcounts", "recvcounts"},
    Local(<<Asked("neighbor_extents")>>, <<Counts("sendcounts"),
    Handles("sendtypes"), Counts("recvcounts"), Handles("recvtypes")>>))}

MPI_Neighbor_alltoallw_init == {
  Persistent(Native(Makes("MPI_Neighbor_alltoallw_init", {"request"}),
    Shared(<<Asked("neighbor_extents")>>, <<Handles("sendtypes"),
    Handles("recvtypes")>>)))}

MPI_Neighbor_alltoallw_init_c == {
  Persistent(Twin(Native(Makes("MPI_Neighbor_alltoallw_init_c",
    {"request"}), Shared(<<Asked("neighbor_extents")>>,
    <<Handles("sendtypes"), Handles("recvtypes")>>)), {"sendcounts",
    "recvcounts"}, Shared(<<Asked("neighbor_extents")>>,
    <<Counts("sendcounts"), Handles("sendtypes"), Counts("recvcounts"),
    Handles("recvtypes")>>)))}

MPI_Op_commutative_to_Pack == {
  Calls("MPI_Op_commutative"),
  Changes("MPI_Op_free", {"op"}),
  Calls("MPI_Pack")}

MPI_Pack_c_to_Pack_external == {
  Twin(Calls("MPI_Pack_c"), {"incount", "outsize", "position"},
    Narrowing(<<"incount", "outsize", "position">>)),
  Calls("MPI_Pack_external")}

MPI_Pack_external_c_to_Pack_external_size == {
  Twin(Calls("MPI_Pack_external_c"), {"incount", "outsize", "position"},
    Narrowing(<<"incount", "outsize", "position">>)),
  Calls("MPI_Pack_external_size")}

MPI_Pack_external_size_c_to_Pack_size_c == {
  Twin(Calls("MPI_Pack_external_size_c"), {"incount"},
    Narrowing(<<"incount">>)),
  Calls("MPI_Pack_size"),
  Twin(Calls("MPI_Pack_size_c"), {"incount"}, Narrowing(<<"incount">>))}

MPI_Parrived_to_Pready_range == {
  Calls("MPI_Parrived"),
  Calls("MPI_Pready"),
  Calls("MPI_Pready_list"),
  Calls("MPI_Pready_range")}

MPI_Precv_init_to_Psend_init == {
  Makes("MPI_Precv_init", {"request"}),
  Calls("MPI_Probe"),
  Makes("MPI_Psend_init", {"request"})}

MPI_Publish_name_to_Put == {
  Calls("MPI_Publish_name"),
  Calls("MPI_Put")}

MPI_Put_c_to_Query_thread == {
  Twin(Calls("MPI_Put_c"), {"origin_count", "target_count"},
    Narrowing(<<"origin_count", "target_count">>)),
  Calls("MPI_Query_thread")}

MPI_Raccumulate == {
  Makes("MPI_Raccumulate", {"request"})}

MPI_Raccumulate_c == {
  Twin(Makes("MPI_Raccumulate_c", {"request"}), {"origin_count",
    "target_count"}, Narrowing(<<"origin_count", "target_count">>))}

MPI_Recv_to_Recv_c == {
  Calls("MPI_Recv"),
  Twin(Calls("MPI_Recv_c"), {"count"}, Narrowing(<<"count">>))}

MPI_Recv_init_to_Recv_init_c == {
  Makes("MPI_Recv_init", {"request"}),
  Twin(Makes("MPI_Recv_init_c", {"request"}), {"count"},
    Narrowing(<<"count">>))}

MPI_Reduce_to_Reduce_c == {
  Calls("MPI_Reduce"),
  Twin(Calls("MPI_Reduce_c"), {"count"}, Narrowing(<<"count">>))}

MPI_Reduce_init_to_Reduce_init_c == {
  Makes("MPI_Reduce_init", {"request"}),
  Twin(Makes("MPI_Reduce_init_c", {"request"}), {"count"},
    Narrowing(<<"count">>))}

MPI_Reduce_local_to_Reduce_scatter == {
  Calls("MPI_Reduce_local"),
  Twin(Calls("MPI_Reduce_local_c"), {"count"}, Narrowing(<<"count">>)),
  Calls("MPI_Reduce_scatter")}

MPI_Reduce_scatter_c_to_Reduce_scatter_block == {
  Twin(Calls("MPI_Reduce_scatter_c"), {"recvcounts"},
    Local(<<Asked("comm_extent")>>, <<Counts("recvcounts")>>)),
  Calls("MPI_Reduce_scatter_block")}

MPI_Reduce_scatter_block_c_to_Reduce_scatter_block_init == {
  Twin(Calls("MPI_Reduce_scatter_block_c"), {"recvcount"},
    Narrowing(<<"recvcount">>)),
  Makes("MPI_Reduce_scatter_block_init", {"request"})}

MPI_Reduce_scatter_block_init_c_to_Reduce_scatter_init == {
  Twin(Makes("MPI_Reduce_scatter_block_init_c", {"request"}),
    {"recvcount"}, Narrowing(<<"recvcount">>)),
  Makes("MPI_Reduce_scatter_init", {"request"})}

MPI_Reduce_scatter_init_c_to_Request_free == {
  Persistent(Twin(Makes("MPI_Reduce_scatter_init_c", {"request"}),
    {"recvcounts"}, Shared(<<Asked("comm_extent")>>,
    <<Counts("recvcounts")>>))),
  CompletesOne("MPI_Request_free", "request")}

MPI_Request_get_status_to_Request_get_status_all == {
  Calls("MPI_Request_get_status"),
  Native(Calls("MPI_Request_get_status_all"), Local(<<CountCheck>>,
    <<Handles("array_of_requests"), Statuses("statuses")>>))}

MPI_Request_get_status_any_to_Request_get_status_some == {
  Native(Calls("MPI_Request_get_status_any"), Local(<<CountCheck>>,
    <<Handles("array_of_requests")>>)),
  Native(Calls("MPI_Request_get_status_some"), Local(<<CountCheck>>,
    <<Handles("array_of_requests"), Statuses("statuses")>>))}

MPI_Rget == {
  Makes("MPI_Rget", {"request"})}

MPI_Rget_c == {
  Twin(Makes("MPI_Rget_c", {"request"}), {"origin_count", "target_count"},
    Narrowing(<<"origin_count", "target_count">>))}

MPI_Rget_accumulate == {
  Makes("MPI_Rget_accumulate", {"request"})}

MPI_Rget_accumulate_c == {
  Twin(Makes("MPI_Rget_accumulate_c", {"request"}), {"origin_count",
    "result_count", "target_count"}, Narrowing(<<"origin_count",
    "result_count", "target_count">>))}

MPI_Rput == {
  Makes("MPI_Rput", {"request"})}

MPI_Rput_c_to_Rsend == {
  Twin(Makes("MPI_Rput_c", {"request"}), {"origin_count", "target_count"},
    Narrowing(<<"origin_count", "target_count">>)),
  Calls("MPI_Rsend")}

MPI_Rsend_c_to_Rsend_init == {
  Twin(Calls("MPI_Rsend_c"), {"count"}, Narrowing(<<"count">>)),
  Makes("MPI_Rsend_init", {"request"})}

MPI_Rsend_init_c_to_Scan == {
  Twin(Makes("MPI_Rsend_init_c", {"request"}), {"count"},
    Narrowing(<<"count">>)),
  Calls("MPI_Scan")}

MPI_Scan_c_to_Scan_init == {
  Twin(Calls("MPI_Scan_c"), {"count"}, Narrowing(<<"count">>)),
  Makes("MPI_Scan_init", {"request"})}

MPI_Scan_init_c_to_Scatter == {
  Twin(Makes("MPI_Scan_init_c", {"request"}), {"count"},
    Narrowing(<<"count">>)),
  Calls("MPI_Scatter")}

MPI_Scatter_c_to_Scatter_init == {
  Twin(Calls("MPI_Scatter_c"), {"sendcount", "recvcount"},
    Narrowing(<<"sendcount", "recvcount">>)),
  Makes("MPI_Scatter_init", {"request"})}

MPI_Scatter_init_c_to_Scatterv == {
  Twin(Makes("MPI_Scatter_init_c", {"request"}), {"sendcount",
    "recvcount"}, Narrowing(<<"sendcount", "recvcount">>)),
  Calls("MPI_Scatterv")}

MPI_Scatterv_c == {
  Twin(Calls("MPI_Scatterv_c"), {"sendcounts", "displs", "recvcount"},
    Local(<<Narrowed("recvcount"), Asked("root_extent")>>,
    <<Counts("sendcounts"), Counts("displs")>>))}

MPI_Scatterv_init == {
  Makes("MPI_Scatterv_init", {"request"})}

MPI_Scatterv_init_c == {
  Persistent(Twin(Makes("MPI_Scatterv_init_c", {"request"}),
    {"sendcounts", "displs", "recvcount"}, Shared(<<Narrowed("recvcount"),
    Asked("root_extent")>>, <<Counts("sendcounts"), Counts("displs")>>)))}

MPI_Send_to_Send_init == {
  Calls("MPI_Send"),
  Twin(Calls("MPI_Send_c"), {"count"}, Narrowing(<<"count">>)),
  Makes("MPI_Send_init", {"request"})}

MPI_Send_init_c_to_Sendrecv == {
  Twin(Makes("MPI_Send_init_c", {"request"}), {"count"},
    Narrowing(<<"count">>)),
  Calls("MPI_Sendrecv")}

MPI_Sendrecv_c_to_Sendrecv_replace == {
  Twin(Calls("MPI_Sendrecv_c"), {"sendcount", "recvcount"},
    Narrowing(<<"sendcount", "recvcount">>)),
  Calls("MPI_Sendrecv_replace")}

MPI_Sendrecv_replace_c_to_Session_flush_buffer == {
  Twin(Calls("MPI_Sendrecv_replace_c"), {"count"},
    Narrowing(<<"count">>)),
  Calls("MPI_Session_call_errhandler"),
  Calls("MPI_Session_flush_buffer")}

MPI_Session_get_errhandler_to_Session_get_num_psets == {
  Makes("MPI_Session_get_errhandler", {"errhandler"}),
  Makes("MPI_Session_get_info", {"info_used"}),
  Calls("MPI_Session_get_nth_pset"),
  Calls("MPI_Session_get_num_psets")}

MPI_Session_get_pset_info_to_Ssend == {
  Makes("MPI_Session_get_pset_info", {"info"}),
  Makes("MPI_Session_iflush_buffer", {"request"}),
  Calls("MPI_Session_set_errhandler"),
  Calls("MPI_Ssend")}

MPI_Ssend_c_to_Ssend_init == {
  Twin(Calls("MPI_Ssend_c"), {"count"}, Narrowing(<<"count">>)),
  Makes("MPI_Ssend_init", {"request"})}

MPI_Ssend_init_c_to_Start == {
  Twin(Makes("MPI_Ssend_init_c", {"request"}), {"count"},
    Narrowing(<<"count">>)),
  CompletesOne("MPI_Start", "request")}

MPI_Startall_to_Status_set_source == {
  Native(CompletesArray("MPI_Startall", "array_of_requests"),
    Local(<<CountCheck>>, <<Handles("array_of_requests")>>)),
  CallsNothing("MPI_Status_get_error"),
  CallsNothing("MPI_Status_get_source"),
  CallsNothing("MPI_Status_get_tag"),
  CallsNothing("MPI_Status_set_error"),
  CallsNothing("MPI_Status_set_source")}

MPI_Status_set_tag_to_Testall == {
  CallsNothing("MPI_Status_set_tag"),
  CompletesOne("MPI_Test", "request"),
  Native(CompletesArray("MPI_Testall", "array_of_requests"),
    Local(<<CountCheck>>, <<Handles("array_of_requests"),
    Statuses("statuses")>>))}

MPI_Testany == {
  Native(CompletesArray("MPI_Testany", "array_of_requests"),
    Local(<<CountCheck>>, <<Handles("array_of_requests")>>))}

MPI_Testsome_to_Type_commit == {
  Native(CompletesArray("MPI_Testsome", "array_of_requests"),
    Local(<<CountCheck>>, <<Handles("array_of_requests"),
    Statuses("statuses")>>)),
  Calls("MPI_Topo_test"),
  Changes("MPI_Type_commit", {"datatype"})}

MPI_Type_contiguous_to_Type_contiguous_c == {
  Makes("MPI_Type_contiguous", {"newtype"}),
  Twin(Makes("MPI_Type_contiguous_c", {"newtype"}), {"count"},
    Narrowing(<<"count">>))}

MPI_Type_create_darray == {
  Native(Makes("MPI_Type_create_darray", {"newtype"}),
    Local(<<CountCheck>>, <<Handles("array_of_distribs"),
    Handles("array_of_dargs")>>))}

MPI_Type_create_darray_c == {
  Twin(Native(Makes("MPI_Type_create_darray_c", {"newtype"}),
    Local(<<CountCheck>>, <<Handles("array_of_distribs"),
    Handles("array_of_dargs")>>)), {"array_of_gsizes"},
    Local(<<CountCheck>>, <<Counts("array_of_gsizes"),
    Handles("array_of_distribs"), Handles("array_of_dargs")>>))}

MPI_Type_create_f90_complex_to_Type_create_hindexed == {
  Makes("MPI_Type_create_f90_complex", {"newtype"}),
  Makes("MPI_Type_create_f90_integer", {"newtype"}),
  Makes("MPI_Type_create_f90_real", {"newtype"}),
  Makes("MPI_Type_create_hindexed", {"newtype"})}

MPI_Type_create_hindexed_c == {
  Twin(Makes("MPI_Type_create_hindexed_c", {"newtype"}), {"count",
    "array_of_blocklengths", "array_of_displacements"},
    Local(<<Narrowed("count"), CountCheck>>,
    <<Counts("array_of_blocklengths"),
    Counts("array_of_displacements")>>))}

MPI_Type_create_hindexed_block_to_Type_create_hindexed_block_c == {
  Makes("MPI_Type_create_hindexed_block", {"newtype"}),
  Twin(Makes("MPI_Type_create_hindexed_block_c", {"newtype"}), {"count",
    "blocklength", "array_of_displacements"}, Local(<<Narrowed("count"),
    Narrowed("blocklength"), CountCheck>>,
    <<Counts("array_of_displacements")>>))}

MPI_Type_create_hvector_to_Type_create_hvector_c == {
  Makes("MPI_Type_create_hvector", {"newtype"}),
  Twin(Makes("MPI_Type_create_hvector_c", {"newtype"}), {"count",
    "blocklength", "stride"}, Narrowing(<<"count", "blocklength",
    "stride">>))}

MPI_Type_create_indexed_block_to_Type_create_indexed_block_c == {
  Makes("MPI_Type_create_indexed_block", {"newtype"}),
  Twin(Makes("MPI_Type_create_indexed_block_c", {"newtype"}), {"count",
    "blocklength", "array_of_displacements"}, Local(<<Narrowed("count"),
    Narrowed("blocklength"), CountCheck>>,
    <<Counts("array_of_displacements")>>))}

MPI_Type_create_resized_to_Type_create_resized_c == {
  Makes("MPI_Type_create_resized", {"newtype"}),
  Twin(Makes("MPI_Type_create_resized_c", {"newtype"}), {"lb", "extent"},
    Narrowing(<<"lb", "extent">>))}

MPI_Type_create_struct == {
  Native(Makes("MPI_Type_create_struct", {"newtype"}),
    Local(<<CountCheck>>, <<Handles("array_of_types")>>))}

MPI_Type_create_struct_c == {
  Twin(Native(Makes("MPI_Type_create_struct_c", {"newtype"}),
    Local(<<CountCheck>>, <<Handles("array_of_types")>>)), {"count",
    "array_of_blocklengths", "array_of_displacements"},
    Local(<<Narrowed("count"), CountCheck>>,
    <<Counts("array_of_blocklengths"), Counts("array_of_displacements"),
    Handles("array_of_types")>>))}

MPI_Type_create_subarray == {
  Makes("MPI_Type_create_subarray", {"newtype"})}

MPI_Type_create_subarray_c_to_Type_delete_attr == {
  Twin(Makes("MPI_Type_create_subarray_c", {"newtype"}),
    {"array_of_sizes", "array_of_subsizes", "array_of_starts"},
    Local(<<CountCheck>>, <<Counts("array_of_sizes"),
    Counts("array_of_subsizes"), Counts("array_of_starts")>>)),
  Calls("MPI_Type_delete_attr")}

MPI_Type_dup_to_Type_get_attr == {
  Makes("MPI_Type_dup", {"newtype"}),
  Changes("MPI_Type_free", {"datatype"}),
  Calls("MPI_Type_free_keyval"),
  Calls("MPI_Type_get_attr")}

MPI_Type_get_contents == {
  Native(FillsIn("MPI_Type_get_contents", {"array_of_datatypes"}),
    Local(<<Asked("type_ndatatypes")>>, <<Room("datatypes")>>))}

MPI_Type_get_contents_c == {
  Twin(Native(FillsIn("MPI_Type_get_contents_c", {"array_of_datatypes"}),
    Local(<<Asked("type_ndatatypes_c")>>, <<Room("datatypes")>>)),
    {"max_integers", "max_addresses", "max_datatypes"},
    Local(<<Narrowed("max_integers"), Narrowed("max_addresses"),
    Narrowed("max_datatypes"), Asked("type_ndatatypes")>>,
    <<Room("datatypes")>>))}

MPI_Type_get_envelope_to_Type_get_envelope_c == {
  Calls("MPI_Type_get_envelope"),
  Twin(Calls("MPI_Type_get_envelope_c"), {}, Narrowing(<< >>))}

MPI_Type_get_extent_to_Type_get_true_extent == {
  Calls("MPI_Type_get_extent"),
  Twin(Calls("MPI_Type_get_extent_c"), {}, Narrowing(<< >>)),
  Calls("MPI_Type_get_extent_x"),
  Calls("MPI_Type_get_true_extent")}

MPI_Type_get_true_extent_c_to_Type_get_value_index == {
  Twin(Calls("MPI_Type_get_true_extent_c"), {}, Narrowing(<< >>)),
  Calls("MPI_Type_get_true_extent_x"),
  Makes("MPI_Type_get_value_index", {"pair_type"})}

MPI_Type_indexed == {
  Makes("MPI_Type_indexed", {"newtype"})}

MPI_Type_indexed_c_to_Type_match_size == {
  Twin(Makes("MPI_Type_indexed_c", {"newtype"}), {"count",
    "array_of_blocklengths", "array_of_displacements"},
    Local(<<Narrowed("count"), CountCheck>>,
    <<Counts("array_of_blocklengths"),
    Counts("array_of_displacements")>>)),
  Makes("MPI_Type_match_size", {"datatype"})}

MPI_Type_set_attr_to_Type_size_c == {
  Calls("MPI_Type_set_attr"),
  Calls("MPI_Type_set_name"),
  Calls("MPI_Type_size"),
  Twin(Calls("MPI_Type_size_c"), {}, Narrowing(<< >>))}

MPI_Type_size_x_to_Type_vector_c == {
  Calls("MPI_Type_size_x"),
  Makes("MPI_Type_vector", {"newtype"}),
  Twin(Makes("MPI_Type_vector_c", {"newtype"}), {"count", "blocklength",
    "stride"}, Narrowing(<<"count", "blocklength", "stride">>))}

MPI_Unpack_to_Unpack_external == {
  Calls("MPI_Unpack"),
  Twin(Calls("MPI_Unpack_c"), {"insize", "position", "outcount"},
    Narrowing(<<"insize", "position", "outcount">>)),
  Calls("MPI_Unpack_external")}

MPI_Unpack_external_c_to_Wait == {
  Twin(Calls("MPI_Unpack_external_c"), {"insize", "position", "outcount"},
    Narrowing(<<"insize", "position", "outcount">>)),
  Calls("MPI_Unpublish_name"),
  CompletesOne("MPI_Wait", "request")}

MPI_Waitall_to_Waitany == {
  Native(CompletesArray("MPI_Waitall", "array_of_requests"),
    Local(<<CountCheck>>, <<Handles("array_of_requests"),
    Statuses("statuses")>>)),
  Native(CompletesArray("MPI_Waitany", "array_of_requests"),
    Local(<<CountCheck>>, <<Handles("array_of_requests")>>))}

MPI_Waitsome_to_Win_allocate == {
  Native(CompletesArray("MPI_Waitsome", "array_of_requests"),
    Local(<<CountCheck>>, <<Handles("array_of_requests"),
    Statuses("statuses")>>)),
  Makes("MPI_Win_allocate", {"win"})}

MPI_Win_allocate_c_to_Win_allocate_shared == {
  Twin(Makes("MPI_Win_allocate_c", {"win"}), {"disp_unit"},
    Narrowing(<<"disp_unit">>)),
  Makes("MPI_Win_allocate_shared", {"win"})}

MPI_Win_allocate_shared_c_to_Win_complete == {
  Twin(Makes("MPI_Win_allocate_shared_c", {"win"}), {"disp_unit"},
    Narrowing(<<"disp_unit">>)),
  Calls("MPI_Win_attach"),
  Calls("MPI_Win_call_errhandler"),
  Calls("MPI_Win_complete")}

MPI_Win_create_to_Win_create_dynamic == {
  Makes("MPI_Win_create", {"win"}),
  Twin(Makes("MPI_Win_create_c", {"win"}), {"disp_unit"},
    Narrowing(<<"disp_unit">>)),
  Makes("MPI_Win_create_dynamic", {"win"})}

MPI_Win_delete_attr_to_Win_flush_local == {
  Calls("MPI_Win_delete_attr"),
  Calls("MPI_Win_detach"),
  Calls("MPI_Win_fence"),
  Calls("MPI_Win_flush"),
  Calls("MPI_Win_flush_all"),
  Calls("MPI_Win_flush_local")}

MPI_Win_flush_local_all_to_Win_get_group == {
  Calls("MPI_Win_flush_local_all"),
  Changes("MPI_Win_free", {"win"}),
  Calls("MPI_Win_free_keyval"),
  Makes("MPI_Win_get_errhandler", {"errhandler"}),
  Makes("MPI_Win_get_group", {"group"})}

MPI_Win_get_info_to_Win_set_attr == {
  Makes("MPI_Win_get_info", {"info_used"}),
  Calls("MPI_Win_lock"),
  Calls("MPI_Win_lock_all"),
  Calls("MPI_Win_post"),
  Calls("MPI_Win_set_attr")}

MPI_Win_set_errhandler_to_Win_shared_query == {
  Calls("MPI_Win_set_errhandler"),
  Calls("MPI_Win_set_info"),
  Calls("MPI_Win_set_name"),
  Calls("MPI_Win_shared_query")}

MPI_Win_shared_query_c_to_Win_test == {
  Twin(Calls("MPI_Win_shared_query_c"), {}, Narrowing(<< >>)),
  Calls("MPI_Win_start"),
  Calls("MPI_Win_sync"),
  Calls("MPI_Win_test")}

MPI_Win_unlock_to_Wtick == {
  Calls("MPI_Win_unlock"),
  Calls("MPI_Win_unlock_all"),
  Calls("MPI_Win_wait"),
  Value("MPI_Aint_add"),
  Value("MPI_Aint_diff"),
  Value("MPI_Wtick")}

MPI_Wtime_to_T_category_get_events == {
  Value("MPI_Wtime"),
  Calls("MPI_T_category_changed"),
  Calls("MPI_T_category_get_categories"),
  Calls("MPI_T_category_get_cvars"),
  Calls("MPI_T_category_get_events")}

MPI_T_category_get_index_to_T_category_get_num_events == {
  Calls("MPI_T_category_get_index"),
  Calls("MPI_T_category_get_info"),
  Calls("MPI_T_category_get_num"),
  Calls("MPI_T_category_get_num_events")}

MPI_T_category_get_pvars_to_T_cvar_get_info == {
  Calls("MPI_T_category_get_pvars"),
  Calls("MPI_T_cvar_get_index"),
  Makes("MPI_T_cvar_get_info", {"datatype", "enumtype"})}

MPI_T_cvar_get_num_to_T_cvar_read == {
  Calls("MPI_T_cvar_get_num"),
  Native(Makes("MPI_T_cvar_handle_alloc", {"handle"}),
    Local(<<Asked("cvar_bind")>>, << >>)),
  Changes("MPI_T_cvar_handle_free", {"handle"}),
  Calls("MPI_T_cvar_read")}

MPI_T_cvar_write_to_T_event_callback_get_info == {
  Calls("MPI_T_cvar_write"),
  Calls("MPI_T_enum_get_info"),
  Calls("MPI_T_enum_get_item"),
  Makes("MPI_T_event_callback_get_info", {"info_used"})}

MPI_T_event_callback_set_info_to_T_event_get_index == {
  Calls("MPI_T_event_callback_set_info"),
  Calls("MPI_T_event_copy"),
  Calls("MPI_T_event_get_index")}

MPI_T_event_get_info_to_T_event_get_num == {
  Native(MakesAndFills("MPI_T_event_get_info", {"enumtype", "info"},
    {"array_of_datatypes"}), Local(<< >>, <<Room("datatypes")>>)),
  Calls("MPI_T_event_get_num")}

MPI_T_event_get_source_to_T_event_handle_get_info == {
  Calls("MPI_T_event_get_source"),
  Calls("MPI_T_event_get_timestamp"),
  Native(Makes("MPI_T_event_handle_alloc", {"event_registration"}),
    Local(<<Asked("event_bind")>>, << >>)),
  Makes("MPI_T_event_handle_get_info", {"info_used"})}

MPI_T_event_handle_set_info_to_T_pvar_get_index == {
  Calls("MPI_T_event_handle_set_info"),
  Calls("MPI_T_event_read"),
  Calls("MPI_T_finalize"),
  Calls("MPI_T_init_thread"),
  Calls("MPI_T_pvar_get_index")}

MPI_T_pvar_get_info_to_T_pvar_get_num == {
  Makes("MPI_T_pvar_get_info", {"datatype", "enumtype"}),
  Calls("MPI_T_pvar_get_num")}

MPI_T_pvar_handle_alloc_to_T_pvar_read == {
  Native(Makes("MPI_T_pvar_handle_alloc", {"handle"}),
    Local(<<Asked("pvar_bind")>>, << >>)),
  Changes("MPI_T_pvar_handle_free", {"handle"}),
  Calls("MPI_T_pvar_read")}

MPI_T_pvar_readreset_to_T_pvar_start == {
  Calls("MPI_T_pvar_readreset"),
  Calls("MPI_T_pvar_reset"),
  Makes("MPI_T_pvar_session_create", {"session"}),
  Changes("MPI_T_pvar_session_free", {"session"}),
  Calls("MPI_T_pvar_start")}

MPI_T_pvar_stop_to_T_source_get_info == {
  Calls("MPI_T_pvar_stop"),
  Calls("MPI_T_pvar_write"),
  Makes("MPI_T_source_get_info", {"info"})}

MPI_T_source_get_num_to_T_source_get_timestamp == {
  Calls("MPI_T_source_get_num"),
  Calls("MPI_T_source_get_timestamp")}

-----------------------------------------------------------------------------
BodiesFromMToZ ==
  MPI_Mprobe_to_Mrecv \cup MPI_Mrecv_c_to_Neighbor_allgather \cup
  MPI_Neighbor_allgather_c_to_Neighbor_allgather_init \cup
  MPI_Neighbor_allgather_init_c_to_Neighbor_allgatherv \cup
  MPI_Neighbor_allgatherv_c \cup MPI_Neighbor_allgatherv_init \cup
  MPI_Neighbor_allgatherv_init_c \cup
  MPI_Neighbor_alltoall_to_Neighbor_alltoall_c \cup
  MPI_Neighbor_alltoall_init \cup MPI_Neighbor_alltoall_init_c \cup
  MPI_Neighbor_alltoallv \cup MPI_Neighbor_alltoallv_c \cup
  MPI_Neighbor_alltoallv_init \cup MPI_Neighbor_alltoallv_init_c \cup
  MPI_Neighbor_alltoallw \cup MPI_Neighbor_alltoallw_c \cup
  MPI_Neighbor_alltoallw_init \cup MPI_Neighbor_alltoallw_init_c \cup
  MPI_Op_commutative_to_Pack \cup MPI_Pack_c_to_Pack_external \cup
  MPI_Pack_external_c_to_Pack_external_size \cup
  MPI_Pack_external_size_c_to_Pack_size_c \cup
  MPI_Parrived_to_Pready_range \cup MPI_Precv_init_to_Psend_init \cup
  MPI_Publish_name_to_Put \cup MPI_Put_c_to_Query_thread \cup
  MPI_Raccumulate \cup MPI_Raccumulate_c \cup MPI_Recv_to_Recv_c \cup
  MPI_Recv_init_to_Recv_init_c \cup MPI_Reduce_to_Reduce_c \cup
  MPI_Reduce_init_to_Reduce_init_c \cup
  MPI_Reduce_local_to_Reduce_scatter \cup
  MPI_Reduce_scatter_c_to_Reduce_scatter_block \cup
  MPI_Reduce_scatter_block_c_to_Reduce_scatter_block_init \cup
  MPI_Reduce_scatter_block_init_c_to_Reduce_scatter_init \cup
  MPI_Reduce_scatter_init_c_to_Request_free \cup
  MPI_Request_get_status_to_Request_get_status_all \cup
  MPI_Request_get_status_any_to_Request_get_status_some \cup MPI_Rget \cup
  MPI_Rget_c \cup MPI_Rget_accumulate \cup MPI_Rget_accumulate_c \cup
  MPI_Rput \cup MPI_Rput_c_to_Rsend \cup MPI_Rsend_c_to_Rsend_init \cup
  MPI_Rsend_init_c_to_Scan \cup MPI_Scan_c_to_Scan_init \cup
  MPI_Scan_init_c_to_Scatter \cup MPI_Scatter_c_to_Scatter_init \cup
  MPI_Scatter_init_c_to_Scatterv \cup MPI_Scatterv_c \cup
  MPI_Scatterv_init \cup MPI_Scatterv_init_c \cup MPI_Send_to_Send_init \cup
  MPI_Send_init_c_to_Sendrecv \cup MPI_Sendrecv_c_to_Sendrecv_replace \cup
  MPI_Sendrecv_replace_c_to_Session_flush_buffer \cup
  MPI_Session_get_errhandler_to_Session_get_num_psets \cup
  MPI_Session_get_pset_info_to_Ssend \cup MPI_Ssend_c_to_Ssend_init \cup
  MPI_Ssend_init_c_to_Start \cup MPI_Startall_to_Status_set_source \cup
  MPI_Status_set_tag_to_Testall \cup MPI_Testany \cup
  MPI_Testsome_to_Type_commit \cup
  MPI_Type_contiguous_to_Type_contiguous_c \cup MPI_Type_create_darray \cup
  MPI_Type_create_darray_c \cup
  MPI_Type_create_f90_complex_to_Type_create_hindexed \cup
  MPI_Type_create_hindexed_c \cup
  MPI_Type_create_hindexed_block_to_Type_create_hindexed_block_c \cup
  MPI_Type_create_hvector_to_Type_create_hvector_c \cup
  MPI_Type_create_indexed_block_to_Type_create_indexed_block_c \cup
  MPI_Type_create_resized_to_Type_create_resized_c \cup
  MPI_Type_create_struct \cup MPI_Type_create_struct_c \cup
  MPI_Type_create_subarray \cup
  MPI_Type_create_subarray_c_to_Type_delete_attr \cup
  MPI_Type_dup_to_Type_get_attr \cup MPI_Type_get_contents \cup
  MPI_Type_get_contents_c \cup
  MPI_Type_get_envelope_to_Type_get_envelope_c \cup
  MPI_Type_get_extent_to_Type_get_true_extent \cup
  MPI_Type_get_true_extent_c_to_Type_get_value_index \cup
  MPI_Type_indexed \cup MPI_Type_indexed_c_to_Type_match_size \cup
  MPI_Type_set_attr_to_Type_size_c \cup MPI_Type_size_x_to_Type_vector_c \cup
  MPI_Unpack_to_Unpack_external \cup MPI_Unpack_external_c_to_Wait \cup
  MPI_Waitall_to_Waitany \cup MPI_Waitsome_to_Win_allocate \cup
  MPI_Win_allocate_c_to_Win_allocate_shared \cup
  MPI_Win_allocate_shared_c_to_Win_complete \cup
  MPI_Win_create_to_Win_create_dynamic \cup
  MPI_Win_delete_attr_to_Win_flush_local \cup
  MPI_Win_flush_local_all_to_Win_get_group \cup
  MPI_Win_get_info_to_Win_set_attr \cup
  MPI_Win_set_errhandler_to_Win_shared_query \cup
  MPI_Win_shared_query_c_to_Win_test \cup MPI_Win_unlock_to_Wtick \cup
  MPI_Wtime_to_T_category_get_events \cup
  MPI_T_category_get_index_to_T_category_get_num_events \cup
  MPI_T_category_get_pvars_to_T_cvar_get_info \cup
  MPI_T_cvar_get_num_to_T_cvar_read \cup
  MPI_T_cvar_write_to_T_event_callback_get_info \cup
  MPI_T_event_callback_set_info_to_T_event_get_index \cup
  MPI_T_event_get_info_to_T_event_get_num \cup
  MPI_T_event_get_source_to_T_event_handle_get_info \cup
  MPI_T_event_handle_set_info_to_T_pvar_get_index \cup
  MPI_T_pvar_get_info_to_T_pvar_get_num \cup
  MPI_T_pvar_handle_alloc_to_T_pvar_read \cup
  MPI_T_pvar_readreset_to_T_pvar_start \cup
  MPI_T_pvar_stop_to_T_source_get_info \cup
  MPI_T_source_get_num_to_T_source_get_timestamp
=============================================================================
