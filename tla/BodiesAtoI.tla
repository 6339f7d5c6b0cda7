------------------------------ MODULE BodiesAtoI ------------------------------
(***************************************************************************)
(* The bodies of gen/mpiwrapper/wrappers.c from MPI_Accumulate to          *)
(* MPI_Issend_c, a row for each, in the order of the file.                 *)
(***************************************************************************)
EXTENDS BodyRows

MPI_Accumulate_to_Accumulate_c == {
  Calls("MPI_Accumulate"),
  Twin(Calls("MPI_Accumulate_c"), {"origin_count", "target_count"},
    Narrowing(<<"origin_count", "target_count">>))}

MPI_Allgather_to_Allgather_c == {
  Calls("MPI_Allgather"),
  Twin(Calls("MPI_Allgather_c"), {"sendcount", "recvcount"},
    Narrowing(<<"sendcount", "recvcount">>))}

MPI_Allgather_init == {
  Makes("MPI_Allgather_init", {"request"})}

MPI_Allgather_init_c_to_Allgatherv == {
  Twin(Makes("MPI_Allgather_init_c", {"request"}), {"sendcount",
    "recvcount"}, Narrowing(<<"sendcount", "recvcount">>)),
  Calls("MPI_Allgatherv")}

MPI_Allgatherv_c == {
  Twin(Calls("MPI_Allgatherv_c"), {"sendcount", "recvcounts", "displs"},
    Local(<<Narrowed("sendcount"), Asked("comm_extent")>>,
    <<Counts("recvcounts"), Counts("displs")>>))}

MPI_Allgatherv_init == {
  Makes("MPI_Allgatherv_init", {"request"})}

MPI_Allgatherv_init_c == {
  Persistent(Twin(Makes("MPI_Allgatherv_init_c", {"request"}),
    {"sendcount", "recvcounts", "displs"}, Shared(<<Narrowed("sendcount"),
    Asked("comm_extent")>>, <<Counts("recvcounts"), Counts("displs")>>)))}

MPI_Alloc_mem_to_Allreduce_c == {
  Calls("MPI_Alloc_mem"),
  Calls("MPI_Allreduce"),
  Twin(Calls("MPI_Allreduce_c"), {"count"}, Narrowing(<<"count">>))}

MPI_Allreduce_init_to_Allreduce_init_c == {
  Makes("MPI_Allreduce_init", {"request"}),
  Twin(Makes("MPI_Allreduce_init_c", {"request"}), {"count"},
    Narrowing(<<"count">>))}

MPI_Alltoall_to_Alltoall_c == {
  Calls("MPI_Alltoall"),
  Twin(Calls("MPI_Alltoall_c"), {"sendcount", "recvcount"},
    Narrowing(<<"sendcount", "recvcount">>))}

MPI_Alltoall_init_to_Alltoall_init_c == {
  Makes("MPI_Alltoall_init", {"request"}),
  Twin(Makes("MPI_Alltoall_init_c", {"request"}), {"sendcount",
    "recvcount"}, Narrowing(<<"sendcount", "recvcount">>))}

MPI_Alltoallv == {
  Calls("MPI_Alltoallv")}

MPI_Alltoallv_c == {
  InPlace(Twin(Calls("MPI_Alltoallv_c"), {"sendcounts", "sdispls",
    "recvcounts", "rdispls"}, Local(<<Asked("comm_extent")>>,
    <<Counts("sendcounts"), Counts("sdispls"), Counts("recvcounts"),
    Counts("rdispls")>>)))}

MPI_Alltoallv_init == {
  Makes("MPI_Alltoallv_init", {"request"})}

MPI_Alltoallv_init_c == {
  Persistent(InPlace(Twin(Makes("MPI_Alltoallv_init_c", {"request"}),
    {"sendcounts", "sdispls", "recvcounts", "rdispls"},
    Shared(<<Asked("comm_extent")>>, <<Counts("sendcounts"),
    Counts("sdispls"), Counts("recvcounts"), Counts("rdispls")>>))))}

MPI_Alltoallw == {
  InPlace(Native(Calls("MPI_Alltoallw"), Local(<<Asked("comm_extent")>>,
    <<SendTypes("sendtypes"), Handles("recvtypes")>>)))}

MPI_Alltoallw_c == {
  InPlace(Twin(Native(Calls("MPI_Alltoallw_c"),
    Local(<<Asked("comm_extent")>>, <<SendTypes("sendtypes"),
    Handles("recvtypes")>>)), {"sendcounts", "sdispls", "recvcounts",
    "rdispls"}, Local(<<Asked("comm_extent")>>, <<Counts("sendcounts"),
    Counts("sdispls"), SendTypes("sendtypes"), Counts("recvcounts"),
    Counts("rdispls"), Handles("recvtypes")>>)))}

MPI_Alltoallw_init == {
  Persistent(InPlace(Native(Makes("MPI_Alltoallw_init", {"request"}),
    Shared(<<Asked("comm_extent")>>, <<SendTypes("sendtypes"),
    Handles("recvtypes")>>))))}

MPI_Alltoallw_init_c == {
  Persistent(InPlace(Twin(Native(Makes("MPI_Alltoallw_init_c",
    {"request"}), Shared(<<Asked("comm_extent")>>,
    <<SendTypes("sendtypes"), Handles("recvtypes")>>)), {"sendcounts",
    "sdispls", "recvcounts", "rdispls"}, Shared(<<Asked("comm_extent")>>,
    <<Counts("sendcounts"), Counts("sdispls"), SendTypes("sendtypes"),
    Counts("recvcounts"), Counts("rdispls"), Handles("recvtypes")>>))))}

MPI_Barrier_to_Bcast_c == {
  Calls("MPI_Barrier"),
  Makes("MPI_Barrier_init", {"request"}),
  Calls("MPI_Bcast"),
  Twin(Calls("MPI_Bcast_c"), {"count"}, Narrowing(<<"count">>))}

MPI_Bcast_init_to_Bcast_init_c == {
  Makes("MPI_Bcast_init", {"request"}),
  Twin(Makes("MPI_Bcast_init_c", {"request"}), {"count"},
    Narrowing(<<"count">>))}

MPI_Bsend_to_Bsend_init == {
  Calls("MPI_Bsend"),
  Twin(Calls("MPI_Bsend_c"), {"count"}, Narrowing(<<"count">>)),
  Makes("MPI_Bsend_init", {"request"})}

MPI_Bsend_init_c_to_Cancel == {
  Twin(Makes("MPI_Bsend_init_c", {"request"}), {"count"},
    Narrowing(<<"count">>)),
  Calls("MPI_Buffer_flush"),
  Makes("MPI_Buffer_iflush", {"request"}),
  Calls("MPI_Cancel")}

MPI_Cart_coords_to_Cart_map == {
  Calls("MPI_Cart_coords"),
  Makes("MPI_Cart_create", {"comm_cart"}),
  Calls("MPI_Cart_get"),
  Calls("MPI_Cart_map")}

MPI_Cart_rank_to_Cartdim_get == {
  Calls("MPI_Cart_rank"),
  Calls("MPI_Cart_shift"),
  Makes("MPI_Cart_sub", {"newcomm"}),
  Calls("MPI_Cartdim_get")}

MPI_Close_port_to_Comm_compare == {
  Calls("MPI_Close_port"),
  Makes("MPI_Comm_accept", {"newcomm"}),
  Calls("MPI_Comm_call_errhandler"),
  Calls("MPI_Comm_compare")}

MPI_Comm_connect_to_Comm_create_from_group == {
  Makes("MPI_Comm_connect", {"newcomm"}),
  Makes("MPI_Comm_create", {"newcomm"}),
  Makes("MPI_Comm_create_from_group", {"newcomm"})}

MPI_Comm_create_group_to_Comm_dup == {
  Makes("MPI_Comm_create_group", {"newcomm"}),
  Calls("MPI_Comm_delete_attr"),
  Changes("MPI_Comm_disconnect", {"comm"}),
  Makes("MPI_Comm_dup", {"newcomm"})}

MPI_Comm_dup_with_info_to_Comm_get_errhandler == {
  Makes("MPI_Comm_dup_with_info", {"newcomm"}),
  Calls("MPI_Comm_flush_buffer"),
  Changes("MPI_Comm_free", {"comm"}),
  Calls("MPI_Comm_free_keyval"),
  Makes("MPI_Comm_get_errhandler", {"errhandler"})}

MPI_Comm_get_info_to_Comm_idup == {
  Makes("MPI_Comm_get_info", {"info_used"}),
  Makes("MPI_Comm_get_parent", {"parent"}),
  Makes("MPI_Comm_group", {"group"}),
  Makes("MPI_Comm_idup", {"newcomm", "request"})}

MPI_Comm_idup_with_info_to_Comm_rank == {
  Makes("MPI_Comm_idup_with_info", {"newcomm", "request"}),
  Makes("MPI_Comm_iflush_buffer", {"request"}),
  Makes("MPI_Comm_join", {"intercomm"}),
  Calls("MPI_Comm_rank")}

MPI_Comm_remote_group_to_Comm_set_info == {
  Makes("MPI_Comm_remote_group", {"group"}),
  Calls("MPI_Comm_remote_size"),
  Calls("MPI_Comm_set_attr"),
  Calls("MPI_Comm_set_errhandler"),
  Calls("MPI_Comm_set_info")}

MPI_Comm_set_name_to_Comm_split_type == {
  Calls("MPI_Comm_set_name"),
  Calls("MPI_Comm_size"),
  Makes("MPI_Comm_split", {"newcomm"}),
  Makes("MPI_Comm_split_type", {"newcomm"})}

MPI_Comm_test_inter_to_Dims_create == {
  Calls("MPI_Comm_test_inter"),
  Calls("MPI_Compare_and_swap"),
  Calls("MPI_Dims_create")}

MPI_Dist_graph_create == {
  Native(Makes("MPI_Dist_graph_create", {"comm_dist_graph"}),
    Local(<<CountCheck>>, <<Handles("sources"),
    Handles("destinations")>>))}

MPI_Dist_graph_create_adjacent == {
  Native(Makes("MPI_Dist_graph_create_adjacent", {"comm_dist_graph"}),
    Local(<<CountCheck>>, <<Handles("sources"),
    Handles("destinations")>>))}

MPI_Dist_graph_neighbors_to_Errhandler_free == {
  Native(Calls("MPI_Dist_graph_neighbors"),
    Local(<<Asked("dist_graph_extents")>>, << >>)),
  Calls("MPI_Dist_graph_neighbors_count"),
  Changes("MPI_Errhandler_free", {"errhandler"})}

MPI_Error_class_to_Exscan_c == {
  Calls("MPI_Error_class"),
  Calls("MPI_Exscan"),
  Twin(Calls("MPI_Exscan_c"), {"count"}, Narrowing(<<"count">>))}

MPI_Exscan_init_to_Exscan_init_c == {
  Makes("MPI_Exscan_init", {"request"}),
  Twin(Makes("MPI_Exscan_init_c", {"request"}), {"count"},
    Narrowing(<<"count">>))}

MPI_Fetch_and_op_to_File_get_amode == {
  Calls("MPI_Fetch_and_op"),
  Calls("MPI_File_call_errhandler"),
  Changes("MPI_File_close", {"fh"}),
  Calls("MPI_File_delete"),
  Calls("MPI_File_get_amode")}

MPI_File_get_atomicity_to_File_get_group == {
  Calls("MPI_File_get_atomicity"),
  Calls("MPI_File_get_byte_offset"),
  Makes("MPI_File_get_errhandler", {"errhandler"}),
  Makes("MPI_File_get_group", {"group"})}

MPI_File_get_info_to_File_get_type_extent == {
  Makes("MPI_File_get_info", {"info_used"}),
  Calls("MPI_File_get_position"),
  Calls("MPI_File_get_position_shared"),
  Calls("MPI_File_get_size"),
  Calls("MPI_File_get_type_extent")}

MPI_File_get_type_extent_c_to_File_iread == {
  Twin(Calls("MPI_File_get_type_extent_c"), {}, Narrowing(<< >>)),
  Makes("MPI_File_iread", {"request"})}

MPI_File_iread_c_to_File_iread_all == {
  Twin(Makes("MPI_File_iread_c", {"request"}), {"count"},
    Narrowing(<<"count">>)),
  Makes("MPI_File_iread_all", {"request"})}

MPI_File_iread_all_c_to_File_iread_at == {
  Twin(Makes("MPI_File_iread_all_c", {"request"}), {"count"},
    Narrowing(<<"count">>)),
  Makes("MPI_File_iread_at", {"request"})}

MPI_File_iread_at_c_to_File_iread_at_all == {
  Twin(Makes("MPI_File_iread_at_c", {"request"}), {"count"},
    Narrowing(<<"count">>)),
  Makes("MPI_File_iread_at_all", {"request"})}

MPI_File_iread_at_all_c_to_File_iread_shared == {
  Twin(Makes("MPI_File_iread_at_all_c", {"request"}), {"count"},
    Narrowing(<<"count">>)),
  Makes("MPI_File_iread_shared", {"request"})}

MPI_File_iread_shared_c_to_File_iwrite == {
  Twin(Makes("MPI_File_iread_shared_c", {"request"}), {"count"},
    Narrowing(<<"count">>)),
  Makes("MPI_File_iwrite", {"request"})}

MPI_File_iwrite_c_to_File_iwrite_all == {
  Twin(Makes("MPI_File_iwrite_c", {"request"}), {"count"},
    Narrowing(<<"count">>)),
  Makes("MPI_File_iwrite_all", {"request"})}

MPI_File_iwrite_all_c_to_File_iwrite_at == {
  Twin(Makes("MPI_File_iwrite_all_c", {"request"}), {"count"},
    Narrowing(<<"count">>)),
  Makes("MPI_File_iwrite_at", {"request"})}

MPI_File_iwrite_at_c_to_File_iwrite_at_all == {
  Twin(Makes("MPI_File_iwrite_at_c", {"request"}), {"count"},
    Narrowing(<<"count">>)),
  Makes("MPI_File_iwrite_at_all", {"request"})}

MPI_File_iwrite_at_all_c_to_File_iwrite_shared == {
  Twin(Makes("MPI_File_iwrite_at_all_c", {"request"}), {"count"},
    Narrowing(<<"count">>)),
  Makes("MPI_File_iwrite_shared", {"request"})}

MPI_File_iwrite_shared_c_to_File_preallocate == {
  Twin(Makes("MPI_File_iwrite_shared_c", {"request"}), {"count"},
    Narrowing(<<"count">>)),
  Makes("MPI_File_open", {"fh"}),
  Calls("MPI_File_preallocate")}

MPI_File_read_to_File_read_all == {
  Calls("MPI_File_read"),
  Twin(Calls("MPI_File_read_c"), {"count"}, Narrowing(<<"count">>)),
  Calls("MPI_File_read_all")}

MPI_File_read_all_c_to_File_read_all_begin_c == {
  Twin(Calls("MPI_File_read_all_c"), {"count"}, Narrowing(<<"count">>)),
  Calls("MPI_File_read_all_begin"),
  Twin(Calls("MPI_File_read_all_begin_c"), {"count"},
    Narrowing(<<"count">>))}

MPI_File_read_all_end_to_File_read_at_c == {
  Calls("MPI_File_read_all_end"),
  Calls("MPI_File_read_at"),
  Twin(Calls("MPI_File_read_at_c"), {"count"}, Narrowing(<<"count">>))}

MPI_File_read_at_all_to_File_read_at_all_begin == {
  Calls("MPI_File_read_at_all"),
  Twin(Calls("MPI_File_read_at_all_c"), {"count"},
    Narrowing(<<"count">>)),
  Calls("MPI_File_read_at_all_begin")}

MPI_File_read_at_all_begin_c_to_File_read_ordered == {
  Twin(Calls("MPI_File_read_at_all_begin_c"), {"count"},
    Narrowing(<<"count">>)),
  Calls("MPI_File_read_at_all_end"),
  Calls("MPI_File_read_ordered")}

MPI_File_read_ordered_c_to_File_read_ordered_begin_c == {
  Twin(Calls("MPI_File_read_ordered_c"), {"count"},
    Narrowing(<<"count">>)),
  Calls("MPI_File_read_ordered_begin"),
  Twin(Calls("MPI_File_read_ordered_begin_c"), {"count"},
    Narrowing(<<"count">>))}

MPI_File_read_ordered_end_to_File_read_shared_c == {
  Calls("MPI_File_read_ordered_end"),
  Calls("MPI_File_read_shared"),
  Twin(Calls("MPI_File_read_shared_c"), {"count"}, Narrowing(<<"count">>))}

MPI_File_seek_to_File_set_info == {
  Calls("MPI_File_seek"),
  Calls("MPI_File_seek_shared"),
  Calls("MPI_File_set_atomicity"),
  Calls("MPI_File_set_errhandler"),
  Calls("MPI_File_set_info")}

MPI_File_set_size_to_File_write == {
  Calls("MPI_File_set_size"),
  Calls("MPI_File_set_view"),
  Calls("MPI_File_sync"),
  Calls("MPI_File_write")}

MPI_File_write_c_to_File_write_all == {
  Twin(Calls("MPI_File_write_c"), {"count"}, Narrowing(<<"count">>)),
  Calls("MPI_File_write_all")}

MPI_File_write_all_c_to_File_write_all_begin_c == {
  Twin(Calls("MPI_File_write_all_c"), {"count"}, Narrowing(<<"count">>)),
  Calls("MPI_File_write_all_begin"),
  Twin(Calls("MPI_File_write_all_begin_c"), {"count"},
    Narrowing(<<"count">>))}

MPI_File_write_all_end_to_File_write_at_c == {
  Calls("MPI_File_write_all_end"),
  Calls("MPI_File_write_at"),
  Twin(Calls("MPI_File_write_at_c"), {"count"}, Narrowing(<<"count">>))}

MPI_File_write_at_all_to_File_write_at_all_c == {
  Calls("MPI_File_write_at_all"),
  Twin(Calls("MPI_File_write_at_all_c"), {"count"},
    Narrowing(<<"count">>))}

MPI_File_write_at_all_begin_to_File_write_at_all_end == {
  Calls("MPI_File_write_at_all_begin"),
  Twin(Calls("MPI_File_write_at_all_begin_c"), {"count"},
    Narrowing(<<"count">>)),
  Calls("MPI_File_write_at_all_end")}

MPI_File_write_ordered_to_File_write_ordered_begin == {
  Calls("MPI_File_write_ordered"),
  Twin(Calls("MPI_File_write_ordered_c"), {"count"},
    Narrowing(<<"count">>)),
  Calls("MPI_File_write_ordered_begin")}

MPI_File_write_ordered_begin_c_to_File_write_shared == {
  Twin(Calls("MPI_File_write_ordered_begin_c"), {"count"},
    Narrowing(<<"count">>)),
  Calls("MPI_File_write_ordered_end"),
  Calls("MPI_File_write_shared")}

MPI_File_write_shared_c_to_Gather == {
  Twin(Calls("MPI_File_write_shared_c"), {"count"},
    Narrowing(<<"count">>)),
  Calls("MPI_Free_mem"),
  Calls("MPI_Gather")}

MPI_Gather_c_to_Gather_init == {
  Twin(Calls("MPI_Gather_c"), {"sendcount", "recvcount"},
    Narrowing(<<"sendcount", "recvcount">>)),
  Makes("MPI_Gather_init", {"request"})}

MPI_Gather_init_c_to_Gatherv == {
  Twin(Makes("MPI_Gather_init_c", {"request"}), {"sendcount",
    "recvcount"}, Narrowing(<<"sendcount", "recvcount">>)),
  Calls("MPI_Gatherv")}

MPI_Gatherv_c == {
  Twin(Calls("MPI_Gatherv_c"), {"sendcount", "recvcounts", "displs"},
    Local(<<Narrowed("sendcount"), Asked("root_extent")>>,
    <<Counts("recvcounts"), Counts("displs")>>))}

MPI_Gatherv_init == {
  Makes("MPI_Gatherv_init", {"request"})}

MPI_Gatherv_init_c == {
  Persistent(Twin(Makes("MPI_Gatherv_init_c", {"request"}), {"sendcount",
    "recvcounts", "displs"}, Shared(<<Narrowed("sendcount"),
    Asked("root_extent")>>, <<Counts("recvcounts"), Counts("displs")>>)))}

MPI_Get_to_Get_c == {
  Calls("MPI_Get"),
  Twin(Calls("MPI_Get_c"), {"origin_count", "target_count"},
    Narrowing(<<"origin_count", "target_count">>))}

MPI_Get_accumulate == {
  Calls("MPI_Get_accumulate")}

MPI_Get_accumulate_c_to_Get_address == {
  Twin(Calls("MPI_Get_accumulate_c"), {"origin_count", "result_count",
    "target_count"}, Narrowing(<<"origin_count", "result_count",
    "target_count">>)),
  Calls("MPI_Get_address")}

MPI_Get_hw_resource_info_to_Graph_get == {
  Makes("MPI_Get_hw_resource_info", {"hw_info"}),
  Native(Makes("MPI_Graph_create", {"comm_graph"}), Local(<<CountCheck>>,
    <<Handles("edges")>>)),
  Native(Calls("MPI_Graph_get"), Local(<<Asked("graph_nedges")>>, << >>))}

MPI_Graph_map_to_Graph_neighbors_count == {
  Native(Calls("MPI_Graph_map"), Local(<<CountCheck>>,
    <<Handles("edges")>>)),
  Native(Calls("MPI_Graph_neighbors"),
    Local(<<Asked("graph_nneighbors")>>, << >>)),
  Calls("MPI_Graph_neighbors_count")}

MPI_Graphdims_get_to_Group_difference == {
  Calls("MPI_Graphdims_get"),
  Calls("MPI_Grequest_complete"),
  Calls("MPI_Group_compare"),
  Makes("MPI_Group_difference", {"newgroup"})}

MPI_Group_excl_to_Group_from_session_pset == {
  Native(Makes("MPI_Group_excl", {"newgroup"}), Local(<<CountCheck>>,
    <<Handles("ranks")>>)),
  Changes("MPI_Group_free", {"group"}),
  Makes("MPI_Group_from_session_pset", {"newgroup"})}

MPI_Group_incl_to_Group_range_excl == {
  Native(Makes("MPI_Group_incl", {"newgroup"}), Local(<<CountCheck>>,
    <<Handles("ranks")>>)),
  Makes("MPI_Group_intersection", {"newgroup"}),
  Makes("MPI_Group_range_excl", {"newgroup"})}

MPI_Group_range_incl_to_Group_size == {
  Makes("MPI_Group_range_incl", {"newgroup"}),
  Calls("MPI_Group_rank"),
  Calls("MPI_Group_size")}

MPI_Group_translate_ranks_to_Iallgather == {
  Native(Calls("MPI_Group_translate_ranks"), Local(<<CountCheck>>,
    <<Handles("ranks1")>>)),
  Makes("MPI_Group_union", {"newgroup"}),
  Makes("MPI_Iallgather", {"request"})}

MPI_Iallgather_c_to_Iallgatherv == {
  Twin(Makes("MPI_Iallgather_c", {"request"}), {"sendcount", "recvcount"},
    Narrowing(<<"sendcount", "recvcount">>)),
  Makes("MPI_Iallgatherv", {"request"})}

MPI_Iallgatherv_c == {
  Twin(Makes("MPI_Iallgatherv_c", {"request"}), {"sendcount",
    "recvcounts", "displs"}, Shared(<<Narrowed("sendcount"),
    Asked("comm_extent")>>, <<Counts("recvcounts"), Counts("displs")>>))}

MPI_Iallreduce_to_Iallreduce_c == {
  Makes("MPI_Iallreduce", {"request"}),
  Twin(Makes("MPI_Iallreduce_c", {"request"}), {"count"},
    Narrowing(<<"count">>))}

MPI_Ialltoall_to_Ialltoall_c == {
  Makes("MPI_Ialltoall", {"request"}),
  Twin(Makes("MPI_Ialltoall_c", {"request"}), {"sendcount", "recvcount"},
    Narrowing(<<"sendcount", "recvcount">>))}

MPI_Ialltoallv == {
  Makes("MPI_Ialltoallv", {"request"})}

MPI_Ialltoallv_c == {
  InPlace(Twin(Makes("MPI_Ialltoallv_c", {"request"}), {"sendcounts",
    "sdispls", "recvcounts", "rdispls"}, Shared(<<Asked("comm_extent")>>,
    <<Counts("sendcounts"), Counts("sdispls"), Counts("recvcounts"),
    Counts("rdispls")>>)))}

MPI_Ialltoallw == {
  InPlace(Native(Makes("MPI_Ialltoallw", {"request"}),
    Shared(<<Asked("comm_extent")>>, <<SendTypes("sendtypes"),
    Handles("recvtypes")>>)))}

MPI_Ialltoallw_c == {
  InPlace(Twin(Native(Makes("MPI_Ialltoallw_c", {"request"}),
    Shared(<<Asked("comm_extent")>>, <<SendTypes("sendtypes"),
    Handles("recvtypes")>>)), {"sendcounts", "sdispls", "recvcounts",
    "rdispls"}, Shared(<<Asked("comm_extent")>>, <<Counts("sendcounts"),
    Counts("sdispls"), SendTypes("sendtypes"), Counts("recvcounts"),
    Counts("rdispls"), Handles("recvtypes")>>)))}

MPI_Ibarrier_to_Ibcast_c == {
  Makes("MPI_Ibarrier", {"request"}),
  Makes("MPI_Ibcast", {"request"}),
  Twin(Makes("MPI_Ibcast_c", {"request"}), {"count"},
    Narrowing(<<"count">>))}

MPI_Ibsend_to_Ibsend_c == {
  Makes("MPI_Ibsend", {"request"}),
  Twin(Makes("MPI_Ibsend_c", {"request"}), {"count"},
    Narrowing(<<"count">>))}

MPI_Iexscan_to_Iexscan_c == {
  Makes("MPI_Iexscan", {"request"}),
  Twin(Makes("MPI_Iexscan_c", {"request"}), {"count"},
    Narrowing(<<"count">>))}

MPI_Igather_to_Igather_c == {
  Makes("MPI_Igather", {"request"}),
  Twin(Makes("MPI_Igather_c", {"request"}), {"sendcount", "recvcount"},
    Narrowing(<<"sendcount", "recvcount">>))}

MPI_Igatherv == {
  Makes("MPI_Igatherv", {"request"})}

MPI_Igatherv_c == {
  Twin(Makes("MPI_Igatherv_c", {"request"}), {"sendcount", "recvcounts",
    "displs"}, Shared(<<Narrowed("sendcount"), Asked("root_extent")>>,
    <<Counts("recvcounts"), Counts("displs")>>))}

MPI_Improbe_to_Imrecv == {
  Makes("MPI_Improbe", {"message"}),
  MakesAndChanges("MPI_Imrecv", {"request"}, {"message"})}

MPI_Imrecv_c_to_Ineighbor_allgather == {
  Twin(MakesAndChanges("MPI_Imrecv_c", {"request"}, {"message"}),
    {"count"}, Narrowing(<<"count">>)),
  Makes("MPI_Ineighbor_allgather", {"request"})}

MPI_Ineighbor_allgather_c == {
  Twin(Makes("MPI_Ineighbor_allgather_c", {"request"}), {"sendcount",
    "recvcount"}, Narrowing(<<"sendcount", "recvcount">>))}

MPI_Ineighbor_allgatherv == {
  Makes("MPI_Ineighbor_allgatherv", {"request"})}

MPI_Ineighbor_allgatherv_c == {
  Twin(Makes("MPI_Ineighbor_allgatherv_c", {"request"}), {"sendcount",
    "recvcounts", "displs"}, Shared(<<Narrowed("sendcount"),
    Asked("neighbor_extents")>>, <<Counts("recvcounts"),
    Counts("displs")>>))}

MPI_Ineighbor_alltoall_to_Ineighbor_alltoall_c == {
  Makes("MPI_Ineighbor_alltoall", {"request"}),
  Twin(Makes("MPI_Ineighbor_alltoall_c", {"request"}), {"sendcount",
    "recvcount"}, Narrowing(<<"sendcount", "recvcount">>))}

MPI_Ineighbor_alltoallv == {
  Makes("MPI_Ineighbor_alltoallv", {"request"})}

MPI_Ineighbor_alltoallv_c == {
  Twin(Makes("MPI_Ineighbor_alltoallv_c", {"request"}), {"sendcounts",
    "sdispls", "recvcounts", "rdispls"},
    Shared(<<Asked("neighbor_extents")>>, <<Counts("sendcounts"),
    Counts("sdispls"), Counts("recvcounts"), Counts("rdispls")>>))}

MPI_Ineighbor_alltoallw == {
  Native(Makes("MPI_Ineighbor_alltoallw", {"request"}),
    Shared(<<Asked("neighbor_extents")>>, <<Handles("sendtypes"),
    Handles("recvtypes")>>))}

MPI_Ineighbor_alltoallw_c == {
  Twin(Native(Makes("MPI_Ineighbor_alltoallw_c", {"request"}),
    Shared(<<Asked("neighbor_extents")>>, <<Handles("sendtypes"),
    Handles("recvtypes")>>)), {"sendcounts", "recvcounts"},
    Shared(<<Asked("neighbor_extents")>>, <<Counts("sendcounts"),
    Handles("sendtypes"), Counts("recvcounts"), Handles("recvtypes")>>))}

MPI_Info_create_to_Info_free == {
  Makes("MPI_Info_create", {"info"}),
  Makes("MPI_Info_create_env", {"info"}),
  Calls("MPI_Info_delete"),
  Makes("MPI_Info_dup", {"newinfo"}),
  Changes("MPI_Info_free", {"info"})}

MPI_Info_get_to_Info_get_valuelen == {
  Calls("MPI_Info_get"),
  Calls("MPI_Info_get_nkeys"),
  Calls("MPI_Info_get_string"),
  Calls("MPI_Info_get_valuelen")}

MPI_Info_set_to_Intercomm_create_from_groups == {
  Calls("MPI_Info_set"),
  Makes("MPI_Intercomm_create", {"newintercomm"}),
  Makes("MPI_Intercomm_create_from_groups", {"newintercomm"})}

MPI_Intercomm_merge_to_Irecv == {
  Makes("MPI_Intercomm_merge", {"newintracomm"}),
  Calls("MPI_Iprobe"),
  Makes("MPI_Irecv", {"request"})}

MPI_Irecv_c_to_Ireduce == {
  Twin(Makes("MPI_Irecv_c", {"request"}), {"count"},
    Narrowing(<<"count">>)),
  Makes("MPI_Ireduce", {"request"})}

MPI_Ireduce_c_to_Ireduce_scatter == {
  Twin(Makes("MPI_Ireduce_c", {"request"}), {"count"},
    Narrowing(<<"count">>)),
  Makes("MPI_Ireduce_scatter", {"request"})}

MPI_Ireduce_scatter_c == {
  Twin(Makes("MPI_Ireduce_scatter_c", {"request"}), {"recvcounts"},
    Shared(<<Asked("comm_extent")>>, <<Counts("recvcounts")>>))}

MPI_Ireduce_scatter_block_to_Ireduce_scatter_block_c == {
  Makes("MPI_Ireduce_scatter_block", {"request"}),
  Twin(Makes("MPI_Ireduce_scatter_block_c", {"request"}), {"recvcount"},
    Narrowing(<<"recvcount">>))}

MPI_Irsend_to_Is_thread_main == {
  Makes("MPI_Irsend", {"request"}),
  Twin(Makes("MPI_Irsend_c", {"request"}), {"count"},
    Narrowing(<<"count">>)),
  Calls("MPI_Is_thread_main")}

MPI_Iscan_to_Iscan_c == {
  Makes("MPI_Iscan", {"request"}),
  Twin(Makes("MPI_Iscan_c", {"request"}), {"count"},
    Narrowing(<<"count">>))}

MPI_Iscatter_to_Iscatter_c == {
  Makes("MPI_Iscatter", {"request"}),
  Twin(Makes("MPI_Iscatter_c", {"request"}), {"sendcount", "recvcount"},
    Narrowing(<<"sendcount", "recvcount">>))}

MPI_Iscatterv == {
  Makes("MPI_Iscatterv", {"request"})}

MPI_Iscatterv_c == {
  Twin(Makes("MPI_Iscatterv_c", {"request"}), {"sendcounts", "displs",
    "recvcount"}, Shared(<<Narrowed("recvcount"), Asked("root_extent")>>,
    <<Counts("sendcounts"), Counts("displs")>>))}

MPI_Isend_to_Isend_c == {
  Makes("MPI_Isend", {"request"}),
  Twin(Makes("MPI_Isend_c", {"request"}), {"count"},
    Narrowing(<<"count">>))}

MPI_Isendrecv == {
  Makes("MPI_Isendrecv", {"request"})}

MPI_Isendrecv_c == {
  Twin(Makes("MPI_Isendrecv_c", {"request"}), {"sendcount", "recvcount"},
    Narrowing(<<"sendcount", "recvcount">>))}

MPI_Isendrecv_replace_to_Isendrecv_replace_c == {
  Makes("MPI_Isendrecv_replace", {"request"}),
  Twin(Makes("MPI_Isendrecv_replace_c", {"request"}), {"count"},
    Narrowing(<<"count">>))}

MPI_Issend_to_Issend_c == {
  Makes("MPI_Issend", {"request"}),
  Twin(Makes("MPI_Issend_c", {"request"}), {"count"},
    Narrowing(<<"count">>))}

-----------------------------------------------------------------------------
BodiesFromAToI ==
  MPI_Accumulate_to_Accumulate_c \cup MPI_Allgather_to_Allgather_c \cup
  MPI_Allgather_init \cup MPI_Allgather_init_c_to_Allgatherv \cup
  MPI_Allgatherv_c \cup MPI_Allgatherv_init \cup MPI_Allgatherv_init_c \cup
  MPI_Alloc_mem_to_Allreduce_c \cup
  MPI_Allreduce_init_to_Allreduce_init_c \cup MPI_Alltoall_to_Alltoall_c \cup
  MPI_Alltoall_init_to_Alltoall_init_c \cup MPI_Alltoallv \cup
  MPI_Alltoallv_c \cup MPI_Alltoallv_init \cup MPI_Alltoallv_init_c \cup
  MPI_Alltoallw \cup MPI_Alltoallw_c \cup MPI_Alltoallw_init \cup
  MPI_Alltoallw_init_c \cup MPI_Barrier_to_Bcast_c \cup
  MPI_Bcast_init_to_Bcast_init_c \cup MPI_Bsend_to_Bsend_init \cup
  MPI_Bsend_init_c_to_Cancel \cup MPI_Cart_coords_to_Cart_map \cup
  MPI_Cart_rank_to_Cartdim_get \cup MPI_Close_port_to_Comm_compare \cup
  MPI_Comm_connect_to_Comm_create_from_group \cup
  MPI_Comm_create_group_to_Comm_dup \cup
  MPI_Comm_dup_with_info_to_Comm_get_errhandler \cup
  MPI_Comm_get_info_to_Comm_idup \cup
  MPI_Comm_idup_with_info_to_Comm_rank \cup
  MPI_Comm_remote_group_to_Comm_set_info \cup
  MPI_Comm_set_name_to_Comm_split_type \cup
  MPI_Comm_test_inter_to_Dims_create \cup MPI_Dist_graph_create \cup
  MPI_Dist_graph_create_adjacent \cup
  MPI_Dist_graph_neighbors_to_Errhandler_free \cup
  MPI_Error_class_to_Exscan_c \cup MPI_Exscan_init_to_Exscan_init_c \cup
  MPI_Fetch_and_op_to_File_get_amode \cup
  MPI_File_get_atomicity_to_File_get_group \cup
  MPI_File_get_info_to_File_get_type_extent \cup
  MPI_File_get_type_extent_c_to_File_iread \cup
  MPI_File_iread_c_to_File_iread_all \cup
  MPI_File_iread_all_c_to_File_iread_at \cup
  MPI_File_iread_at_c_to_File_iread_at_all \cup
  MPI_File_iread_at_all_c_to_File_iread_shared \cup
  MPI_File_iread_shared_c_to_File_iwrite \cup
  MPI_File_iwrite_c_to_File_iwrite_all \cup
  MPI_File_iwrite_all_c_to_File_iwrite_at \cup
  MPI_File_iwrite_at_c_to_File_iwrite_at_all \cup
  MPI_File_iwrite_at_all_c_to_File_iwrite_shared \cup
  MPI_File_iwrite_shared_c_to_File_preallocate \cup
  MPI_File_read_to_File_read_all \cup
  MPI_File_read_all_c_to_File_read_all_begin_c \cup
  MPI_File_read_all_end_to_File_read_at_c \cup
  MPI_File_read_at_all_to_File_read_at_all_begin \cup
  MPI_File_read_at_all_begin_c_to_File_read_ordered \cup
  MPI_File_read_ordered_c_to_File_read_ordered_begin_c \cup
  MPI_File_read_ordered_end_to_File_read_shared_c \cup
  MPI_File_seek_to_File_set_info \cup MPI_File_set_size_to_File_write \cup
  MPI_File_write_c_to_File_write_all \cup
  MPI_File_write_all_c_to_File_write_all_begin_c \cup
  MPI_File_write_all_end_to_File_write_at_c \cup
  MPI_File_write_at_all_to_File_write_at_all_c \cup
  MPI_File_write_at_all_begin_to_File_write_at_all_end \cup
  MPI_File_write_ordered_to_File_write_ordered_begin \cup
  MPI_File_write_ordered_begin_c_to_File_write_shared \cup
  MPI_File_write_shared_c_to_Gather \cup MPI_Gather_c_to_Gather_init \cup
  MPI_Gather_init_c_to_Gatherv \cup MPI_Gatherv_c \cup MPI_Gatherv_init \cup
  MPI_Gatherv_init_c \cup MPI_Get_to_Get_c \cup MPI_Get_accumulate \cup
  MPI_Get_accumulate_c_to_Get_address \cup
  MPI_Get_hw_resource_info_to_Graph_get \cup
  MPI_Graph_map_to_Graph_neighbors_count \cup
  MPI_Graphdims_get_to_Group_difference \cup
  MPI_Group_excl_to_Group_from_session_pset \cup
  MPI_Group_incl_to_Group_range_excl \cup
  MPI_Group_range_incl_to_Group_size \cup
  MPI_Group_translate_ranks_to_Iallgather \cup
  MPI_Iallgather_c_to_Iallgatherv \cup MPI_Iallgatherv_c \cup
  MPI_Iallreduce_to_Iallreduce_c \cup MPI_Ialltoall_to_Ialltoall_c \cup
  MPI_Ialltoallv \cup MPI_Ialltoallv_c \cup MPI_Ialltoallw \cup
  MPI_Ialltoallw_c \cup MPI_Ibarrier_to_Ibcast_c \cup
  MPI_Ibsend_to_Ibsend_c \cup MPI_Iexscan_to_Iexscan_c \cup
  MPI_Igather_to_Igather_c \cup MPI_Igatherv \cup MPI_Igatherv_c \cup
  MPI_Improbe_to_Imrecv \cup MPI_Imrecv_c_to_Ineighbor_allgather \cup
  MPI_Ineighbor_allgather_c \cup MPI_Ineighbor_allgatherv \cup
  MPI_Ineighbor_allgatherv_c \cup
  MPI_Ineighbor_alltoall_to_Ineighbor_alltoall_c \cup
  MPI_Ineighbor_alltoallv \cup MPI_Ineighbor_alltoallv_c \cup
  MPI_Ineighbor_alltoallw \cup MPI_Ineighbor_alltoallw_c \cup
  MPI_Info_create_to_Info_free \cup MPI_Info_get_to_Info_get_valuelen \cup
  MPI_Info_set_to_Intercomm_create_from_groups \cup
  MPI_Intercomm_merge_to_Irecv \cup MPI_Irecv_c_to_Ireduce \cup
  MPI_Ireduce_c_to_Ireduce_scatter \cup MPI_Ireduce_scatter_c \cup
  MPI_Ireduce_scatter_block_to_Ireduce_scatter_block_c \cup
  MPI_Irsend_to_Is_thread_main \cup MPI_Iscan_to_Iscan_c \cup
  MPI_Iscatter_to_Iscatter_c \cup MPI_Iscatterv \cup MPI_Iscatterv_c \cup
  MPI_Isend_to_Isend_c \cup MPI_Isendrecv \cup MPI_Isendrecv_c \cup
  MPI_Isendrecv_replace_to_Isendrecv_replace_c \cup MPI_Issend_to_Issend_c
=============================================================================
