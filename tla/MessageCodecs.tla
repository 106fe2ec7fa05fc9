--------------------------- MODULE MessageCodecs ----------------------------
(***************************************************************************)
(* The requests the operator sends and the responses it reads: the layout  *)
(* of each message after its header (internal/protocol/codec/*_codec.go).  *)
(* The other side of a message is the member, which is not in this         *)
(* repository: it reads requests and writes responses in the same layout.  *)
(***************************************************************************)
EXTENDS Frames

EncodeCacheCreateConfigRequest ==
    Layout(17, <<<<"createAlsoOnOthers", "bool", 16>>>>,
           <<<<"cacheConfig", One("CacheConfigHolder")>>>>)

DecodeCacheCreateConfigResponse ==
    Layout(13, <<>>,
           <<<<"response", One("CacheConfigHolder")>>>>)

EncodeCacheGetAllRequest ==
    Layout(16, <<>>,
           <<<<"name", One("str")>>, <<"keys", Many("data")>>,
             <<"expiryPolicy", Opt("data")>>>>)

DecodeCacheGetAllResponse ==
    Layout(13, <<>>,
           <<<<"response", ManyWhileEnd("pair")>>>>)

EncodeCacheGetRequest ==
    Layout(16, <<>>,
           <<<<"name", One("str")>>, <<"key", One("data")>>, <<"expiryPolicy", Opt("data")>>>>)

DecodeCacheGetResponse ==
    Layout(13, <<>>,
           <<<<"response", Opt("data")>>>>)

EncodeCacheGetConfigRequest ==
    Layout(16, <<>>,
           <<<<"name", One("str")>>, <<"simpleName", One("str")>>>>)

DecodeCacheGetConfigResponse ==
    Layout(13, <<>>,
           <<<<"response", Opt("CacheConfigHolder")>>>>)

EncodeCachePutAllRequest ==
    Layout(20, <<<<"completionId", "int", 16>>>>,
           <<<<"name", One("str")>>, <<"entries", Many("pair")>>,
             <<"expiryPolicy", Opt("data")>>>>)

EncodeCachePutRequest ==
    Layout(21, <<<<"get", "bool", 16>>, <<"completionId", "int", 17>>>>,
           <<<<"name", One("str")>>, <<"key", One("data")>>, <<"value", One("data")>>,
             <<"expiryPolicy", Opt("data")>>>>)

DecodeCachePutResponse ==
    Layout(13, <<>>,
           <<<<"response", Opt("data")>>>>)

EncodeClientAuthenticationRequest ==
    Layout(34, <<<<"uuid", "uuid", 16>>, <<"serializationVersion", "byte", 33>>>>,
           <<<<"clusterName", One("str")>>, <<"username", Opt("str")>>,
             <<"password", Opt("str")>>, <<"clientType", One("str")>>,
             <<"clientHazelcastVersion", One("str")>>, <<"clientName", One("str")>>,
             <<"labels", Many("str")>>>>)

DecodeClientAuthenticationResponse ==
    Layout(54, <<<<"status", "byte", 13>>, <<"memberUuid", "uuid", 14>>,
                 <<"serializationVersion", "byte", 31>>, <<"partitionCount", "int", 32>>,
                 <<"clusterId", "uuid", 36>>, <<"failoverSupported", "bool", 53>>>>,
           <<<<"address", Opt("Address")>>, <<"serverHazelcastVersion", One("str")>>>>)

EncodeCPGroupCreateCPGroupRequest ==
    Layout(16, <<>>,
           <<<<"proxyName", One("str")>>>>)

DecodeCPGroupCreateCPGroupResponse ==
    Layout(13, <<>>,
           <<<<"response", One("RaftGroupId")>>>>)

EncodeCPGroupDestroyCPObjectRequest ==
    Layout(16, <<>>,
           <<<<"groupId", One("RaftGroupId")>>, <<"serviceName", One("str")>>,
             <<"objectName", One("str")>>>>)

EncodeCPMapCompareAndSetRequest ==
    Layout(16, <<>>,
           <<<<"groupId", One("RaftGroupId")>>, <<"name", One("str")>>,
             <<"key", One("data")>>, <<"expectedValue", One("data")>>,
             <<"newValue", One("data")>>>>)

DecodeCPMapCompareAndSetResponse ==
    Layout(14, <<<<"response", "bool", 13>>>>,
           <<>>)

EncodeCPMapDeleteRequest ==
    Layout(16, <<>>,
           <<<<"groupId", One("RaftGroupId")>>, <<"name", One("str")>>,
             <<"key", One("data")>>>>)

DecodeCPMapDeleteResponse ==
    Layout(13, <<>>,
           <<<<"response", Opt("data")>>>>)

EncodeCPMapGetRequest ==
    Layout(16, <<>>,
           <<<<"groupId", One("RaftGroupId")>>, <<"name", One("str")>>,
             <<"key", One("data")>>>>)

DecodeCPMapGetResponse ==
    Layout(13, <<>>,
           <<<<"response", Opt("data")>>>>)

EncodeCPMapPutRequest ==
    Layout(16, <<>>,
           <<<<"groupId", One("RaftGroupId")>>, <<"name", One("str")>>,
             <<"key", One("data")>>, <<"value", One("data")>>>>)

DecodeCPMapPutResponse ==
    Layout(13, <<>>,
           <<<<"response", Opt("data")>>>>)

EncodeCPMapRemoveRequest ==
    Layout(16, <<>>,
           <<<<"groupId", One("RaftGroupId")>>, <<"name", One("str")>>,
             <<"key", One("data")>>>>)

DecodeCPMapRemoveResponse ==
    Layout(13, <<>>,
           <<<<"response", Opt("data")>>>>)

EncodeCPMapSetRequest ==
    Layout(16, <<>>,
           <<<<"groupId", One("RaftGroupId")>>, <<"name", One("str")>>,
             <<"key", One("data")>>, <<"value", One("data")>>>>)

DecodeCPMapSetResponse ==
    Layout(13, <<>>,
           <<<<"response", Opt("data")>>>>)

EncodeDynamicConfigAddCacheConfigRequest ==
    Layout(33, <<<<"statisticsEnabled", "bool", 16>>, <<"managementEnabled", "bool", 17>>,
                 <<"readThrough", "bool", 18>>, <<"writeThrough", "bool", 19>>,
                 <<"backupCount", "int", 20>>, <<"asyncBackupCount", "int", 24>>,
                 <<"mergeBatchSize", "int", 28>>,
                 <<"disablePerEntryInvalidationEvents", "bool", 32>>>>,
           <<<<"name", One("str")>>, <<"keyType", Opt("str")>>, <<"valueType", Opt("str")>>,
             <<"cacheLoaderFactory", Opt("str")>>, <<"cacheWriterFactory", Opt("str")>>,
             <<"cacheLoader", Opt("str")>>, <<"cacheWriter", Opt("str")>>,
             <<"inMemoryFormat", One("str")>>, <<"splitBrainProtectionName", Opt("str")>>,
             <<"mergePolicy", Opt("str")>>,
             <<"partitionLostListenerConfigs", OptMany("ListenerConfigHolder")>>,
             <<"expiryPolicyFactoryClassName", Opt("str")>>,
             <<"timedExpiryPolicyFactoryConfig", Opt("TimedExpiryPolicyFactoryConfig")>>,
             <<"cacheEntryListeners", OptMany("ListenerConfigHolder")>>,
             <<"evictionConfig", Opt("EvictionConfigHolder")>>,
             <<"wanReplicationRef", Opt("WanReplicationRef")>>,
             <<"eventJournalConfig", Opt("EventJournalConfig")>>,
             <<"hotRestartConfig", Opt("HotRestartConfig")>>,
             <<"merkleTreeConfig", Opt("MerkleTreeConfig")>>,
             <<"dataPersistenceConfig", One("DataPersistenceConfig")>>,
             <<"userCodeNamespace", Opt("str")>>>>)

EncodeDynamicConfigAddDurableExecutorConfigRequest ==
    Layout(29, <<<<"poolSize", "int", 16>>, <<"durability", "int", 20>>,
                 <<"capacity", "int", 24>>, <<"statisticsEnabled", "bool", 28>>>>,
           <<<<"name", One("str")>>, <<"splitBrainProtectionName", Opt("str")>>,
             <<"userCodeNamespace", Opt("str")>>>>)

EncodeDynamicConfigAddExecutorConfigRequest ==
    Layout(25, <<<<"poolSize", "int", 16>>, <<"queueCapacity", "int", 20>>,
                 <<"statisticsEnabled", "bool", 24>>>>,
           <<<<"name", One("str")>>, <<"splitBrainProtectionName", Opt("str")>>,
             <<"userCodeNamespace", Opt("str")>>>>)

EncodeDynamicConfigAddMapConfigRequest ==
    Layout(43, <<<<"backupCount", "int", 16>>, <<"asyncBackupCount", "int", 20>>,
                 <<"timeToLiveSeconds", "int", 24>>, <<"maxIdleSeconds", "int", 28>>,
                 <<"readBackupData", "bool", 32>>, <<"mergeBatchSize", "int", 33>>,
                 <<"statisticsEnabled", "bool", 37>>, <<"metadataPolicy", "int", 38>>,
                 <<"perEntryStatsEnabled", "bool", 42>>>>,
           <<<<"name", One("str")>>, <<"evictionConfig", Opt("EvictionConfigHolder")>>,
             <<"cacheDeserializedValues", One("str")>>, <<"mergePolicy", One("str")>>,
             <<"inMemoryFormat", One("str")>>,
             <<"listenerConfigs", OptMany("ListenerConfigHolder")>>,
             <<"partitionLostListenerConfigs", OptMany("ListenerConfigHolder")>>,
             <<"splitBrainProtectionName", Opt("str")>>,
             <<"mapStoreConfig", Opt("MapStoreConfigHolder")>>,
             <<"nearCacheConfig", Opt("NearCacheConfigHolder")>>,
             <<"wanReplicationRef", Opt("WanReplicationRef")>>,
             <<"indexConfigs", OptMany("IndexConfig")>>,
             <<"attributeConfigs", OptMany("AttributeConfig")>>,
             <<"queryCacheConfigs", OptMany("QueryCacheConfigHolder")>>,
             <<"partitioningStrategyClassName", Opt("str")>>,
             <<"partitioningStrategyImplementation", Opt("data")>>,
             <<"hotRestartConfig", Opt("HotRestartConfig")>>,
             <<"eventJournalConfig", Opt("EventJournalConfig")>>,
             <<"merkleTreeConfig", Opt("MerkleTreeConfig")>>,
             <<"dataPersistenceConfig", One("DataPersistenceConfig")>>,
             <<"tieredStoreConfig", One("TieredStoreConfig")>>, <<"null", Opt("null")>>,
             <<"userCodeNamespace", Opt("str")>>>>)

EncodeDynamicConfigAddMultiMapConfigRequest ==
    Layout(30, <<<<"binary", "bool", 16>>, <<"backupCount", "int", 17>>,
                 <<"asyncBackupCount", "int", 21>>, <<"statisticsEnabled", "bool", 25>>,
                 <<"mergeBatchSize", "int", 26>>>>,
           <<<<"name", One("str")>>, <<"collectionType", One("str")>>,
             <<"listenerConfigs", OptMany("ListenerConfigHolder")>>,
             <<"splitBrainProtectionName", Opt("str")>>, <<"mergePolicy", One("str")>>,
             <<"userCodeNamespace", Opt("str")>>>>)

EncodeDynamicConfigAddQueueConfigRequest ==
    Layout(37, <<<<"backupCount", "int", 16>>, <<"asyncBackupCount", "int", 20>>,
                 <<"maxSize", "int", 24>>, <<"emptyQueueTtl", "int", 28>>,
                 <<"statisticsEnabled", "bool", 32>>, <<"mergeBatchSize", "int", 33>>>>,
           <<<<"name", One("str")>>, <<"listenerConfigs", OptMany("ListenerConfigHolder")>>,
             <<"splitBrainProtectionName", Opt("str")>>,
             <<"queueStoreConfig", Opt("null")>>,
             <<"mergePolicy", One("str")>>, <<"priorityComparatorClassName", Opt("str")>>,
             <<"userCodeNamespace", Opt("str")>>>>)

EncodeDynamicConfigAddReplicatedMapConfigRequest ==
    Layout(22, <<<<"asyncFillup", "bool", 16>>, <<"statisticsEnabled", "bool", 17>>,
                 <<"mergeBatchSize", "int", 18>>>>,
           <<<<"name", One("str")>>, <<"inMemoryFormat", One("str")>>,
             <<"mergePolicy", One("str")>>,
             <<"listenerConfigs", OptMany("ListenerConfigHolder")>>,
             <<"splitBrainProtectionName", Opt("str")>>, <<"userCodeNamespace", Opt("str")>>>>)

EncodeDynamicConfigAddScheduledExecutorConfigRequest ==
    Layout(33, <<<<"poolSize", "int", 16>>, <<"durability", "int", 20>>,
                 <<"capacity", "int", 24>>, <<"mergeBatchSize", "int", 28>>,
                 <<"statisticsEnabled", "bool", 32>>>>,
           <<<<"name", One("str")>>, <<"splitBrainProtectionName", Opt("str")>>,
             <<"mergePolicy", One("str")>>, <<"userCodeNamespace", Opt("str")>>>>)

EncodeDynamicConfigAddTopicConfigRequest ==
    Layout(19, <<<<"globalOrderingEnabled", "bool", 16>>,
                 <<"statisticsEnabled", "bool", 17>>,
                 <<"multiThreadingEnabled", "bool", 18>>>>,
           <<<<"name", One("str")>>, <<"listenerConfigs", OptMany("ListenerConfigHolder")>>,
             <<"userCodeNamespace", Opt("str")>>>>)

EncodeDynamicConfigAddUserCodeNamespaceConfigRequest ==
    Layout(16, <<>>,
           <<<<"name", One("str")>>, <<"resources", Many("ResourceDefinition")>>>>)

EncodeJetExportSnapshotRequest ==
    Layout(25, <<<<"jobId", "long", 16>>, <<"cancelJob", "bool", 24>>>>,
           <<<<"name", One("str")>>>>)

EncodeJetGetJobAndSqlSummaryListRequest ==
    Layout(16, <<>>,
           <<>>)

DecodeJetGetJobAndSqlSummaryListResponse ==
    Layout(13, <<>>,
           <<<<"response", Many("JobAndSqlSummary")>>>>)

EncodeJetResumeJobRequest ==
    Layout(24, <<<<"jobId", "long", 16>>>>,
           <<>>)

EncodeJetTerminateJobRequest ==
    Layout(45, <<<<"jobId", "long", 16>>, <<"terminateMode", "int", 24>>,
                 <<"lightJobCoordinator", "uuid", 28>>>>,
           <<>>)

EncodeJetUploadJobMetaDataRequest ==
    Layout(34, <<<<"sessionId", "uuid", 16>>, <<"jarOnMember", "bool", 33>>>>,
           <<<<"fileName", One("str")>>, <<"sha256Hex", One("str")>>,
             <<"snapshotName", Opt("str")>>, <<"jobName", Opt("str")>>,
             <<"mainClass", Opt("str")>>, <<"jobParameters", Many("str")>>>>)

EncodeJetUploadJobMultipartRequest ==
    Layout(45, <<<<"sessionId", "uuid", 16>>, <<"currentPartNumber", "int", 33>>,
                 <<"totalPartNumber", "int", 37>>, <<"partSize", "int", 41>>>>,
           <<<<"partData", One("bytes")>>>>)

DecodeJetUploadJobMultipartResponse ==
    Layout(14, <<<<"response", "bool", 13>>>>,
           <<>>)

EncodeMCAddWanBatchPublisherConfigRequest ==
    Layout(41, <<<<"queueCapacity", "int", 16>>, <<"batchSize", "int", 20>>,
                 <<"batchMaxDelayMillis", "int", 24>>,
                 <<"responseTimeoutMillis", "int", 28>>, <<"ackType", "int", 32>>,
                 <<"queueFullBehavior", "int", 36>>,
                 <<"consistencyCheckStrategy", "byte", 40>>>>,
           <<<<"name", One("str")>>, <<"targetCluster", One("str")>>,
             <<"publisherId", Opt("str")>>, <<"endpoints", One("str")>>>>)

DecodeMCAddWanBatchPublisherConfigResponse ==
    Layout(13, <<>>,
           <<<<"addedPublisherIds", Many("str")>>, <<"ignoredPublisherIds", Many("str")>>>>)

EncodeMCChangeClusterStateRequest ==
    Layout(20, <<<<"newState", "int", 16>>>>,
           <<>>)

DecodeMCChangeClusterStateRequest ==
    Layout(17, <<<<"newState", "byte", 16>>>>,
           <<>>)

EncodeMCChangeWanReplicationStateRequest ==
    Layout(17, <<<<"newState", "byte", 16>>>>,
           <<<<"wanReplicationName", One("str")>>, <<"wanPublisherId", One("str")>>>>)

EncodeMCClearWanQueuesRequest ==
    Layout(16, <<>>,
           <<<<"wanReplicationName", One("str")>>, <<"wanPublisherId", One("str")>>>>)

EncodeMCGetClusterMetadataRequest ==
    Layout(16, <<>>,
           <<>>)

DecodeMCGetClusterMetadataResponse ==
    Layout(22, <<<<"currentState", "byte", 13>>, <<"clusterTime", "long", 14>>>>,
           <<<<"memberVersion", One("str")>>, <<"jetVersion", Opt("str")>>>>)

EncodeMCGetClusterMetadataResponse ==
    Layout(22, <<<<"currentState", "byte", 13>>, <<"clusterTime", "long", 14>>>>,
           <<<<"memberVersion", One("str")>>, <<"jetVersion", One("str")>>>>)

EncodeMCGetMapConfigRequest ==
    Layout(16, <<>>,
           <<<<"mapName", One("str")>>>>)

DecodeMCGetMapConfigResponse ==
    LayoutLater(46, <<<<"inMemoryFormat", "int", 13>>, <<"backupCount", "int", 17>>,
                      <<"asyncBackupCount", "int", 21>>, <<"timeToLiveSeconds", "int", 25>>,
                      <<"maxIdleSeconds", "int", 29>>, <<"maxSize", "int", 33>>,
                      <<"maxSizePolicy", "int", 37>>, <<"readBackupData", "bool", 41>>,
                      <<"evictionPolicy", "int", 42>>>>,
                <<<<"mergePolicy", One("str")>>, <<"indexes", Many("IndexConfig")>>>>, {"indexes"})

EncodeMCGetMemberConfigRequest ==
    Layout(16, <<>>,
           <<>>)

DecodeMCGetMemberConfigResponse ==
    Layout(13, <<>>,
           <<<<"response", One("str")>>>>)

EncodeMCGetTimedMemberStateRequest ==
    Layout(16, <<>>,
           <<>>)

DecodeMCGetTimedMemberStateResponse ==
    Layout(13, <<>>,
           <<<<"response", Opt("str")>>>>)

EncodeMCInterruptHotRestartBackupRequest ==
    Layout(16, <<>>,
           <<>>)

EncodeMCPollMCEventsRequest ==
    Layout(16, <<>>,
           <<>>)

DecodeMCPollMCEventsResponse ==
    Layout(13, <<>>,
           <<<<"response", Many("MCEvent")>>>>)

EncodeMCTriggerHotRestartBackupRequest ==
    Layout(16, <<>>,
           <<>>)

EncodeMCUpdateMapConfigRequest ==
    Layout(37, <<<<"timeToLiveSeconds", "int", 16>>, <<"maxIdleSeconds", "int", 20>>,
                 <<"evictionPolicy", "int", 24>>, <<"readBackupData", "bool", 28>>,
                 <<"maxSize", "int", 29>>, <<"maxSizePolicy", "int", 33>>>>,
           <<<<"mapName", One("str")>>, <<"wrr", Opt("WanReplicationRef")>>>>)

EncodeMCWanSyncMapRequest ==
    Layout(20, <<<<"type", "int", 16>>>>,
           <<<<"wanReplicationName", One("str")>>, <<"wanPublisherId", One("str")>>,
             <<"mapName", Opt("str")>>>>)

DecodeMCWanSyncMapResponse ==
    Layout(30, <<<<"response", "uuid", 13>>>>,
           <<>>)

-----------------------------------------------------------------------------
(* The messages by name; MCChangeClusterState and MCGetClusterMetadata have a
   codec for both sides. *)

Requests == [
    CacheCreateConfigRequest |-> EncodeCacheCreateConfigRequest,
    CacheGetAllRequest |-> EncodeCacheGetAllRequest,
    CacheGetRequest |-> EncodeCacheGetRequest,
    CacheGetConfigRequest |-> EncodeCacheGetConfigRequest,
    CachePutAllRequest |-> EncodeCachePutAllRequest,
    CachePutRequest |-> EncodeCachePutRequest,
    ClientAuthenticationRequest |-> EncodeClientAuthenticationRequest,
    CPGroupCreateCPGroupRequest |-> EncodeCPGroupCreateCPGroupRequest,
    CPGroupDestroyCPObjectRequest |-> EncodeCPGroupDestroyCPObjectRequest,
    CPMapCompareAndSetRequest |-> EncodeCPMapCompareAndSetRequest,
    CPMapDeleteRequest |-> EncodeCPMapDeleteRequest,
    CPMapGetRequest |-> EncodeCPMapGetRequest,
    CPMapPutRequest |-> EncodeCPMapPutRequest,
    CPMapRemoveRequest |-> EncodeCPMapRemoveRequest,
    CPMapSetRequest |-> EncodeCPMapSetRequest,
    DynamicConfigAddCacheConfigRequest |-> EncodeDynamicConfigAddCacheConfigRequest,
    DynamicConfigAddDurableExecutorConfigRequest |-> EncodeDynamicConfigAddDurableExecutorConfigRequest,
    DynamicConfigAddExecutorConfigRequest |-> EncodeDynamicConfigAddExecutorConfigRequest,
    DynamicConfigAddMapConfigRequest |-> EncodeDynamicConfigAddMapConfigRequest,
    DynamicConfigAddMultiMapConfigRequest |-> EncodeDynamicConfigAddMultiMapConfigRequest,
    DynamicConfigAddQueueConfigRequest |-> EncodeDynamicConfigAddQueueConfigRequest,
    DynamicConfigAddReplicatedMapConfigRequest |-> EncodeDynamicConfigAddReplicatedMapConfigRequest,
    DynamicConfigAddScheduledExecutorConfigRequest |-> EncodeDynamicConfigAddScheduledExecutorConfigRequest,
    DynamicConfigAddTopicConfigRequest |-> EncodeDynamicConfigAddTopicConfigRequest,
    DynamicConfigAddUserCodeNamespaceConfigRequest |-> EncodeDynamicConfigAddUserCodeNamespaceConfigRequest,
    JetExportSnapshotRequest |-> EncodeJetExportSnapshotRequest,
    JetGetJobAndSqlSummaryListRequest |-> EncodeJetGetJobAndSqlSummaryListRequest,
    JetResumeJobRequest |-> EncodeJetResumeJobRequest,
    JetTerminateJobRequest |-> EncodeJetTerminateJobRequest,
    JetUploadJobMetaDataRequest |-> EncodeJetUploadJobMetaDataRequest,
    JetUploadJobMultipartRequest |-> EncodeJetUploadJobMultipartRequest,
    MCAddWanBatchPublisherConfigRequest |-> EncodeMCAddWanBatchPublisherConfigRequest,
    MCChangeClusterStateRequest |-> EncodeMCChangeClusterStateRequest,
    MCChangeWanReplicationStateRequest |-> EncodeMCChangeWanReplicationStateRequest,
    MCClearWanQueuesRequest |-> EncodeMCClearWanQueuesRequest,
    MCGetClusterMetadataRequest |-> EncodeMCGetClusterMetadataRequest,
    MCGetMapConfigRequest |-> EncodeMCGetMapConfigRequest,
    MCGetMemberConfigRequest |-> EncodeMCGetMemberConfigRequest,
    MCGetTimedMemberStateRequest |-> EncodeMCGetTimedMemberStateRequest,
    MCInterruptHotRestartBackupRequest |-> EncodeMCInterruptHotRestartBackupRequest,
    MCPollMCEventsRequest |-> EncodeMCPollMCEventsRequest,
    MCTriggerHotRestartBackupRequest |-> EncodeMCTriggerHotRestartBackupRequest,
    MCUpdateMapConfigRequest |-> EncodeMCUpdateMapConfigRequest,
    MCWanSyncMapRequest |-> EncodeMCWanSyncMapRequest]

RequestReaders == [MCChangeClusterStateRequest |-> DecodeMCChangeClusterStateRequest] @@ Requests

Responses == [
    CacheCreateConfigResponse |-> DecodeCacheCreateConfigResponse,
    CacheGetAllResponse |-> DecodeCacheGetAllResponse,
    CacheGetResponse |-> DecodeCacheGetResponse,
    CacheGetConfigResponse |-> DecodeCacheGetConfigResponse,
    CachePutResponse |-> DecodeCachePutResponse,
    ClientAuthenticationResponse |-> DecodeClientAuthenticationResponse,
    CPGroupCreateCPGroupResponse |-> DecodeCPGroupCreateCPGroupResponse,
    CPMapCompareAndSetResponse |-> DecodeCPMapCompareAndSetResponse,
    CPMapDeleteResponse |-> DecodeCPMapDeleteResponse,
    CPMapGetResponse |-> DecodeCPMapGetResponse,
    CPMapPutResponse |-> DecodeCPMapPutResponse,
    CPMapRemoveResponse |-> DecodeCPMapRemoveResponse,
    CPMapSetResponse |-> DecodeCPMapSetResponse,
    JetGetJobAndSqlSummaryListResponse |-> DecodeJetGetJobAndSqlSummaryListResponse,
    JetUploadJobMultipartResponse |-> DecodeJetUploadJobMultipartResponse,
    MCAddWanBatchPublisherConfigResponse |-> DecodeMCAddWanBatchPublisherConfigResponse,
    MCGetClusterMetadataResponse |-> DecodeMCGetClusterMetadataResponse,
    MCGetMapConfigResponse |-> DecodeMCGetMapConfigResponse,
    MCGetMemberConfigResponse |-> DecodeMCGetMemberConfigResponse,
    MCGetTimedMemberStateResponse |-> DecodeMCGetTimedMemberStateResponse,
    MCPollMCEventsResponse |-> DecodeMCPollMCEventsResponse,
    MCWanSyncMapResponse |-> DecodeMCWanSyncMapResponse]

ResponseWriters == [MCGetClusterMetadataResponse |-> EncodeMCGetClusterMetadataResponse] @@ Responses
=============================================================================
