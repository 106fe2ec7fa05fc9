---------------------------- MODULE ConfigCodecs ----------------------------
(***************************************************************************)
(* The structures of the client protocol: for each, the layout its encoder *)
(* writes and the layout its decoder reads (internal/protocol/codec/       *)
(* *_config*_codec.go and the like).  The two are translated separately:   *)
(* the code writes the calls twice, once in each direction.  The size of a *)
(* decoder's layout is what its fields need of the frame.                  *)
(***************************************************************************)
EXTENDS Frames

DecodeAddress ==
    Layout(4, <<<<"port", "int", 0>>>>,
           <<<<"host", One("str")>>>>)

EncodeAttributeConfig ==
    Layout(0, <<>>,
           <<<<"name", One("str")>>, <<"extractorClassName", One("str")>>>>)

DecodeAttributeConfig ==
    Layout(0, <<>>,
           <<<<"name", One("str")>>, <<"extractorClassName", One("str")>>>>)

EncodeBitmapIndexOptions ==
    Layout(4, <<<<"uniqueKeyTransformation", "int", 0>>>>,
           <<<<"uniqueKey", One("str")>>>>)

DecodeBitmapIndexOptions ==
    Layout(4, <<<<"uniqueKeyTransformation", "int", 0>>>>,
           <<<<"uniqueKey", One("str")>>>>)

EncodeCacheConfigHolder ==
    Layout(14, <<<<"backupCount", "int", 0>>, <<"asyncBackupCount", "int", 4>>,
                 <<"readThrough", "bool", 8>>, <<"writeThrough", "bool", 9>>,
                 <<"storeByValue", "bool", 10>>, <<"managementEnabled", "bool", 11>>,
                 <<"statisticsEnabled", "bool", 12>>,
                 <<"disablePerEntryInvalidationEvents", "bool", 13>>>>,
           <<<<"name", One("str")>>, <<"managerPrefix", Opt("str")>>,
             <<"uriString", Opt("str")>>, <<"inMemoryFormat", One("str")>>,
             <<"evictionConfigHolder", One("EvictionConfigHolder")>>,
             <<"wanReplicationRef", Opt("WanReplicationRef")>>,
             <<"keyClassName", One("str")>>, <<"valueClassName", One("str")>>,
             <<"cacheLoaderFactory", Opt("data")>>, <<"cacheWriterFactory", Opt("data")>>,
             <<"expiryPolicyFactory", One("data")>>,
             <<"hotRestartConfig", Opt("HotRestartConfig")>>,
             <<"eventJournalConfig", Opt("EventJournalConfig")>>,
             <<"splitBrainProtectionName", Opt("str")>>,
             <<"listenerConfigurations", Many("data")>>,
             <<"mergePolicyConfig", One("MergePolicyConfig")>>,
             <<"cachePartitionLostListenerConfigs", OptMany("ListenerConfigHolder")>>,
             <<"merkleTreeConfig", Opt("MerkleTreeConfig")>>,
             <<"dataPersistenceConfig", One("DataPersistenceConfig")>>,
             <<"userCodeNamespace", Opt("str")>>>>)

DecodeCacheConfigHolder ==
    LayoutLater(14, <<<<"backupCount", "int", 0>>, <<"asyncBackupCount", "int", 4>>,
                      <<"readThrough", "bool", 8>>, <<"writeThrough", "bool", 9>>,
                      <<"storeByValue", "bool", 10>>, <<"managementEnabled", "bool", 11>>,
                      <<"statisticsEnabled", "bool", 12>>,
                      <<"disablePerEntryInvalidationEvents", "bool", 13>>>>,
                <<<<"name", One("str")>>, <<"managerPrefix", Opt("str")>>,
                  <<"uriString", Opt("str")>>, <<"inMemoryFormat", One("str")>>,
                  <<"evictionConfigHolder", One("EvictionConfigHolder")>>,
                  <<"wanReplicationRef", One("WanReplicationRef")>>,
                  <<"keyClassName", One("str")>>, <<"valueClassName", One("str")>>,
                  <<"cacheLoaderFactory", Opt("data")>>,
                  <<"cacheWriterFactory", Opt("data")>>,
                  <<"expiryPolicyFactory", One("data")>>,
                  <<"hotRestartConfig", One("HotRestartConfig")>>,
                  <<"eventJournalConfig", One("EventJournalConfig")>>,
                  <<"splitBrainProtectionName", Opt("str")>>,
                  <<"listenerConfigurations", ManyWhileEnd("data")>>,
                  <<"mergePolicyConfig", One("MergePolicyConfig")>>,
                  <<"cachePartitionLostListenerConfigs", OptMany("ListenerConfigHolder")>>,
                  <<"merkleTreeConfig", One("MerkleTreeConfig")>>,
                  <<"dataPersistenceConfig", One("DataPersistenceConfig")>>>>,
                {"merkleTreeConfig", "dataPersistenceConfig"})

EncodeCapacity ==
    Layout(12, <<<<"value", "long", 0>>, <<"unit", "int", 8>>>>,
           <<>>)

DecodeCapacity ==
    Layout(12, <<<<"value", "long", 0>>, <<"unit", "int", 8>>>>,
           <<>>)

EncodeDataPersistenceConfig ==
    Layout(2, <<<<"enabled", "bool", 0>>, <<"fsync", "bool", 1>>>>,
           <<>>)

DecodeDataPersistenceConfig ==
    Layout(2, <<<<"enabled", "bool", 0>>, <<"fsync", "bool", 1>>>>,
           <<>>)

EncodeDiskTierConfig ==
    Layout(1, <<<<"enabled", "bool", 0>>>>,
           <<<<"deviceName", One("str")>>>>)

DecodeDiskTierConfig ==
    Layout(1, <<<<"enabled", "bool", 0>>>>,
           <<<<"deviceName", One("str")>>>>)

EncodeDurationConfig ==
    Layout(12, <<<<"durationAmount", "long", 0>>, <<"timeUnit", "int", 8>>>>,
           <<>>)

DecodeDurationConfig ==
    Layout(12, <<<<"durationAmount", "long", 0>>, <<"timeUnit", "int", 8>>>>,
           <<>>)

EncodeEventJournalConfig ==
    Layout(9, <<<<"enabled", "bool", 0>>, <<"capacity", "int", 1>>,
                <<"timeToLiveSeconds", "int", 5>>>>,
           <<>>)

\* Fault: the flag is taken for four bytes.
DecodeEventJournalConfigAligned ==
    Layout(12, <<<<"enabled", "bool", 0>>, <<"capacity", "int", 4>>,
                 <<"timeToLiveSeconds", "int", 8>>>>,
           <<>>)

DecodeEventJournalConfig ==
    Layout(9, <<<<"enabled", "bool", 0>>, <<"capacity", "int", 1>>,
                <<"timeToLiveSeconds", "int", 5>>>>,
           <<>>)

EncodeEvictionConfigHolder ==
    Layout(4, <<<<"size", "int", 0>>>>,
           <<<<"maxSizePolicy", One("str")>>, <<"evictionPolicy", One("str")>>,
             <<"comparatorClassName", Opt("str")>>, <<"comparator", Opt("data")>>>>)

DecodeEvictionConfigHolder ==
    Layout(4, <<<<"size", "int", 0>>>>,
           <<<<"maxSizePolicy", One("str")>>, <<"evictionPolicy", One("str")>>,
             <<"comparatorClassName", Opt("str")>>, <<"comparator", Opt("data")>>>>)

EncodeHotRestartConfig ==
    Layout(2, <<<<"enabled", "bool", 0>>, <<"fsync", "bool", 1>>>>,
           <<>>)

DecodeHotRestartConfig ==
    Layout(2, <<<<"enabled", "bool", 0>>, <<"fsync", "bool", 1>>>>,
           <<>>)

EncodeIndexConfig ==
    Layout(4, <<<<"type", "int", 0>>>>,
           <<<<"name", Opt("str")>>, <<"attributes", Many("str")>>,
             <<"bitmapIndexOptions", Opt("BitmapIndexOptions")>>>>)

DecodeIndexConfig ==
    Layout(4, <<<<"type", "int", 0>>>>,
           <<<<"name", Opt("str")>>, <<"attributes", Many("str")>>,
             <<"bitmapIndexOptions", Opt("BitmapIndexOptions")>>>>)

DecodeJobAndSqlSummary ==
    LayoutLater(37, <<<<"lightJob", "bool", 0>>, <<"jobId", "long", 1>>,
                      <<"executionId", "long", 9>>, <<"status", "int", 17>>,
                      <<"submissionTime", "long", 21>>, <<"completionTime", "long", 29>>>>,
                <<<<"nameOrId", One("str")>>, <<"failureText", Opt("str")>>,
                  <<"sqlSummary", Opt("SqlSummary")>>, <<"suspensionCause", Opt("str")>>>>,
                {"suspensionCause"})

EncodeListenerConfigHolder ==
    Layout(6, <<<<"listenerType", "int", 0>>, <<"includeValue", "bool", 4>>,
                <<"local", "bool", 5>>>>,
           <<<<"listenerImplementation", Opt("data")>>, <<"className", Opt("str")>>>>)

DecodeListenerConfigHolder ==
    Layout(6, <<<<"listenerType", "int", 0>>, <<"includeValue", "bool", 4>>,
                <<"local", "bool", 5>>>>,
           <<<<"listenerImplementation", Opt("data")>>, <<"className", Opt("str")>>>>)

EncodeMCEvent ==
    Layout(12, <<<<"timestamp", "long", 0>>, <<"type", "int", 8>>>>,
           <<<<"dataJson", One("str")>>>>)

DecodeMCEvent ==
    Layout(12, <<<<"timestamp", "long", 0>>, <<"type", "int", 8>>>>,
           <<<<"dataJson", One("str")>>>>)

EncodeMapStoreConfigHolder ==
    Layout(10, <<<<"enabled", "bool", 0>>, <<"writeCoalescing", "bool", 1>>,
                 <<"writeDelaySeconds", "int", 2>>, <<"writeBatchSize", "int", 6>>>>,
           <<<<"className", Opt("str")>>, <<"implementation", Opt("data")>>,
             <<"factoryClassName", Opt("str")>>, <<"factoryImplementation", Opt("data")>>,
             <<"properties", OptMany("entry")>>, <<"initialLoadMode", One("str")>>>>)

DecodeMapStoreConfigHolder ==
    Layout(10, <<<<"enabled", "bool", 0>>, <<"writeCoalescing", "bool", 1>>,
                 <<"writeDelaySeconds", "int", 2>>, <<"writeBatchSize", "int", 6>>>>,
           <<<<"className", Opt("str")>>, <<"implementation", Opt("data")>>,
             <<"factoryClassName", Opt("str")>>, <<"factoryImplementation", Opt("data")>>,
             <<"properties", OptMany("entry")>>, <<"initialLoadMode", One("str")>>>>)

EncodeMemoryTierConfig ==
    Layout(0, <<>>,
           <<<<"capacity", One("Capacity")>>>>)

DecodeMemoryTierConfig ==
    Layout(0, <<>>,
           <<<<"capacity", One("Capacity")>>>>)

EncodeMergePolicyConfig ==
    Layout(4, <<<<"batchSize", "int", 0>>>>,
           <<<<"policy", One("str")>>>>)

DecodeMergePolicyConfig ==
    Layout(4, <<<<"batchSize", "int", 0>>>>,
           <<<<"policy", One("str")>>>>)

EncodeMerkleTreeConfig ==
    Layout(6, <<<<"enabled", "bool", 0>>, <<"depth", "int", 1>>, <<"enabledSet", "bool", 5>>>>,
           <<>>)

DecodeMerkleTreeConfig ==
    LayoutLater(6, <<<<"enabled", "bool", 0>>, <<"depth", "int", 1>>,
                     <<"enabledSet", "bool", 5>>>>,
                <<>>,
                {"enabledSet"})

EncodeNearCacheConfigHolder ==
    Layout(11, <<<<"serializeKeys", "bool", 0>>, <<"invalidateOnChange", "bool", 1>>,
                 <<"timeToLiveSeconds", "int", 2>>, <<"maxIdleSeconds", "int", 6>>,
                 <<"cacheLocalEntries", "bool", 10>>>>,
           <<<<"name", One("str")>>, <<"inMemoryFormat", One("str")>>,
             <<"evictionConfigHolder", One("EvictionConfigHolder")>>,
             <<"localUpdatePolicy", One("str")>>,
             <<"preloaderConfig", Opt("NearCachePreloaderConfig")>>>>)

DecodeNearCacheConfigHolder ==
    Layout(11, <<<<"serializeKeys", "bool", 0>>, <<"invalidateOnChange", "bool", 1>>,
                 <<"timeToLiveSeconds", "int", 2>>, <<"maxIdleSeconds", "int", 6>>,
                 <<"cacheLocalEntries", "bool", 10>>>>,
           <<<<"name", One("str")>>, <<"inMemoryFormat", One("str")>>,
             <<"evictionConfigHolder", One("EvictionConfigHolder")>>,
             <<"localUpdatePolicy", One("str")>>,
             <<"preloaderConfig", Opt("NearCachePreloaderConfig")>>>>)

EncodeNearCachePreloaderConfig ==
    Layout(9, <<<<"enabled", "bool", 0>>, <<"storeInitialDelaySeconds", "int", 1>>,
                <<"storeIntervalSeconds", "int", 5>>>>,
           <<<<"directory", One("str")>>>>)

DecodeNearCachePreloaderConfig ==
    Layout(9, <<<<"enabled", "bool", 0>>, <<"storeInitialDelaySeconds", "int", 1>>,
                <<"storeIntervalSeconds", "int", 5>>>>,
           <<<<"directory", One("str")>>>>)

EncodePredicateConfigHolder ==
    Layout(0, <<>>,
           <<<<"className", Opt("str")>>, <<"sql", Opt("str")>>,
             <<"implementation", Opt("data")>>>>)

DecodePredicateConfigHolder ==
    Layout(0, <<>>,
           <<<<"className", Opt("str")>>, <<"sql", Opt("str")>>,
             <<"implementation", Opt("data")>>>>)

EncodeQueryCacheConfigHolder ==
    Layout(15, <<<<"batchSize", "int", 0>>, <<"bufferSize", "int", 4>>,
                 <<"delaySeconds", "int", 8>>, <<"includeValue", "bool", 12>>,
                 <<"populate", "bool", 13>>, <<"coalesce", "bool", 14>>>>,
           <<<<"inMemoryFormat", One("str")>>, <<"name", One("str")>>,
             <<"predicateConfigHolder", One("PredicateConfigHolder")>>,
             <<"evictionConfigHolder", One("EvictionConfigHolder")>>,
             <<"listenerConfigs", OptMany("ListenerConfigHolder")>>,
             <<"indexConfigs", OptMany("IndexConfig")>>>>)

DecodeQueryCacheConfigHolder ==
    Layout(15, <<<<"batchSize", "int", 0>>, <<"bufferSize", "int", 4>>,
                 <<"delaySeconds", "int", 8>>, <<"includeValue", "bool", 12>>,
                 <<"populate", "bool", 13>>, <<"coalesce", "bool", 14>>>>,
           <<<<"inMemoryFormat", One("str")>>, <<"name", One("str")>>,
             <<"predicateConfigHolder", One("PredicateConfigHolder")>>,
             <<"evictionConfigHolder", One("EvictionConfigHolder")>>,
             <<"listenerConfigs", OptMany("ListenerConfigHolder")>>,
             <<"indexConfigs", OptMany("IndexConfig")>>>>)

EncodeRaftGroupId ==
    Layout(16, <<<<"seed", "long", 0>>, <<"id", "long", 8>>>>,
           <<<<"name", One("str")>>>>)

DecodeRaftGroupId ==
    Layout(16, <<<<"seed", "long", 0>>, <<"id", "long", 8>>>>,
           <<<<"name", One("str")>>>>)

EncodeResourceDefinition ==
    Layout(6, <<<<"resourceType", "int", 0>>>>,
           <<<<"id", One("str")>>, <<"payload", Opt("bytes")>>,
             <<"resourceURL", Opt("str")>>>>)

DecodeSqlSummary ==
    Layout(1, <<<<"unbounded", "bool", 0>>>>,
           <<<<"query", One("str")>>>>)

EncodeTieredStoreConfig ==
    Layout(1, <<<<"enabled", "bool", 0>>>>,
           <<<<"memoryTierConfig", One("MemoryTierConfig")>>,
             <<"diskTierConfig", One("DiskTierConfig")>>>>)

DecodeTieredStoreConfig ==
    Layout(1, <<<<"enabled", "bool", 0>>>>,
           <<<<"memoryTierConfig", One("MemoryTierConfig")>>,
             <<"diskTierConfig", One("DiskTierConfig")>>>>)

EncodeTimedExpiryPolicyFactoryConfig ==
    Layout(4, <<<<"expiryPolicyType", "int", 0>>>>,
           <<<<"durationConfig", One("DurationConfig")>>>>)

DecodeTimedExpiryPolicyFactoryConfig ==
    Layout(4, <<<<"expiryPolicyType", "int", 0>>>>,
           <<<<"durationConfig", One("DurationConfig")>>>>)

EncodeWanReplicationRef ==
    Layout(1, <<<<"republishingEnabled", "bool", 0>>>>,
           <<<<"name", One("str")>>, <<"mergePolicyClassName", One("str")>>,
             <<"filters", OptMany("str")>>>>)

DecodeWanReplicationRef ==
    Layout(1, <<<<"republishingEnabled", "bool", 0>>>>,
           <<<<"name", One("str")>>, <<"mergePolicyClassName", One("str")>>,
             <<"filters", OptMany("str")>>>>)

-----------------------------------------------------------------------------
(* The structures by name.  A structure that the operator only reads (or only
   writes) is written (or read) by the member, with the same layout. *)

StructEncoders == [
    Address |-> DecodeAddress,
    AttributeConfig |-> EncodeAttributeConfig,
    BitmapIndexOptions |-> EncodeBitmapIndexOptions,
    CacheConfigHolder |-> EncodeCacheConfigHolder,
    Capacity |-> EncodeCapacity,
    DataPersistenceConfig |-> EncodeDataPersistenceConfig,
    DiskTierConfig |-> EncodeDiskTierConfig,
    DurationConfig |-> EncodeDurationConfig,
    EventJournalConfig |-> EncodeEventJournalConfig,
    EvictionConfigHolder |-> EncodeEvictionConfigHolder,
    HotRestartConfig |-> EncodeHotRestartConfig,
    IndexConfig |-> EncodeIndexConfig,
    JobAndSqlSummary |-> DecodeJobAndSqlSummary,
    ListenerConfigHolder |-> EncodeListenerConfigHolder,
    MCEvent |-> EncodeMCEvent,
    MapStoreConfigHolder |-> EncodeMapStoreConfigHolder,
    MemoryTierConfig |-> EncodeMemoryTierConfig,
    MergePolicyConfig |-> EncodeMergePolicyConfig,
    MerkleTreeConfig |-> EncodeMerkleTreeConfig,
    NearCacheConfigHolder |-> EncodeNearCacheConfigHolder,
    NearCachePreloaderConfig |-> EncodeNearCachePreloaderConfig,
    PredicateConfigHolder |-> EncodePredicateConfigHolder,
    QueryCacheConfigHolder |-> EncodeQueryCacheConfigHolder,
    RaftGroupId |-> EncodeRaftGroupId,
    ResourceDefinition |-> EncodeResourceDefinition,
    SqlSummary |-> DecodeSqlSummary,
    TieredStoreConfig |-> EncodeTieredStoreConfig,
    TimedExpiryPolicyFactoryConfig |-> EncodeTimedExpiryPolicyFactoryConfig,
    WanReplicationRef |-> EncodeWanReplicationRef]

StructDecoders == [
    Address |-> DecodeAddress,
    AttributeConfig |-> DecodeAttributeConfig,
    BitmapIndexOptions |-> DecodeBitmapIndexOptions,
    CacheConfigHolder |-> DecodeCacheConfigHolder,
    Capacity |-> DecodeCapacity,
    DataPersistenceConfig |-> DecodeDataPersistenceConfig,
    DiskTierConfig |-> DecodeDiskTierConfig,
    DurationConfig |-> DecodeDurationConfig,
    EventJournalConfig |-> DecodeEventJournalConfig,
    EvictionConfigHolder |-> DecodeEvictionConfigHolder,
    HotRestartConfig |-> DecodeHotRestartConfig,
    IndexConfig |-> DecodeIndexConfig,
    JobAndSqlSummary |-> DecodeJobAndSqlSummary,
    ListenerConfigHolder |-> DecodeListenerConfigHolder,
    MCEvent |-> DecodeMCEvent,
    MapStoreConfigHolder |-> DecodeMapStoreConfigHolder,
    MemoryTierConfig |-> DecodeMemoryTierConfig,
    MergePolicyConfig |-> DecodeMergePolicyConfig,
    MerkleTreeConfig |-> DecodeMerkleTreeConfig,
    NearCacheConfigHolder |-> DecodeNearCacheConfigHolder,
    NearCachePreloaderConfig |-> DecodeNearCachePreloaderConfig,
    PredicateConfigHolder |-> DecodePredicateConfigHolder,
    QueryCacheConfigHolder |-> DecodeQueryCacheConfigHolder,
    RaftGroupId |-> DecodeRaftGroupId,
    ResourceDefinition |-> EncodeResourceDefinition,
    SqlSummary |-> DecodeSqlSummary,
    TieredStoreConfig |-> DecodeTieredStoreConfig,
    TimedExpiryPolicyFactoryConfig |-> DecodeTimedExpiryPolicyFactoryConfig,
    WanReplicationRef |-> DecodeWanReplicationRef]
=============================================================================
