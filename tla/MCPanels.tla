------------------------------ MODULE MCPanels ------------------------------
(* Every panel of the site, two queries and four things done by the user.    *)
EXTENDS Panels

AllPanels ==
  {AccountTxHistory, PoolsPanel, RpcCatalogPanel, TokensIndexPanel, NodeHealthPanel,
   QaTransparencyDashboard, NetworkChainContext, BlobAccess, DexTokensPanel,
   DexRpcPoolsSection, AccountNftGallery, LinkedCompanionsSection, AccountContractHints,
   ContractFunctions, TxDescription, NodeProtocolInfo, BoingNameTag, OffchainImage,
   BlockByHashPage, TxPage, NamePage, AccountOfPage, ProfileOfPage, NftItemExplorerView,
   QuotePanel, FaucetPage, QaCheckPage, AccountProofPanel, ReadCall}
=============================================================================
