---- MODULE MCDeployment ----
EXTENDS Deployment
S == INSTANCE DeployScripts
MCScripts == S!scripts
MCKind == S!kinds
MCRoleKind == S!roleKinds
MCLibRoles == DOMAIN S!libraries
MCNetworkConfig == S!networkConfig
MCExternal == S!external
MCCommands == {S!deploy, S!phase3, S!confirm, S!verify_etherscan}
MCFirst == S!deploy
MCVerification == S!verify_etherscan
MCFiles == {"phase1", "assets", "rtoken"}
====
