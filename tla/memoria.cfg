SPECIFICATION SpecMmu
CONSTANTS
    MaxPid = 2
    NMarcos = 2
    Tamanios = {0,1,2}
    Achican = TRUE
    Terminan = {1}
    MaxResize = 3
    Entradas = 2
    AlgoritmoTlb = "LRU"
    MaxTramo = 2
INVARIANTS TypeOK SinMarcoCompartido MarcadosOcupados PaginasCompletas TlbVigente
PROPERTY SoloSusEscrituras
CHECK_DEADLOCK FALSE
